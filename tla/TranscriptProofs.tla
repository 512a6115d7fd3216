-------------------------- MODULE TranscriptProofs ---------------------------
(***************************************************************************)
(* Theorems about what is seen of a transcript: the history a client walks *)
(* while live frames arrive, and the live view of a durable conversation.  *)
(***************************************************************************)
EXTENDS
    TranscriptWalk, DurableView, SequenceTheorems, FiniteSetTheorems, WellFoundedInduction, TLAPS

\* A set of numbers that is not empty has a least.
LEMMA LeastIndex ==
    ASSUME NEW I \in SUBSET Nat, I # {}
    PROVE  /\ (CHOOSE i \in I : \A j \in I : i <= j) \in I
           /\ \A j \in I : (CHOOSE i \in I : \A l \in I : i <= l) <= j
<1>1. PICK n \in I : \A m \in I : ~(<<m, n>> \in OpToRel(<, Nat))
  BY WFMin, NatLessThanWellFounded
<1>2. \A i, j \in Nat : i < j => <<i, j>> \in OpToRel(<, Nat)
  BY Zenon DEF OpToRel
<1>3. \A m \in I : ~(m < n)
  BY <1>1, <1>2, Zenon
<1>4. \A m \in I : n <= m
  BY <1>3
<1> QED
  BY <1>4

-----------------------------------------------------------------------------
(***************************************************************************)
(* Folds.  FoldLeft is a fold of a recursive function over the places of   *)
(* the sequence; that there is such a function is proved here by way of    *)
(* the least counterexample (UpTo).  FoldPrefixes is what is used: a fold  *)
(* is the last of a row of values, each a step from the one before.        *)
(***************************************************************************)

\* The least and the greatest of a set of numbers.
LEMMA MinOf ==
    ASSUME NEW I \in SUBSET Nat, I # {}
    PROVE  Min(I) \in I /\ \A j \in I : Min(I) <= j
BY LeastIndex DEF Min

\* The greatest, if they are bounded.
LEMMA MaxOf ==
    ASSUME NEW n \in Nat, NEW I \in SUBSET (0 .. n), I # {}
    PROVE  Max(I) \in I /\ \A j \in I : Max(I) >= j
<1> DEFINE D == {n - i : i \in I}
<1>0. \A i \in I : i \in Nat /\ n - i \in Nat
  OBVIOUS
<1>1. D \in SUBSET Nat /\ D # {}
  BY <1>0
<1> HIDE DEF D
<1>2. PICK d \in D : \A e \in D : d <= e
  BY <1>1, LeastIndex
<1>3. PICK i \in I : d = n - i
  BY DEF D
<1>4. \A j \in I : i >= j
  <2> SUFFICES ASSUME NEW j \in I PROVE i >= j
    OBVIOUS
  <2>1. n - j \in D
    BY DEF D
  <2> QED
    BY <1>2, <1>3, <2>1
<1> QED
  BY <1>4 DEF Max

\* The one that no other exceeds is the greatest.
LEMMA MaxIs ==
    ASSUME NEW n \in Nat, NEW I \in SUBSET (0 .. n), NEW m \in I, \A j \in I : m >= j
    PROVE  Max(I) = m
<1>0. I # {}
  OBVIOUS
<1>1. Max(I) \in I /\ \A j \in I : Max(I) >= j
  BY <1>0, MaxOf
<1>2. \A j \in I : j \in Nat
  OBVIOUS
<1> DEFINE x == Max(I)
<1>3. x \in I /\ x >= m /\ m >= x
  BY <1>1
<1> HIDE DEF x
<1>4. x = m
  BY <1>2, <1>3
<1> QED
  BY <1>4 DEF x

\* Induction over the numbers up to n, for a set of them.
LEMMA UpTo ==
    ASSUME NEW n \in Nat, NEW T, 0 \in T, \A k \in 0 .. n : k \in T /\ k # n => k + 1 \in T
    PROVE  0 .. n \subseteq T
<1> SUFFICES ASSUME ~ (0 .. n \subseteq T) PROVE FALSE
  OBVIOUS
<1> DEFINE I == {k \in 0 .. n : k \notin T}
<1>1. I \in SUBSET Nat /\ I # {}
  OBVIOUS
<1>2. PICK m \in I : \A k \in I : m <= k
  BY <1>1, LeastIndex
<1>3. m # 0 /\ m - 1 \in 0 .. n /\ m - 1 \notin I /\ m - 1 # n /\ m = (m - 1) + 1
  BY <1>2
<1>4. m - 1 \in T
  BY <1>3
<1> QED
  BY <1>3, <1>4

\* f is the function that a fold over 1 .. n iterates; g has its values on the
\* prefixes 1 .. k.
Iterates(f, base, n, step) ==
    \A S \in SUBSET (1 .. n) : f[S] = IF S = {} THEN base ELSE step[<<f[S \ {Max(S)}], Max(S)>>]
Continues(f, V, base, n, step) ==
    /\ f[{}] = base
    /\ \A S \in SUBSET (1 .. n) : S # {} /\ f[S \ {Max(S)}] \in V =>
          f[S] = step[<<f[S \ {Max(S)}], Max(S)>>]
Steps(g, base, n, step) == g[0] = base /\ \A k \in 1 .. n : g[k] = step[<<g[k - 1], k>>]

\* There is such a function.
LEMMA FoldExists ==
    ASSUME NEW V, NEW base \in V, NEW n \in Nat, NEW step \in [V \X (1 .. n) -> V]
    PROVE  \E f \in [SUBSET (1 .. n) -> V] : Iterates(f, base, n, step)
<1> DEFINE Def(k, f) == Iterates(f, base, k, step)
           T == {k \in 0 .. n : \E f \in [SUBSET (1 .. k) -> V] : Def(k, f)}
<1>1. 0 \in T
  <2>1. [S \in SUBSET (1 .. 0) |-> base] \in [SUBSET (1 .. 0) -> V]
    OBVIOUS
  <2>2. \A S \in SUBSET (1 .. 0) : S = {}
    OBVIOUS
  <2>3. Def(0, [S \in SUBSET (1 .. 0) |-> base])
    BY <2>2 DEF Iterates
  <2>4. 0 \in 0 .. n
    OBVIOUS
  <2> HIDE DEF Def
  <2> QED
    BY <2>1, <2>3, <2>4
<1>2. ASSUME NEW k \in 0 .. n, k \in T, k # n PROVE k + 1 \in T
  <2>1. PICK f \in [SUBSET (1 .. k) -> V] : Def(k, f)
    BY <1>2
  <2> DEFINE g == [S \in SUBSET (1 .. k + 1) |->
                     IF k + 1 \in S THEN step[<<f[S \ {k + 1}], k + 1>>] ELSE f[S]]
  <2>2. \A S \in SUBSET (1 .. k + 1) : S \ {k + 1} \in SUBSET (1 .. k)
    OBVIOUS
  <2>3. \A S \in SUBSET (1 .. k + 1) : k + 1 \notin S => S \in SUBSET (1 .. k)
    OBVIOUS
  <2>4. k + 1 \in 1 .. n
    BY <1>2
  <2>5. g \in [SUBSET (1 .. k + 1) -> V]
    BY <2>2, <2>3, <2>4
  <2>6. ASSUME NEW S \in SUBSET (1 .. k + 1)
        PROVE  g[S] = IF S = {} THEN base ELSE step[<<g[S \ {Max(S)}], Max(S)>>]
    <3>1. CASE k + 1 \in S
      <4>1. \A j \in S : k + 1 >= j
        OBVIOUS
      <4>0. k + 1 \in Nat /\ S \in SUBSET (0 .. k + 1)
        OBVIOUS
      <4>2. Max(S) = k + 1
        BY <3>1, <4>0, <4>1, MaxIs
      <4>3. S \ {k + 1} \in SUBSET (1 .. k + 1) /\ k + 1 \notin S \ {k + 1}
        OBVIOUS
      <4>4. g[S \ {k + 1}] = f[S \ {k + 1}]
        BY <4>3
      <4>5. g[S] = step[<<f[S \ {k + 1}], k + 1>>]
        BY <3>1
      <4> QED
        BY <3>1, <4>2, <4>4, <4>5
    <3>2. CASE k + 1 \notin S
      <4>1. S \in SUBSET (1 .. k)
        BY <3>2, <2>3
      <4>2. S \ {Max(S)} \in SUBSET (1 .. k + 1) /\ k + 1 \notin S \ {Max(S)}
        BY <3>2
      <4>3. g[S] = f[S] /\ g[S \ {Max(S)}] = f[S \ {Max(S)}]
        BY <3>2, <4>2
      <4> QED
        BY <4>1, <4>3, <2>1 DEF Iterates
    <3> QED
      BY <3>1, <3>2
  <2> HIDE DEF g
  <2>7. Def(k + 1, g)
    BY <2>6 DEF Iterates
  <2>8. \E h \in [SUBSET (1 .. k + 1) -> V] : Def(k + 1, h)
    BY <2>5, <2>7
  <2>9. k + 1 \in 0 .. n
    BY <1>2
  <2> HIDE DEF Def
  <2> QED
    BY <2>8, <2>9
<1> HIDE DEF T
<1>3. 0 .. n \subseteq T
  BY <1>1, <1>2, UpTo
<1>4. n \in T
  BY <1>3
<1> QED
  BY <1>4 DEF T

\* Its values on the prefixes 1 .. k, one step each.
LEMMA FoldPrefixes ==
    ASSUME NEW V, NEW base \in V, NEW n \in Nat, NEW step \in [V \X (1 .. n) -> V], NEW f,
           Continues(f, V, base, n, step)
    PROVE  \E g \in [0 .. n -> V] : g[n] = f[1 .. n] /\ Steps(g, base, n, step)
<1> DEFINE T == {k \in 0 .. n : f[1 .. k] \in V}
           g == [k \in 0 .. n |-> f[1 .. k]]
<1>1. 1 .. 0 = {} /\ f[1 .. 0] = base
  <2>1. 1 .. 0 = {}
    OBVIOUS
  <2> QED
    BY <2>1 DEF Continues
<1>2. ASSUME NEW k \in 0 .. n, k # n, f[1 .. k] \in V
      PROVE  f[1 .. k + 1] = step[<<f[1 .. k], k + 1>>] /\ f[1 .. k + 1] \in V
  <2> DEFINE S == 1 .. k + 1
  <2>1. k \in Nat /\ k + 1 \in 1 .. n
    BY <1>2
  <2>0. S \in SUBSET (1 .. n) /\ S \in SUBSET (0 .. n) /\ k + 1 \in S /\ \A j \in S : k + 1 >= j
    BY <2>1
  <2> HIDE DEF S
  <2>2. Max(S) = k + 1
    BY <2>0, MaxIs
  <2>3. S \ {k + 1} = 1 .. k
    BY <2>1 DEF S
  <2>4. f[S] = step[<<f[1 .. k], k + 1>>]
    BY <1>2, <2>0, <2>2, <2>3 DEF Continues
  <2> QED
    BY <1>2, <2>1, <2>4 DEF S
<1>3. 0 \in T /\ \A k \in 0 .. n : k \in T /\ k # n => k + 1 \in T
  <2>1. 0 \in T
    BY <1>1
  <2>2. ASSUME NEW k \in 0 .. n, k \in T, k # n PROVE k + 1 \in T
    <3>0. f[1 .. k] \in V
      BY <2>2
    <3>1. f[1 .. k + 1] \in V
      BY <2>2, <3>0, <1>2
    <3>2. k + 1 \in 0 .. n
      BY <2>2
    <3> QED
      BY <3>1, <3>2
  <2> HIDE DEF T
  <2> QED
    BY <2>1, <2>2
<1> HIDE DEF T
<1>4. 0 .. n \subseteq T
  BY <1>3, UpTo
<1>5. g \in [0 .. n -> V]
  BY <1>4 DEF T
<1>6. g[0] = base /\ g[n] = f[1 .. n]
  BY <1>1
<1>7. ASSUME NEW k \in 1 .. n PROVE g[k] = step[<<g[k - 1], k>>]
  <2>1. k - 1 \in 0 .. n /\ k - 1 # n /\ f[1 .. k - 1] \in V /\ (k - 1) + 1 = k
    BY <1>4 DEF T
  <2> DEFINE j == k - 1
  <2>2. f[1 .. j + 1] = step[<<f[1 .. j], j + 1>>]
    <3> HIDE DEF j
    <3>1. j \in 0 .. n /\ j # n /\ f[1 .. j] \in V
      BY <2>1 DEF j
    <3> QED
      BY <3>1, <1>2
  <2>3. j + 1 = k /\ k \in 0 .. n
    OBVIOUS
  <2>4. g[k] = f[1 .. k] /\ g[j] = f[1 .. j]
    BY <2>1, <2>3
  <2> HIDE DEF g
  <2> QED
    BY <2>2, <2>3, <2>4
<1> QED
  BY <1>5, <1>6, <1>7 DEF Steps

-----------------------------------------------------------------------------
(* What is shown *)

Item == [kind : {"message", "tool"}, id : Nat, result : BOOLEAN]
Items == Seq(Item)
Envelopes == [type : {"message_end", "tool_execution_start", "tool_execution_end"}, id : Nat]

\* The cards drawn for a call.
Cards(items, i) == {j \in DOMAIN items : items[j].kind = "tool" /\ items[j].id = i}

\* Cards are places of the items.
LEMMA CardsBound ==
    ASSUME NEW items \in Items, NEW i, Cards(items, i) # {}
    PROVE  /\ Max(Cards(items, i)) \in Cards(items, i)
           /\ \A j \in Cards(items, i) : Max(Cards(items, i)) >= j
<1>1. Len(items) \in Nat /\ Cards(items, i) \in SUBSET (0 .. Len(items))
  BY DEF Items, Cards
<1> QED
  BY <1>1, MaxOf

\* reduceFrame leaves items.
LEMMA ReduceFrameType ==
    ASSUME NEW items \in Items, NEW f \in Envelopes
    PROVE  reduceFrame(items, f) \in Items
<1>1. CASE f.type = "tool_execution_end"
  <2>1. CASE Cards(items, f.id) = {}
    BY <1>1, <2>1 DEF reduceFrame, Cards
  <2>2. CASE Cards(items, f.id) # {}
    <3>1. reduceFrame(items, f) = [items EXCEPT ![Max(Cards(items, f.id))].result = TRUE]
      BY <1>1, <2>2 DEF reduceFrame, Cards
    <3> DEFINE m == Max(Cards(items, f.id))
               new == [items EXCEPT ![m].result = TRUE]
    <3>2. m \in DOMAIN items
      BY <2>2, CardsBound DEF Cards
    <3> HIDE DEF m
    <3>3. items \in Seq(Item) /\ \A j \in 1 .. Len(items) : items[j] \in Item
      BY DEF Items
    <3>7. m \in 1 .. Len(items)
      BY <3>2, <3>3
    <3>8. items[m] \in Item
      BY <3>7, <3>3
    <3>9. \A v \in Item : [v EXCEPT !.result = TRUE] \in Item
      BY DEF Item
    <3>4. [items[m] EXCEPT !.result = TRUE] \in Item
      BY <3>8, <3>9
    <3>5. new = [items EXCEPT ![m] = [items[m] EXCEPT !.result = TRUE]]
      OBVIOUS
    <3>6. new \in Seq(Item)
      BY <3>2, <3>3, <3>4, <3>5
    <3> QED
      BY <3>1, <3>6 DEF Items, m
  <2> QED
    BY <2>1, <2>2
<1>2. CASE f.type = "message_end"
  <2>1. [kind |-> "message", id |-> f.id, result |-> FALSE] \in Item
    BY DEF Item, Envelopes
  <2> QED
    BY <1>2, <2>1, AppendProperties DEF reduceFrame, Items
<1>3. CASE f.type = "tool_execution_start"
  <2>1. [kind |-> "tool", id |-> f.id, result |-> FALSE] \in Item
    BY DEF Item, Envelopes
  <2> QED
    BY <1>3, <2>1, AppendProperties DEF reduceFrame, Items
<1> QED
  BY <1>1, <1>2, <1>3 DEF Envelopes

\* reduce, envelope by envelope.
LEMMA FoldFrames ==
    ASSUME NEW items \in Items, NEW e \in Seq(Envelopes)
    PROVE  \E g \in [0 .. Len(e) -> Items] :
              /\ g[0] = items /\ g[Len(e)] = FoldLeft(reduceFrame, items, e)
              /\ \A k \in 1 .. Len(e) : g[k] = reduceFrame(g[k - 1], e[k])
<1> DEFINE n == Len(e)
           step == [x \in Items \X (1 .. n) |-> reduceFrame(x[1], e[x[2]])]
           Is(h) == h = [S \in SUBSET DOMAIN e |->
                           IF S = {} THEN items ELSE reduceFrame(h[S \ {Max(S)}], e[Max(S)])]
           f == CHOOSE h : Is(h)
<1>1. n \in Nat /\ DOMAIN e = 1 .. n /\ \A k \in 1 .. n : e[k] \in Envelopes
  OBVIOUS
<1>2. FoldLeft(reduceFrame, items, e) = f[DOMAIN e]
  BY DEF FoldLeft, MapThenFoldSet
<1> HIDE DEF n
<1>3. \A v \in Items, k \in 1 .. n : reduceFrame(v, e[k]) \in Items
  BY <1>1, ReduceFrameType
<1>4. step \in [Items \X (1 .. n) -> Items]
  BY <1>3
<1>5. \A v \in Items, k \in 1 .. n : step[<<v, k>>] = reduceFrame(v, e[k])
  OBVIOUS
<1> HIDE DEF step
<1>6. PICK h \in [SUBSET (1 .. n) -> Items] : Iterates(h, items, n, step)
  BY <1>1, <1>4, FoldExists
<1>7. \A S \in SUBSET (1 .. n) : S # {} => Max(S) \in 1 .. n /\ S \ {Max(S)} \in SUBSET (1 .. n)
  <2> SUFFICES ASSUME NEW S \in SUBSET (1 .. n), S # {} PROVE Max(S) \in S
    OBVIOUS
  <2>1. S \in SUBSET (0 .. n)
    BY <1>1
  <2> QED
    BY <1>1, <2>1, MaxOf
<1>8. Is(h)
  <2>1. \A S \in SUBSET (1 .. n) :
           h[S] = IF S = {} THEN items ELSE reduceFrame(h[S \ {Max(S)}], e[Max(S)])
    BY <1>5, <1>6, <1>7 DEF Iterates
  <2> QED
    BY <1>1, <2>1
<1>9. Is(f)
  BY <1>8
<1> HIDE DEF f
<1>10. f[{}] = items
  BY <1>1, <1>9
<1>11. Continues(f, Items, items, n, step)
  BY <1>1, <1>5, <1>7, <1>9, <1>10 DEF Continues
<1>12. PICK g \in [0 .. n -> Items] : g[n] = f[1 .. n] /\ Steps(g, items, n, step)
  BY <1>1, <1>4, <1>11, FoldPrefixes
<1>13. \A k \in 1 .. n : g[k] = reduceFrame(g[k - 1], e[k])
  <2> SUFFICES ASSUME NEW k \in 1 .. n PROVE g[k - 1] \in Items
    BY <1>5, <1>12 DEF Steps
  <2>1. k - 1 \in 0 .. n
    BY <1>1
  <2> QED
    BY <2>1
<1> QED
  BY <1>1, <1>2, <1>12, <1>13 DEF n, Steps

\* A card is drawn for a call, and the last one has its result.
Drawn(items, c) == Cards(items, c) # {}
Resolved(items, c) == items[Max(Cards(items, c))].result

Grown(new, items, item) == new = Append(items, item)

\* What one more item changes.
LEMMA AppendedItem ==
    ASSUME NEW items \in Items, NEW item \in Item, NEW c \in Nat, NEW new, Grown(new, items, item)
    PROVE  /\ item.kind = "tool" /\ item.id = c => Drawn(new, c) /\ Resolved(new, c) = item.result
           /\ ~ (item.kind = "tool" /\ item.id = c) =>
                 /\ Drawn(new, c) <=> Drawn(items, c)
                 /\ Drawn(items, c) => Resolved(new, c) = Resolved(items, c)
<1> DEFINE l == Len(items) + 1
<1>1. /\ Len(items) \in Nat /\ l \in Nat /\ new \in Items /\ DOMAIN new = 1 .. l /\ DOMAIN items = 1 .. Len(items)
      /\ new[l] = item /\ \A j \in 1 .. Len(items) : new[j] = items[j]
  BY DEF Items, Grown
<1> HIDE DEF l
<1>0. \A j \in 1 .. Len(items) : j \in 1 .. l /\ j # l
  BY <1>1 DEF l
<1>9. \A j \in 1 .. l : j = l \/ j \in 1 .. Len(items)
  BY <1>1 DEF l
<1>2. CASE item.kind = "tool" /\ item.id = c
  <2>1. l \in Cards(new, c) /\ Cards(new, c) \in SUBSET (0 .. l) /\ \A j \in Cards(new, c) : l >= j
    <3>1. \A j \in Cards(new, c) : j \in 1 .. l
      BY <1>1 DEF Cards
    <3>2. l \in DOMAIN new /\ new[l].kind = "tool" /\ new[l].id = c
      <4>1. l \in Nat /\ DOMAIN new = 1 .. l /\ l # 0 /\ new[l] = item
        BY <1>1 DEF l
      <4>2. l \in 1 .. l
        BY <4>1
      <4> QED
        BY <1>2, <4>1, <4>2
    <3>3. l \in Cards(new, c)
      BY <3>2 DEF Cards
    <3>4. \A j \in 1 .. l : j \in 0 .. l /\ l >= j
      BY <1>1
    <3> QED
      BY <3>1, <3>3, <3>4
  <2>2. Max(Cards(new, c)) = l
    <3>1. l \in Nat
      BY <1>1
    <3> QED
      BY <2>1, <3>1, MaxIs
  <2> QED
    BY <1>1, <1>2, <2>1, <2>2 DEF Drawn, Resolved
<1>3. CASE ~ (item.kind = "tool" /\ item.id = c)
  <2>1. Cards(new, c) = Cards(items, c)
    BY <1>0, <1>1, <1>3, <1>9 DEF Cards
  <2>2. Drawn(items, c) => Max(Cards(items, c)) \in 1 .. Len(items)
    BY <1>1, CardsBound DEF Drawn, Cards
  <2> QED
    BY <1>1, <1>3, <2>1, <2>2 DEF Drawn, Resolved
<1> QED
  BY <1>2, <1>3

\* An item that is no card of c leaves its card alone.
LEMMA AppendedOther ==
    ASSUME NEW items \in Items, NEW item \in Item, NEW c \in Nat, NEW new, Grown(new, items, item),
           ~ (item.kind = "tool" /\ item.id = c)
    PROVE  /\ Drawn(new, c) <=> Drawn(items, c)
           /\ Drawn(items, c) => Resolved(new, c) = Resolved(items, c)
BY AppendedItem

\* What an envelope does to the cards.
LEMMA FrameEffect ==
    ASSUME NEW items \in Items, NEW f \in Envelopes, NEW c \in Nat, NEW new, new = reduceFrame(items, f)
    PROVE  /\ Drawn(new, c) <=> Drawn(items, c) \/ (f.type = "tool_execution_start" /\ f.id = c)
           /\ f.type = "tool_execution_start" /\ f.id = c => Resolved(new, c) = FALSE
           /\ f.type = "tool_execution_end" /\ f.id = c /\ Drawn(items, c) => Resolved(new, c) = TRUE
           /\ (f.type = "message_end" \/ f.id # c) /\ Drawn(items, c) => Resolved(new, c) = Resolved(items, c)
<1>0. f.id \in Nat
  BY DEF Envelopes
<1>1. CASE f.type = "message_end"
  <2> DEFINE item == [kind |-> "message", id |-> f.id, result |-> FALSE]
  <2>1. item \in Item /\ item.kind # "tool"
    BY <1>0 DEF Item
  <2>2. Grown(new, items, item)
    BY <1>1 DEF reduceFrame, Grown
  <2> HIDE DEF item
  <2>3. /\ Drawn(new, c) <=> Drawn(items, c)
        /\ Drawn(items, c) => Resolved(new, c) = Resolved(items, c)
    BY <2>1, <2>2, AppendedOther
  <2> QED
    BY <1>1, <2>3
<1>2. CASE f.type = "tool_execution_start"
  <2> DEFINE item == [kind |-> "tool", id |-> f.id, result |-> FALSE]
  <2>1. item \in Item /\ item.kind = "tool" /\ item.id = f.id /\ item.result = FALSE
    BY <1>0 DEF Item
  <2>2. Grown(new, items, item)
    BY <1>2 DEF reduceFrame, Grown
  <2> HIDE DEF item
  <2>3. CASE f.id = c
    <3>1. Drawn(new, c) /\ Resolved(new, c) = FALSE
      BY <2>1, <2>2, <2>3, AppendedItem
    <3> QED
      BY <1>2, <2>3, <3>1
  <2>4. CASE f.id # c
    <3>1. /\ Drawn(new, c) <=> Drawn(items, c)
          /\ Drawn(items, c) => Resolved(new, c) = Resolved(items, c)
      BY <2>1, <2>2, <2>4, AppendedOther
    <3> QED
      BY <1>2, <2>4, <3>1
  <2> QED
    BY <2>3, <2>4
<1>3. CASE f.type = "tool_execution_end" /\ ~ Drawn(items, f.id)
  <2>1. reduceFrame(items, f) = items
    BY <1>3 DEF reduceFrame, Drawn, Cards
  <2> QED
    BY <1>3, <2>1
<1>4. CASE f.type = "tool_execution_end" /\ Drawn(items, f.id)
  <2> DEFINE m == Max(Cards(items, f.id))
  <2>1. new = [items EXCEPT ![m].result = TRUE]
    BY <1>4 DEF reduceFrame, Drawn, Cards
  <2>2. m \in Cards(items, f.id)
    BY <1>4, CardsBound DEF Drawn
  <2>3. \A j \in DOMAIN items : items[j] \in Item
    BY DEF Items
  <2> HIDE DEF m
  <2>4. DOMAIN new = DOMAIN items /\ \A j \in DOMAIN items :
           /\ new[j].kind = items[j].kind /\ new[j].id = items[j].id
           /\ new[j].result = (j = m \/ items[j].result)
    BY <2>1, <2>2, <2>3 DEF Cards, Item
  <2>5. Cards(new, c) = Cards(items, c)
    BY <2>4 DEF Cards
  <2>6. ASSUME Drawn(items, c)
        PROVE  Resolved(new, c) = (Max(Cards(items, c)) = m \/ Resolved(items, c))
    <3>1. Max(Cards(items, c)) \in DOMAIN items
      BY <2>6, CardsBound DEF Drawn, Cards
    <3> QED
      BY <2>4, <2>5, <3>1 DEF Resolved
  <2>7. Drawn(items, c) /\ c # f.id => Max(Cards(items, c)) # m
    BY <2>2, CardsBound DEF Drawn, Cards
  <2>8. Drawn(items, c) => Resolved(items, c) \in BOOLEAN
    <3>1. Drawn(items, c) => Max(Cards(items, c)) \in DOMAIN items
      BY CardsBound DEF Drawn, Cards
    <3>2. \A j \in DOMAIN items : items[j].result \in BOOLEAN
      BY <2>3 DEF Item
    <3> QED
      BY <3>1, <3>2 DEF Resolved
  <2> QED
    BY <1>4, <2>1, <2>5, <2>6, <2>7, <2>8 DEF Drawn, m
<1> QED
  BY <1>1, <1>2, <1>3, <1>4 DEF Envelopes

\* An entry is made into envelopes.
LEMMA EnvelopesType ==
    ASSUME NEW i \in Nat \ {0}
    PROVE  EnvelopesOf(i) \in Seq(Envelopes) /\ Len(EnvelopesOf(i)) \in {1, 2}
<1>1. [type |-> "message_end", id |-> i] \in Envelopes /\ [type |-> "tool_execution_start", id |-> i] \in Envelopes
  BY DEF Envelopes
<1>2. i - 1 \in Nat
  OBVIOUS
<1>3. [type |-> "tool_execution_end", id |-> i - 1] \in Envelopes
  BY <1>2 DEF Envelopes
<1> QED
  BY <1>1, <1>3 DEF EnvelopesOf

\* reduceEntry leaves items.
LEMMA EntryType ==
    ASSUME NEW items \in Items, NEW i \in Nat \ {0}
    PROVE  reduceEntry(items, i) \in Items
<1> DEFINE e == EnvelopesOf(i)
<1>1. e \in Seq(Envelopes)
  BY EnvelopesType
<1> HIDE DEF e
<1>2. PICK g \in [0 .. Len(e) -> Items] : g[Len(e)] = FoldLeft(reduceFrame, items, e)
  BY <1>1, FoldFrames
<1>3. Len(e) \in 0 .. Len(e)
  BY <1>1
<1> QED
  BY <1>2, <1>3 DEF reduceEntry, e

\* What an entry does to the cards.
LEMMA EntryEffect ==
    ASSUME NEW items \in Items, NEW i \in Nat \ {0}, NEW c \in Nat,
           WhatOf(i) \in What, NEW new, new = reduceEntry(items, i)
    PROVE  /\ new \in Items
           /\ Drawn(items, c) => Drawn(new, c)
           /\ WhatOf(i) = "call" /\ i = c => Drawn(new, c) /\ Resolved(new, c) = FALSE
           /\ WhatOf(i) = "result" /\ i = c + 1 /\ Drawn(items, c) => Resolved(new, c) = TRUE
           /\ i # c /\ i # c + 1 /\ Drawn(items, c) => Resolved(new, c) = Resolved(items, c)
<1> DEFINE e == EnvelopesOf(i)
<1>1. PICK g \in [0 .. Len(e) -> Items] :
              /\ g[0] = items /\ g[Len(e)] = reduceEntry(items, i)
              /\ \A k \in 1 .. Len(e) : g[k] = reduceFrame(g[k - 1], e[k])
  BY EnvelopesType, FoldFrames DEF reduceEntry
<1>2. CASE WhatOf(i) = "message"
  <2>1. Len(e) = 1 /\ e[1] = [type |-> "message_end", id |-> i] /\ e[1] \in Envelopes
    BY <1>2 DEF EnvelopesOf, Envelopes
  <2> DEFINE f == e[1]
  <2>2. f \in Envelopes /\ f.type = "message_end"
    BY <2>1
  <2>3. new \in Items /\ new = reduceFrame(items, f)
    BY <1>1, <2>1
  <2> HIDE DEF f
  <2>4. /\ Drawn(new, c) <=> Drawn(items, c)
        /\ Drawn(items, c) => Resolved(new, c) = Resolved(items, c)
    BY <2>2, <2>3, FrameEffect
  <2> QED
    BY <1>2, <2>3, <2>4
<1>3. CASE WhatOf(i) = "result"
  <2>0. i - 1 \in Nat
    OBVIOUS
  <2>1. Len(e) = 1 /\ e[1] = [type |-> "tool_execution_end", id |-> i - 1] /\ e[1] \in Envelopes
    BY <1>3, <2>0 DEF EnvelopesOf, Envelopes
  <2> DEFINE f == e[1]
  <2>2. f \in Envelopes /\ f.type = "tool_execution_end" /\ f.id = i - 1
    BY <2>1
  <2>3. new \in Items /\ new = reduceFrame(items, f)
    BY <1>1, <2>1
  <2> HIDE DEF f
  <2>4. /\ Drawn(new, c) <=> Drawn(items, c)
        /\ f.id = c /\ Drawn(items, c) => Resolved(new, c) = TRUE
        /\ f.id # c /\ Drawn(items, c) => Resolved(new, c) = Resolved(items, c)
    BY <2>2, <2>3, FrameEffect
  <2> QED
    BY <1>3, <2>2, <2>3, <2>4
<1>4. CASE WhatOf(i) = "call"
  <2>1. /\ Len(e) = 2 /\ e[1] = [type |-> "message_end", id |-> i] /\ e[1] \in Envelopes
        /\ e[2] = [type |-> "tool_execution_start", id |-> i] /\ e[2] \in Envelopes
    BY <1>4 DEF EnvelopesOf, Envelopes
  <2> DEFINE f == e[1]
             h == e[2]
             mid == g[1]
  <2>2. /\ f \in Envelopes /\ f.type = "message_end"
        /\ h \in Envelopes /\ h.type = "tool_execution_start" /\ h.id = i
    BY <2>1
  <2>3. /\ mid \in Items /\ new \in Items
        /\ mid = reduceFrame(items, f) /\ new = reduceFrame(mid, h)
    BY <1>1, <2>1
  <2> HIDE DEF f, h, mid
  <2>4. /\ Drawn(mid, c) <=> Drawn(items, c)
        /\ Drawn(items, c) => Resolved(mid, c) = Resolved(items, c)
    BY <2>2, <2>3, FrameEffect
  <2>5. /\ Drawn(new, c) <=> Drawn(mid, c) \/ i = c
        /\ i = c => Resolved(new, c) = FALSE
        /\ i # c /\ Drawn(mid, c) => Resolved(new, c) = Resolved(mid, c)
    BY <2>2, <2>3, FrameEffect
  <2> QED
    BY <1>4, <2>3, <2>4, <2>5
<1> QED
  BY <1>2, <1>3, <1>4 DEF What

\* A call draws a card without a result.
LEMMA CallDraws ==
    ASSUME NEW items \in Items, NEW i \in Nat \ {0}, WhatOf(i) = "call",
           NEW new, new = reduceEntry(items, i)
    PROVE  Drawn(new, i) /\ Resolved(new, i) = FALSE
<1>1. i \in Nat /\ WhatOf(i) \in What
  BY DEF What
<1> QED
  BY <1>1, EntryEffect

\* What is stored: a result follows its call, and nothing else does.
StoredOK ==
    /\ stored \in Seq([what : What, size : Sizes])
    /\ \A i \in 1 .. Len(stored) - 1 : stored[i].what = "call" => stored[i + 1].what = "result"

\* How far an attached client has been told: the end of a tool is its result.
Told == IF ended THEN Len(stored) + 1 ELSE Len(stored)

\* What the log holds, and what is told.
LEMMA StoredEntries ==
    ASSUME StoredOK
    PROVE  /\ Len(stored) \in Nat /\ DOMAIN stored = 1 .. Len(stored)
           /\ Told \in Nat /\ Len(stored) <= Told /\ \A i \in 1 .. Told : i \in Nat \ {0}
           /\ \A i \in Nat : WhatOf(i) \in What
<1> DEFINE E == [what : What, size : Sizes]
<1>0. stored \in Seq(E)
  BY DEF StoredOK
<1>3. \A e \in E : e.what \in What
  OBVIOUS
<1> HIDE DEF E
<1>1. \A i \in 1 .. Len(stored) : stored[i] \in E
  BY <1>0
<1>2. DOMAIN stored = 1 .. Len(stored) /\ Len(stored) \in Nat
  BY <1>0
<1>4. Told \in Nat /\ Len(stored) <= Told /\ \A i \in 1 .. Told : i \in Nat \ {0}
  BY <1>2 DEF Told
<1>5. "result" \in What
  BY DEF What
<1>6. \A i \in Nat : WhatOf(i) \in What
  BY <1>1, <1>2, <1>3, <1>5 DEF WhatOf
<1> QED
  BY <1>2, <1>4, <1>6

\* The result of a call comes next.
LEMMA ResultNext ==
    ASSUME StoredOK, NEW c \in Nat, WhatOf(c) = "call"
    PROVE  c \in DOMAIN stored /\ stored[c].what = "call" /\ WhatOf(c + 1) = "result"
<1>1. c \in DOMAIN stored /\ stored[c].what = "call"
  BY DEF WhatOf
<1>2. CASE c + 1 \in DOMAIN stored
  <2>1. c \in 1 .. Len(stored) - 1
    BY <1>1, <1>2, StoredEntries
  <2> QED
    BY <1>1, <1>2, <2>1 DEF StoredOK, WhatOf
<1>3. CASE c + 1 \notin DOMAIN stored
  BY <1>3 DEF WhatOf
<1> QED
  BY <1>1, <1>2, <1>3

\* reduce, entry by entry.
LEMMA FoldEntries ==
    ASSUME StoredOK, NEW items \in Items, NEW t \in Seq(1 .. Told)
    PROVE  \E g \in [0 .. Len(t) -> Items] :
              /\ g[0] = items /\ g[Len(t)] = FoldLeft(reduceEntry, items, t)
              /\ \A k \in 1 .. Len(t) : g[k] = reduceEntry(g[k - 1], t[k])
<1> DEFINE n == Len(t)
           step == [x \in Items \X (1 .. n) |-> reduceEntry(x[1], t[x[2]])]
           Is(h) == h = [S \in SUBSET DOMAIN t |->
                           IF S = {} THEN items ELSE reduceEntry(h[S \ {Max(S)}], t[Max(S)])]
           f == CHOOSE h : Is(h)
           Places == 1 .. Told
<1>0. t \in Seq(Places)
  OBVIOUS
<1> HIDE DEF Places
<1>1. n \in Nat /\ DOMAIN t = 1 .. n /\ \A k \in 1 .. n : t[k] \in Places
  BY <1>0
<1>2. FoldLeft(reduceEntry, items, t) = f[DOMAIN t]
  BY DEF FoldLeft, MapThenFoldSet
<1> HIDE DEF n
<1>3. \A v \in Items, k \in 1 .. n : reduceEntry(v, t[k]) \in Items
  <2>1. \A v \in Items, i \in Nat \ {0} : reduceEntry(v, i) \in Items
    BY EntryType
  <2> QED
    BY <1>1, <2>1, StoredEntries DEF Places
<1>4. step \in [Items \X (1 .. n) -> Items]
  BY <1>3
<1>5. \A v \in Items, k \in 1 .. n : step[<<v, k>>] = reduceEntry(v, t[k])
  OBVIOUS
<1> HIDE DEF step
<1>6. PICK h \in [SUBSET (1 .. n) -> Items] : Iterates(h, items, n, step)
  BY <1>1, <1>4, FoldExists
<1>7. \A S \in SUBSET (1 .. n) : S # {} => Max(S) \in 1 .. n /\ S \ {Max(S)} \in SUBSET (1 .. n)
  <2> SUFFICES ASSUME NEW S \in SUBSET (1 .. n), S # {} PROVE Max(S) \in S
    OBVIOUS
  <2>1. S \in SUBSET (0 .. n)
    BY <1>1
  <2> QED
    BY <1>1, <2>1, MaxOf
<1>8. Is(h)
  <2>1. \A S \in SUBSET (1 .. n) :
           h[S] = IF S = {} THEN items ELSE reduceEntry(h[S \ {Max(S)}], t[Max(S)])
    BY <1>5, <1>6, <1>7 DEF Iterates
  <2> QED
    BY <1>1, <2>1
<1>9. Is(f)
  BY <1>8
<1> HIDE DEF f
<1>10. f[{}] = items
  BY <1>1, <1>9
<1>11. Continues(f, Items, items, n, step)
  BY <1>1, <1>5, <1>7, <1>9, <1>10 DEF Continues
<1>12. PICK g \in [0 .. n -> Items] : g[n] = f[1 .. n] /\ Steps(g, items, n, step)
  BY <1>1, <1>4, <1>11, FoldPrefixes
<1>13. \A k \in 1 .. n : g[k] = reduceEntry(g[k - 1], t[k])
  <2> SUFFICES ASSUME NEW k \in 1 .. n PROVE g[k - 1] \in Items
    BY <1>5, <1>12 DEF Steps
  <2>1. k - 1 \in 0 .. n
    BY <1>1
  <2> QED
    BY <2>1
<1> QED
  BY <1>1, <1>2, <1>12, <1>13 DEF n, Steps

\* The place after the d-th from a.
LEMMA NextPlace ==
    ASSUME NEW a \in Nat, NEW n \in Nat, NEW d \in Nat, a + d < n
    PROVE  a + (d + 1) = (a + d) + 1 /\ d + 1 \in 0 .. n - a
OBVIOUS

\* The card last drawn for a call has a result if it came after the call last did.
LEMMA LastCardShown ==
    ASSUME StoredOK, transcript \in Seq(1 .. Told), NEW a \in DOMAIN transcript,
           NEW c \in Nat, c = transcript[a], WhatOf(c) = "call",
           \A j \in DOMAIN transcript : j > a => transcript[j] # c
    PROVE  Resolved(shownItems, c) = (\E j \in DOMAIN transcript : j > a /\ transcript[j] = c + 1)
<1> DEFINE t == transcript
           n == Len(t)
<1>1. PICK g \in [0 .. n -> Items] : /\ g[0] = <<>> /\ g[n] = shownItems
                                      /\ \A k \in 1 .. n : g[k] = reduceEntry(g[k - 1], t[k])
  <2>1. <<>> \in Items
    BY DEF Items
  <2> QED
    BY <2>1, FoldEntries DEF shownItems
<1> DEFINE Places == 1 .. Told
<1>0. t \in Seq(Places)
  OBVIOUS
<1> HIDE DEF Places
<1>2. n \in Nat /\ a \in 1 .. n /\ DOMAIN t = 1 .. n /\ t[a] = c /\ \A k \in 1 .. n : t[k] \in Places
  BY <1>0
<1>3. \A j \in 1 .. n : j > a => t[j] # c
  BY <1>2
<1> HIDE DEF n, t
<1>4. \A i \in Places : i \in Nat \ {0} /\ WhatOf(i) \in What
  BY StoredEntries DEF Places
<1>5. \A k \in 1 .. n : t[k] = c + 1 => WhatOf(t[k]) = "result"
  BY ResultNext
<1>6. ASSUME NEW k \in 1 .. n
      PROVE  /\ g[k - 1] \in Items /\ g[k] = reduceEntry(g[k - 1], t[k])
             /\ t[k] \in Nat \ {0} /\ WhatOf(t[k]) \in What
  <2>1. k - 1 \in 0 .. n /\ t[k] \in Places
    BY <1>2
  <2>2. g[k - 1] \in Items
    BY <1>1, <2>1
  <2>3. g[k] = reduceEntry(g[k - 1], t[k])
    BY <1>1
  <2> QED
    BY <1>4, <2>1, <2>2, <2>3
<1> DEFINE After(k) == \E j \in 1 .. n : j > a /\ j <= k /\ t[j] = c + 1
           Good(k) == Drawn(g[k], c) /\ Resolved(g[k], c) = After(k)
           T == {d \in 0 .. n - a : Good(a + d)}
<1>7. 0 \in T
  <2> DEFINE old == g[a - 1]
             new == g[a]
             x == t[a]
  <2>0. old \in Items /\ new = reduceEntry(old, x) /\ x \in Nat \ {0} /\ WhatOf(x) \in What
    BY <1>2, <1>6
  <2>4. x = c /\ WhatOf(x) = "call"
    BY <1>2
  <2> HIDE DEF old, new, x
  <2>3. Drawn(new, c) /\ Resolved(new, c) = FALSE
    <3>1. Drawn(new, x) /\ Resolved(new, x) = FALSE
      BY <2>0, <2>4, CallDraws
    <3> QED
      BY <2>4, <3>1
  <2>1. Drawn(g[a], c) /\ Resolved(g[a], c) = FALSE
    BY <2>3 DEF new
  <2>2. a + 0 = a /\ 0 \in 0 .. n - a /\ ~ After(a)
    BY <1>2
  <2> QED
    BY <2>1, <2>2
<1>8. ASSUME NEW d \in 0 .. n - a, d \in T, d # n - a PROVE d + 1 \in T
  <2> DEFINE k == a + d
             m == k + 1
  <2>0. a \in Nat /\ n \in Nat /\ d \in Nat /\ a + d < n /\ a >= 1
    BY <1>2, <1>8
  <2>11. k \in Nat /\ m \in 1 .. n /\ m > a /\ m - 1 = k
    <3>1. k \in Nat /\ k < n /\ k >= a
      BY <2>0
    <3> HIDE DEF k
    <3> QED
      BY <2>0, <3>1
  <2>12. a + (d + 1) = m /\ d + 1 \in 0 .. n - a
    BY <2>0, NextPlace
  <2>1. k \in Nat /\ m \in 1 .. n /\ m > a /\ m - 1 = k /\ a + (d + 1) = m /\ d + 1 \in 0 .. n - a
    BY <2>11, <2>12
  <2>2. Good(k)
    BY <1>8
  <2> HIDE DEF k, m
  <2> DEFINE old == g[k]
             new == g[m]
             x == t[m]
  <2>3. old \in Items /\ new = reduceEntry(old, x) /\ x \in Nat \ {0} /\ WhatOf(x) \in What
    BY <2>1, <1>6
  <2>4. t[m] # c
    BY <2>1, <1>3
  <2>5. After(m) = (After(k) \/ t[m] = c + 1) /\ After(k) \in BOOLEAN
    <3>1. \A j \in 1 .. n : j <= m <=> j <= k \/ j = m
      BY <2>1
    <3> QED
      BY <2>1, <3>1
  <2> HIDE DEF After
  <2>7. x = c + 1 => WhatOf(x) = "result"
    BY <2>1, <1>5
  <2>8. Drawn(old, c) /\ Resolved(old, c) = After(k)
    BY <2>2
  <2> HIDE DEF old, new, x
  <2>9. Drawn(new, c) /\ (x = c + 1 => Resolved(new, c) = TRUE)
    BY <2>3, <2>7, <2>8, EntryEffect
  <2>10. x # c + 1 => Resolved(new, c) = Resolved(old, c)
    BY <2>3, <2>4, <2>8, EntryEffect DEF x
  <2>6. Good(m)
    <3>1. CASE x = c + 1
      BY <2>5, <2>9, <3>1 DEF new, x
    <3>2. CASE x # c + 1
      BY <2>5, <2>8, <2>9, <2>10, <3>2 DEF new, x
    <3> QED
      BY <3>1, <3>2
  <2> HIDE DEF Good
  <2> QED
    BY <2>1, <2>6
<1> HIDE DEF T
<1>9. n - a \in Nat /\ 0 .. n - a \subseteq T
  <2>1. n - a \in Nat
    BY <1>2
  <2> QED
    BY <1>7, <1>8, <2>1, UpTo
<1>10. Good(n)
  <2>1. n - a \in 0 .. n - a /\ a + (n - a) = n
    BY <1>2, <1>9
  <2> HIDE DEF Good
  <2> QED
    BY <1>9, <2>1 DEF T
<1>11. After(n) <=> \E j \in DOMAIN t : j > a /\ t[j] = c + 1
  BY <1>2
<1> QED
  BY <1>1, <1>10, <1>11 DEF t

-----------------------------------------------------------------------------
(***************************************************************************)
(* The walk.  Live frames begin after entry `from`, what was told when     *)
(* the client attached.  The entries walked climb from the first by at     *)
(* most one at a time, a leaf turned back only repeats some; the request   *)
(* under way or its page continues them; and a walk that ends uncut has    *)
(* come to `from` or beyond.  A climb leaves no entry out.                 *)
(***************************************************************************)

LiveFrame == [live : {TRUE}, id : Ids]
PageFrame == [live : {FALSE}, ids : Seq(Ids), leaf : 0 .. MaxLog + 1]

WalkTypes ==
    /\ WalkTypeOK /\ turned \in Nat /\ listening \in BOOLEAN /\ pending \in BOOLEAN
    /\ inbound \in Seq(LiveFrame \cup PageFrame) /\ cut \in BOOLEAN /\ nulled \in BOOLEAN
    /\ ended \in BOOLEAN /\ unheard \in BOOLEAN /\ missed \in BOOLEAN

StoreRight ==
    /\ StoredOK /\ Len(stored) <= MaxLog
    /\ turned = 0 => leaf = Len(stored)

\* Live frames continue what was told when the client attached, without a gap.  That
\* is in the log, unless a tool had ended whose result is still not stored.
LiveInOrder(from) ==
    /\ listening /\ ~ unheard => from <= Len(stored)
    /\ ~ listening => walk.at = "idle" /\ streamed = <<>> /\ from = Told
                      /\ \A j \in DOMAIN inbound : ~ inbound[j].live
    /\ from + Len(streamed) <= Told
    /\ \A j \in DOMAIN streamed : streamed[j] = from + j
    /\ \A j \in DOMAIN inbound : inbound[j].live =>
          inbound[j].id > from + Len(streamed) /\ inbound[j].id <= Told
    /\ \A j, k \in DOMAIN inbound : j < k /\ inbound[j].live /\ inbound[k].live =>
          inbound[j].id < inbound[k].id
    /\ \A i \in from + Len(streamed) + 1 .. Told :
          \E j \in DOMAIN inbound : inbound[j].live /\ inbound[j].id = i

\* No entry is left out: each is at most the one after that before it.
Climbs(t) == \A j \in 1 .. Len(t) - 1 : t[j + 1] <= t[j] + 1

\* What a page says that answers the request of the walk.  Only one that reaches
\* the end of the log names another leaf than its last entry.
PageRight(f, from) == f.leaf <= MaxLog =>
    /\ \A k \in DOMAIN f.ids : f.ids[k] = walk.since + k
    /\ walk.since + Len(f.ids) <= Len(stored)
    /\ f.ids = <<>> => missed \/ from <= walk.since
    /\ f.ids # <<>> => /\ f.leaf <= walk.since + Len(f.ids)
                       /\ f.leaf # walk.since + Len(f.ids) =>
                             turned # 0 /\ (missed \/ from <= walk.since + Len(f.ids))

\* The walk has one request under way, or its page.
OneRequest(from) ==
    /\ walk.at = "idle" => ~ pending /\ \A j \in DOMAIN inbound : inbound[j].live
    /\ walk.at = "waiting" =>
          /\ asked = walk.since
          /\ \A j \in DOMAIN inbound : ~ inbound[j].live => ~ pending /\ PageRight(inbound[j], from)
          /\ \A j, k \in DOMAIN inbound : ~ inbound[j].live /\ ~ inbound[k].live => j = k

\* What is walked has no gap; the walk ends when it has reached the live frames.
GotRight(from) ==
    /\ Climbs(got) /\ (got # <<>> => got[1] = 1)
    /\ \A j \in DOMAIN got : got[j] <= Len(stored)
    /\ turned = 0 => \A j \in DOMAIN got : got[j] = j
    /\ walk.at = "idle" => got = <<>> /\ ~ cut /\ ~ nulled
    /\ walk.at # "over" => /\ walk.pages < MaxPages /\ walk.since <= Len(stored)
                           /\ walk.since <= IF got = <<>> THEN 0 ELSE got[Len(got)]
                           /\ turned = 0 => walk.since = Len(got)
    /\ walk.at = "over" /\ ~ cut /\ ~ nulled /\ ~ missed =>
          from <= IF got = <<>> THEN 0 ELSE got[Len(got)]

WalkInv ==
    /\ WalkTypes /\ StoreRight
    /\ \E from \in 0 .. Told : LiveInOrder(from) /\ OneRequest(from) /\ GotRight(from)

-----------------------------------------------------------------------------
(* When the walk is over *)

\* A climb from v or less to v or more meets v.
LEMMA ClimbMeets ==
    ASSUME NEW t \in Seq(Nat), Climbs(t), NEW a \in DOMAIN t, NEW b \in DOMAIN t, a <= b,
           NEW v \in Nat, t[a] <= v, v <= t[b]
    PROVE  \E c \in a .. b : t[c] = v
<1> DEFINE I == {c \in a .. b : v <= t[c]}
<1>1. a \in Nat /\ b \in Nat /\ a >= 1 /\ b <= Len(t) /\ Len(t) \in Nat /\ \A c \in 1 .. Len(t) : t[c] \in Nat
  OBVIOUS
<1>2. I \in SUBSET Nat /\ b \in I
  BY <1>1
<1> HIDE DEF I
<1>3. PICK c \in I : \A d \in I : c <= d
  BY <1>2, LeastIndex
<1>4. c \in a .. b /\ v <= t[c] /\ c \in Nat
  BY <1>1, <1>3 DEF I
<1>5. CASE c = a
  BY <1>4, <1>5, <1>1
<1>6. CASE c # a
  <2>1. c - 1 \in a .. b /\ c - 1 \in 1 .. Len(t) - 1 /\ (c - 1) + 1 = c
    BY <1>1, <1>4, <1>6
  <2>2. c - 1 \notin I
    BY <1>3, <1>4
  <2>3. t[c - 1] < v
    BY <1>1, <2>1, <2>2 DEF I
  <2>4. t[c] <= t[c - 1] + 1
    BY <2>1 DEF Climbs
  <2> QED
    BY <1>1, <1>4, <2>1, <2>3, <2>4
<1> QED
  BY <1>5, <1>6

\* Together, what was walked and what came live climb from the first entry to the
\* last.
Complete(t, n) ==
    /\ t \in Seq(1 .. n) /\ Climbs(t)
    /\ n # 0 => t # <<>> /\ t[1] = 1 /\ t[Len(t)] = n

\* The walk ends where the live frames begin, or beyond.
LEMMA TranscriptComplete ==
    ASSUME WalkInv, walk.at = "over", inbound = <<>>, ~ cut, ~ nulled, ~ missed
    PROVE  Complete(transcript, Told)
<1> DEFINE t == transcript
           N == Told
           g == Len(got)
           s == Len(streamed)
<1>1. PICK from \in 0 .. N : LiveInOrder(from) /\ GotRight(from)
  BY DEF WalkInv
<1>2. /\ N \in Nat /\ got \in Seq(Ids) /\ streamed \in Seq(Ids) /\ g \in Nat /\ s \in Nat /\ from \in Nat
      /\ \A j \in 1 .. g : got[j] \in Nat /\ got[j] >= 1 /\ got[j] <= N
  <2>5. got \in Seq(Ids) /\ streamed \in Seq(Ids)
    BY DEF WalkInv, WalkTypes, WalkTypeOK
  <2>6. N \in Nat /\ Len(stored) \in Nat /\ Len(stored) <= N
    BY StoredEntries DEF WalkInv, StoreRight
  <2>7. from \in Nat
    BY <2>6
  <2>1. /\ got \in Seq(Ids) /\ streamed \in Seq(Ids) /\ N \in Nat /\ Len(stored) \in Nat /\ Len(stored) <= N
        /\ DOMAIN got = 1 .. g /\ from \in Nat
    BY <2>5, <2>6, <2>7
  <2>4. \A j \in 1 .. g : got[j] \in Ids
    BY <2>1
  <2>3. \A j \in 1 .. g : got[j] \in Nat /\ got[j] <= Len(stored)
    BY <1>1, <2>1, <2>4 DEF GotRight, Ids
  <2> HIDE DEF N
  <2>2. \A j \in 1 .. g : got[j] \in Ids /\ got[j] <= N
    BY <2>1, <2>3, <2>4
  <2> QED
    BY <2>1, <2>2 DEF Ids
<1>3. from + s = N
  <2>1. from + s <= N /\ \A i \in from + s + 1 .. N : FALSE
    BY <1>1 DEF LiveInOrder
  <2>2. from + s # N => N \in from + s + 1 .. N
    BY <1>2, <2>1
  <2> QED
    BY <1>2, <2>1, <2>2
<1>4. /\ Len(t) = g + s /\ t \in Seq(Ids)
      /\ \A j \in 1 .. g : t[j] = got[j]
      /\ \A j \in 1 .. s : t[g + j] = streamed[j]
  BY <1>2 DEF transcript
<1>5. \A j \in 1 .. s : streamed[j] = from + j
  BY <1>1, <1>2 DEF LiveInOrder
<1>6. /\ \A j \in 1 .. g - 1 : got[j + 1] <= got[j] + 1
      /\ g # 0 => got[1] = 1
      /\ IF g = 0 THEN from = 0 ELSE from <= got[g]
  BY <1>1, <1>2 DEF GotRight, Climbs
<1>7. \A j \in 1 .. g + s : j > g => j - g \in 1 .. s /\ t[j] = from + (j - g)
  <2> SUFFICES ASSUME NEW j \in 1 .. g + s, j > g PROVE j - g \in 1 .. s /\ t[j] = from + (j - g)
    OBVIOUS
  <2>1. j - g \in 1 .. s /\ g + (j - g) = j
    BY <1>2
  <2> QED
    BY <1>4, <1>5, <2>1
<1> HIDE DEF t, N, g, s
<1>8. ASSUME NEW j \in 1 .. g + s PROVE t[j] \in 1 .. N
  <2>1. CASE j <= g
    <3>1. j \in 1 .. g
      BY <1>2, <2>1
    <3>2. t[j] = got[j] /\ got[j] \in Nat /\ got[j] >= 1 /\ got[j] <= N
      BY <1>2, <1>4, <3>1
    <3> QED
      BY <1>2, <3>2
  <2>2. CASE j > g
    <3>1. j - g \in 1 .. s /\ t[j] = from + (j - g)
      BY <1>7, <2>2
    <3> QED
      BY <1>2, <1>3, <3>1
  <2> QED
    BY <1>2, <2>1, <2>2
<1>9. t \in Seq(1 .. N)
  <2>1. Len(t) \in Nat /\ \A j \in 1 .. Len(t) : t[j] \in 1 .. N
    BY <1>2, <1>4, <1>8
  <2>2. t \in [1 .. Len(t) -> 1 .. N]
    BY <1>4, <2>1
  <2> QED
    BY <2>1, <2>2, SeqDef
<1>12. \A j \in 1 .. g : j \in 1 .. g + s /\ t[j] = got[j]
  BY <1>2, <1>4
<1>10. ASSUME NEW j \in 1 .. (g + s) - 1 PROVE t[j + 1] <= t[j] + 1
  <2>1. j \in 1 .. g + s /\ j + 1 \in 1 .. g + s
    BY <1>2
  <2>2. CASE j + 1 <= g
    <3>1. j \in 1 .. g - 1 /\ j \in 1 .. g /\ j + 1 \in 1 .. g
      BY <1>2, <2>2
    <3>2. got[j + 1] <= got[j] + 1
      BY <1>6, <3>1
    <3> QED
      BY <1>12, <3>1, <3>2
  <2>3. CASE j = g
    BY <1>2, <1>4, <1>6, <1>7, <2>1, <2>3
  <2>4. CASE j > g
    BY <1>2, <1>7, <2>1, <2>4
  <2> QED
    BY <1>2, <2>2, <2>3, <2>4
<1>11. ASSUME N # 0 PROVE t # <<>> /\ t[1] = 1 /\ t[g + s] = N
  <2>1. g + s # 0 /\ 1 \in 1 .. g + s /\ g + s \in 1 .. g + s
    BY <1>2, <1>3, <1>6, <1>11
  <2>2. t[1] = 1
    BY <1>2, <1>4, <1>6, <1>7, <2>1
  <2>3. t[g + s] = N
    <3>1. CASE s = 0
      <4>1. g \in 1 .. g /\ g + s = g
        BY <1>2, <2>1, <3>1
      <4>2. got[g] <= N /\ got[g] \in Nat /\ from = N /\ from <= got[g]
        BY <1>2, <1>3, <1>6, <3>1, <4>1
      <4> QED
        BY <1>2, <1>12, <4>1, <4>2
    <3>2. CASE s # 0
      <4>1. g + s > g /\ (g + s) - g = s
        BY <1>2, <3>2
      <4> QED
        BY <1>3, <1>7, <2>1, <4>1
    <3> QED
      BY <3>1, <3>2
  <2>4. t # <<>>
    BY <1>4, <2>1
  <2> QED
    BY <2>2, <2>3, <2>4
<1> QED
  BY <1>4, <1>9, <1>10, <1>11 DEF Complete, Climbs, t, N

\* So the first of each entry is in its place, and the last of a call and of its
\* result are too.
LEMMA WalkShown == WalkInv => HistoryMeetsLive
<1> SUFFICES ASSUME WalkInv, walk.at = "over", inbound = <<>>, ~ cut, ~ nulled, ~ missed
             PROVE  /\ turned = 0 => \A j \in DOMAIN got : got[j] = j
                    /\ \A i \in DOMAIN stored : i \in ToSet(transcript)
                    /\ \A i, j \in DOMAIN stored : i < j => FirstAt(i) < FirstAt(j)
                    /\ \A i \in DOMAIN stored : stored[i].what = "call" =>
                          shownItems[LastCard(i)].result = (i < Len(stored) \/ ended)
  BY DEF HistoryMeetsLive, WalkInv, WalkTypes
<1> DEFINE t == transcript
           N == Told
           At(i) == {j \in DOMAIN t : t[j] = i}
<1>1. Complete(t, N)
  BY TranscriptComplete
<1>2. /\ StoredOK /\ N \in Nat /\ \A i \in DOMAIN stored : i \in 1 .. N
  BY StoredEntries DEF WalkInv, StoreRight
<1>0. \A i \in DOMAIN stored : i < N <=> i < Len(stored) \/ ended
  <2>1. Len(stored) \in Nat /\ DOMAIN stored = 1 .. Len(stored)
    BY <1>2, StoredEntries
  <2> QED
    BY <2>1 DEF Told
<1>3. turned = 0 => \A j \in DOMAIN got : got[j] = j
  BY DEF WalkInv, GotRight
<1>4. /\ t \in Seq(1 .. N) /\ t \in Seq(Nat) /\ Climbs(t) /\ Len(t) \in Nat /\ DOMAIN t = 1 .. Len(t)
      /\ \A j \in DOMAIN t : t[j] \in 1 .. N
  BY <1>1, <1>2 DEF Complete
<1>5. N # 0 => 1 \in DOMAIN t /\ t[1] = 1 /\ Len(t) \in DOMAIN t /\ t[Len(t)] = N
  BY <1>1, <1>4 DEF Complete
<1> HIDE DEF t, N
<1>10. \A a, b \in DOMAIN t, v \in Nat :
          a <= b /\ t[a] <= v /\ v <= t[b] => \E c \in a .. b : t[c] = v
  BY <1>4, ClimbMeets
<1>6. ASSUME NEW i \in 1 .. N PROVE At(i) # {} /\ At(i) \in SUBSET (0 .. Len(t)) /\ At(i) \in SUBSET Nat
  <2>1. \E c \in 1 .. Len(t) : t[c] = i
    <3>1. i \in Nat /\ 1 <= i /\ i <= N /\ N # 0
      BY <1>2
    <3>2. 1 \in DOMAIN t /\ t[1] = 1 /\ Len(t) \in DOMAIN t /\ t[Len(t)] = N /\ 1 <= Len(t)
      BY <1>4, <1>5, <3>1
    <3> QED
      BY <1>10, <3>1, <3>2
  <2> QED
    BY <1>4, <2>1
<1>7. \A i \in DOMAIN stored : i \in ToSet(t)
  BY <1>2, <1>6 DEF ToSet
<1>8. ASSUME NEW i \in DOMAIN stored, NEW j \in DOMAIN stored, i < j
      PROVE  FirstAt(i) < FirstAt(j)
  <2> DEFINE b == FirstAt(j)
             a == FirstAt(i)
  <2>1. b \in At(j) /\ a \in At(i) /\ \A c \in At(i) : a <= c
    BY <1>2, <1>6, MinOf DEF FirstAt, t
  <2> HIDE DEF a, b
  <2>2. b \in DOMAIN t /\ t[b] = j /\ a \in DOMAIN t /\ t[a] = i
    BY <2>1
  <2>3. PICK c \in 1 .. b : t[c] = i
    <3>1. i \in Nat /\ j \in Nat /\ 1 <= i /\ N # 0
      BY <1>2
    <3>2. 1 \in DOMAIN t /\ t[1] = 1 /\ 1 <= b
      BY <1>4, <1>5, <2>2, <3>1
    <3> QED
      BY <1>8, <1>10, <2>2, <3>1, <3>2
  <2>4. c \in At(i) /\ c # b
    BY <1>4, <2>2, <2>3, <1>8, <1>2
  <2>5. a <= c /\ c < b
    BY <1>4, <2>1, <2>2, <2>3, <2>4
  <2>6. a < b
    BY <1>4, <2>2, <2>5
  <2> QED
    BY <2>6 DEF a, b
<1>9. ASSUME NEW i \in DOMAIN stored, stored[i].what = "call"
      PROVE  shownItems[LastCard(i)].result = (i < N)
  <2> DEFINE a == Max(At(i))
  <2>1. a \in At(i) /\ \A j \in At(i) : a >= j
    BY <1>2, <1>4, <1>6, MaxOf
  <2> HIDE DEF a
  <2>2. a \in DOMAIN t /\ t[a] = i /\ \A j \in DOMAIN t : j > a => t[j] # i
    BY <1>4, <2>1
  <2>6. t \in Seq(1 .. Told) /\ i \in Nat /\ WhatOf(i) = "call"
    BY <1>2, <1>4, <1>9 DEF N, WhatOf
  <2>3. Resolved(shownItems, i) = (\E j \in DOMAIN t : j > a /\ t[j] = i + 1)
    BY <1>2, <1>9, <2>2, <2>6, LastCardShown DEF t
  <2>4. (\E j \in DOMAIN t : j > a /\ t[j] = i + 1) <=> i < N
    <3>1. ASSUME i < N PROVE \E j \in DOMAIN t : j > a /\ t[j] = i + 1
      <4>1. PICK c \in a .. Len(t) : t[c] = i + 1
        <5>1. i + 1 \in Nat /\ N # 0 /\ i <= i + 1 /\ i + 1 <= N
          BY <1>2, <3>1
        <5>2. Len(t) \in DOMAIN t /\ t[Len(t)] = N /\ a <= Len(t)
          BY <1>4, <1>5, <2>2, <5>1
        <5> QED
          BY <1>10, <2>2, <5>1, <5>2
      <4>2. c \in DOMAIN t /\ c # a
        BY <1>2, <1>4, <2>2, <4>1
      <4> QED
        BY <1>4, <2>2, <4>1, <4>2
    <3>2. ASSUME NEW j \in DOMAIN t, t[j] = i + 1 PROVE i < N
      BY <1>2, <1>4, <3>2
    <3> QED
      BY <3>1, <3>2
  <2>5. shownItems[LastCard(i)].result = Resolved(shownItems, i)
    BY DEF LastCard, Resolved, Cards
  <2> DEFINE r == Resolved(shownItems, i)
  <2>7. CASE i < N
    <3>1. r = TRUE
      BY <2>3, <2>4, <2>7
    <3> HIDE DEF r
    <3> QED
      BY <2>5, <2>7, <3>1 DEF r
  <2>8. CASE ~ (i < N)
    <3>1. r = FALSE
      BY <2>3, <2>4, <2>8
    <3> HIDE DEF r
    <3>2. (i < N) = FALSE
      BY <2>8
    <3>3. shownItems[LastCard(i)].result = FALSE
      BY <2>5, <3>1 DEF r
    <3> QED
      BY <3>2, <3>3
  <2> QED
    BY <2>7, <2>8
<1>11. \A i \in DOMAIN stored : stored[i].what = "call" =>
          shownItems[LastCard(i)].result = (i < Len(stored) \/ ended)
  BY <1>0, <1>9
<1> QED
  BY <1>3, <1>7, <1>8, <1>11 DEF t

-----------------------------------------------------------------------------
(* The steps of the walk *)

WalkRight(from) == LiveInOrder(from) /\ OneRequest(from) /\ GotRight(from)

\* What the two kinds of frames are.
LEMMA FrameKinds ==
    ASSUME NEW x \in LiveFrame \cup PageFrame
    PROVE  /\ x.live \in BOOLEAN
           /\ x.live => x.id \in Nat /\ x.id \in Ids
           /\ ~ x.live => /\ x \in PageFrame /\ x.ids \in Seq(Ids) /\ Len(x.ids) \in Nat
                         /\ DOMAIN x.ids = 1 .. Len(x.ids) /\ x.leaf \in 0 .. MaxLog + 1
                         /\ x.leaf \in Nat /\ \A k \in 1 .. Len(x.ids) : x.ids[k] \in Nat
<1>1. MaxLog \in Nat
  BY WalkAssumption
<1>2. CASE x \in LiveFrame
  <2>1. x.live = TRUE /\ x.id \in Ids
    BY <1>2 DEF LiveFrame
  <2>2. x.id \in Nat
    BY <2>1 DEF Ids
  <2> QED
    BY <2>1, <2>2
<1>3. CASE x \in PageFrame
  <2>1. x.live = FALSE /\ x.ids \in Seq(Ids) /\ x.leaf \in 0 .. MaxLog + 1
    BY <1>3 DEF PageFrame
  <2>2. Len(x.ids) \in Nat /\ DOMAIN x.ids = 1 .. Len(x.ids) /\ \A k \in 1 .. Len(x.ids) : x.ids[k] \in Ids
    BY <2>1
  <2>3. \A k \in 1 .. Len(x.ids) : x.ids[k] \in Nat
    BY <2>2 DEF Ids
  <2>4. x.leaf \in Nat
    BY <1>1, <2>1
  <2> QED
    BY <1>3, <2>1, <2>2, <2>3, <2>4
<1> QED
  BY <1>2, <1>3

LEMMA WalkStarts == WalkInit => WalkInv
<1> SUFFICES ASSUME WalkInit PROVE WalkInv
  OBVIOUS
<1>1. MaxLog \in Nat /\ MaxPages \in Nat \ {0}
  BY WalkAssumption
<1>2. WalkTypes
  <2>1. \A S : <<>> \in Seq(S)
    OBVIOUS
  <2>2. stored \in Seq([what : What, size : Sizes]) /\ got \in Seq(Ids) /\ streamed \in Seq(Ids)
        /\ inbound \in Seq(LiveFrame \cup PageFrame)
    BY <2>1 DEF WalkInit
  <2>3. leaf \in 0 .. Len(stored) /\ turned \in Nat /\ asked \in 0 .. MaxLog
    BY <1>1 DEF WalkInit
  <2>4. walk \in [at : {"idle", "waiting", "over"}, since : 0 .. MaxLog, pages : 0 .. MaxPages]
    BY <1>1 DEF WalkInit
  <2>5. listening \in BOOLEAN /\ pending \in BOOLEAN /\ cut \in BOOLEAN /\ nulled \in BOOLEAN
        /\ ended \in BOOLEAN /\ unheard \in BOOLEAN /\ missed \in BOOLEAN
    BY DEF WalkInit
  <2> QED
    BY <2>2, <2>3, <2>4, <2>5 DEF WalkTypes, WalkTypeOK
<1>3. StoreRight
  BY <1>1 DEF WalkInit, StoreRight, StoredOK
<1>4. 0 \in 0 .. Told /\ WalkRight(0)
  BY <1>1 DEF WalkInit, Told, WalkRight, LiveInOrder, OneRequest, GotRight, Climbs
<1> QED
  BY <1>2, <1>3, <1>4 DEF WalkInv, WalkRight

\* The types, number by number.
LEMMA WalkNumbers ==
    ASSUME WalkInv
    PROVE  /\ Len(stored) \in Nat /\ Len(stored) <= MaxLog /\ leaf \in 0 .. Len(stored) /\ MaxLog \in Nat
           /\ got \in Seq(Ids) /\ streamed \in Seq(Ids) /\ Len(got) \in Nat /\ Len(streamed) \in Nat
           /\ inbound \in Seq(LiveFrame \cup PageFrame) /\ Len(inbound) \in Nat
           /\ DOMAIN inbound = 1 .. Len(inbound)
           /\ \A j \in 1 .. Len(inbound) : inbound[j] \in LiveFrame \cup PageFrame
           /\ walk \in [at : {"idle", "waiting", "over"}, since : 0 .. MaxLog, pages : 0 .. MaxPages]
           /\ walk.since \in 0 .. MaxLog /\ walk.pages \in 0 .. MaxPages /\ asked \in 0 .. MaxLog
           /\ \A j \in 1 .. Len(got) : got[j] \in Nat
           /\ MaxPages \in Nat
           /\ Told \in Nat /\ Len(stored) <= Told /\ \A from \in 0 .. Told : from \in Nat
<1>1. MaxLog \in Nat /\ MaxPages \in Nat
  BY WalkAssumption
<1>2. got \in Seq(Ids) /\ Len(got) \in Nat /\ \A j \in 1 .. Len(got) : got[j] \in Ids
  BY DEF WalkInv, WalkTypes, WalkTypeOK
<1>3. \A j \in 1 .. Len(got) : got[j] \in Nat
  BY <1>2 DEF Ids
<1>4. inbound \in Seq(LiveFrame \cup PageFrame)
  BY DEF WalkInv, WalkTypes
<1>5. Told \in Nat /\ Len(stored) <= Told /\ \A from \in 0 .. Told : from \in Nat
  BY StoredEntries DEF WalkInv, StoreRight
<1> QED
  BY <1>1, <1>2, <1>3, <1>4, <1>5 DEF WalkInv, WalkTypes, WalkTypeOK, StoreRight

\* The client is told one more entry.
LEMMA SendStep ==
    ASSUME WalkInv, Announce(Told + 1), Told + 1 \in Ids, Told' = Told + 1,
           Len(stored') \in Nat, Len(stored) <= Len(stored'),
           UNCHANGED <<turned, readerVars, asked, pending, missed>>,
           unheard' \in BOOLEAN, ~ unheard' => ~ unheard \/ Len(stored') = Told'
    PROVE  /\ inbound' \in Seq(LiveFrame \cup PageFrame)
           /\ \E from \in 0 .. Told' : (LiveInOrder(from) /\ OneRequest(from) /\ GotRight(from))'
<1> DEFINE N == Told
           M == Len(stored)
<1>1. PICK from \in 0 .. N : LiveInOrder(from) /\ OneRequest(from) /\ GotRight(from)
  BY DEF WalkInv
<1>2. inbound' = IF listening THEN Append(inbound, [live |-> TRUE, id |-> N + 1]) ELSE inbound
  BY DEF Announce
<1>3. UNCHANGED <<turned, listening, walk, got, streamed, cut, nulled, asked, pending, missed>>
  BY DEF readerVars
<1>4. N \in Nat /\ Told' = N + 1 /\ N + 1 \in Ids /\ M \in Nat /\ M <= N /\ from \in Nat
      /\ Len(stored') \in Nat /\ M <= Len(stored')
  BY WalkNumbers
<1> DEFINE f == [live |-> TRUE, id |-> N + 1]
<1>8. f \in LiveFrame /\ f.live /\ f.id = N + 1
  BY <1>4 DEF LiveFrame
<1> HIDE DEF f
<1>9. inbound' \in Seq(LiveFrame \cup PageFrame)
  BY <1>2, <1>8, AppendProperties, WalkNumbers DEF f
<1>11. CASE listening
  <2> DEFINE L == Len(inbound)
  <2>1. /\ Len(inbound') = L + 1 /\ inbound'[L + 1] = f /\ DOMAIN inbound' = 1 .. L + 1
        /\ \A j \in 1 .. L : inbound'[j] = inbound[j]
        /\ DOMAIN inbound = 1 .. L /\ L \in Nat
    BY <1>2, <1>11, AppendProperties, WalkNumbers DEF f
  <2> HIDE DEF L
  <2>2. \A j \in 1 .. L + 1 : j = L + 1 \/ (j \in 1 .. L /\ inbound'[j] = inbound[j])
    BY <2>1
  <2>3. \A j \in 1 .. L : j \in 1 .. L + 1 /\ j # L + 1
    BY <2>1
  <2>4. from \in 0 .. Told'
    BY <1>4
  <2>5. LiveInOrder(from)'
    <3>1. from + Len(streamed) <= N /\ \A j \in DOMAIN streamed : streamed[j] = from + j
      BY <1>1 DEF LiveInOrder
    <3>2. \A j \in 1 .. L : inbound[j].live => inbound[j].id > from + Len(streamed) /\ inbound[j].id <= N
      BY <1>1, <2>1 DEF LiveInOrder
    <3>3. \A j, k \in 1 .. L : j < k /\ inbound[j].live /\ inbound[k].live => inbound[j].id < inbound[k].id
      BY <1>1, <2>1 DEF LiveInOrder
    <3>4. \A i \in from + Len(streamed) + 1 .. N : \E j \in 1 .. L : inbound[j].live /\ inbound[j].id = i
      BY <1>1, <2>1 DEF LiveInOrder
    <3>0. Len(streamed) \in Nat /\ from \in Nat
      BY WalkNumbers
    <3>9. \A j \in 1 .. L : inbound[j].live => inbound[j].id \in Nat
      BY <2>1, WalkNumbers, FrameKinds
    <3>5. \A j \in 1 .. L + 1 : inbound'[j].live =>
             inbound'[j].id > from + Len(streamed) /\ inbound'[j].id <= N + 1
      BY <1>4, <1>8, <2>1, <2>2, <3>0, <3>1, <3>2, <3>9
    <3>6. ASSUME NEW j \in 1 .. L + 1, NEW k \in 1 .. L + 1, j < k, inbound'[j].live, inbound'[k].live
          PROVE  inbound'[j].id < inbound'[k].id
      <4>1. j \in 1 .. L /\ inbound'[j] = inbound[j]
        BY <2>1, <3>6
      <4>2. CASE k = L + 1
        BY <1>4, <1>8, <2>1, <3>2, <3>6, <3>9, <4>1, <4>2
      <4>3. CASE k # L + 1
        BY <2>2, <3>3, <3>6, <4>1, <4>3
      <4> QED
        BY <4>2, <4>3
    <3>7. ASSUME NEW i \in from + Len(streamed) + 1 .. N + 1
          PROVE  \E j \in 1 .. L + 1 : inbound'[j].live /\ inbound'[j].id = i
      <4>1. CASE i = N + 1
        <5>1. L + 1 \in 1 .. L + 1
          BY <2>1
        <5> QED
          BY <1>8, <2>1, <4>1, <5>1
      <4>2. CASE i # N + 1
        <5>1. i \in from + Len(streamed) + 1 .. N
          BY <1>4, <3>0, <4>2
        <5> QED
          BY <2>1, <2>3, <3>4, <5>1
      <4> QED
        BY <4>1, <4>2
    <3>8. from + Len(streamed) <= N + 1
      BY <1>4, <3>0, <3>1
    <3>10. ~ unheard' => from <= Len(stored')
      <4>1. ~ unheard => from <= M
        BY <1>1, <1>11 DEF LiveInOrder
      <4> QED
        BY <1>4, <4>1
    <3> QED
      BY <1>3, <1>4, <1>11, <2>1, <3>1, <3>5, <3>6, <3>7, <3>8, <3>10 DEF LiveInOrder
  <2>6. OneRequest(from)'
    <3>1. ASSUME NEW j \in 1 .. L + 1, ~ inbound'[j].live PROVE j \in 1 .. L /\ inbound'[j] = inbound[j]
      BY <1>8, <2>1, <2>2, <3>1
    <3>2. ASSUME NEW g \in LiveFrame \cup PageFrame, ~ g.live, PageRight(g, from) PROVE PageRight(g, from)'
      <4>1. walk' = walk /\ turned' = turned /\ missed' = missed
        BY <1>3
      <4>2. walk.since + Len(g.ids) <= M => walk.since + Len(g.ids) <= Len(stored')
        BY <1>4, <3>2, FrameKinds, WalkNumbers
      <4> QED
        BY <3>2, <4>1, <4>2 DEF PageRight
    <3>3. ASSUME walk.at = "waiting", NEW j \in 1 .. L + 1, ~ inbound'[j].live
          PROVE  (~ pending /\ PageRight(inbound[j], from))'
      <4>1. j \in 1 .. L /\ inbound'[j] = inbound[j] /\ inbound[j] \in LiveFrame \cup PageFrame
        BY <2>1, <3>1, <3>3, WalkNumbers
      <4>2. ~ pending /\ PageRight(inbound[j], from)
        BY <1>1, <2>1, <3>3, <4>1 DEF OneRequest
      <4>3. PICK g \in LiveFrame \cup PageFrame : g = inbound[j]
        BY <4>1
      <4>4. ~ g.live /\ PageRight(g, from)
        BY <3>3, <4>1, <4>2, <4>3 DEF PageRight
      <4>5. PageRight(g, from)'
        BY <3>2, <4>4
      <4>6. g = inbound'[j]
        BY <4>1, <4>3
      <4>7. PageRight(inbound[j], from)'
        BY <4>5, <4>6 DEF PageRight
      <4> QED
        BY <1>3, <4>2, <4>7
    <3>4. ASSUME walk.at = "waiting", NEW j \in 1 .. L + 1, NEW k \in 1 .. L + 1,
                 ~ inbound'[j].live, ~ inbound'[k].live
          PROVE  j = k
      BY <1>1, <2>1, <3>1, <3>4 DEF OneRequest
    <3>5. walk.at = "idle" => ~ pending /\ \A j \in 1 .. L + 1 : inbound'[j].live
      BY <1>1, <2>1, <3>1 DEF OneRequest
    <3>6. walk.at = "waiting" => asked = walk.since
      BY <1>1 DEF OneRequest
    <3> QED
      BY <1>3, <2>1, <3>3, <3>4, <3>5, <3>6 DEF OneRequest
  <2>7. GotRight(from)'
    <3>1. \A j \in DOMAIN got : got[j] <= Len(stored')
      <4>2. DOMAIN got = 1 .. Len(got)
        BY WalkNumbers
      <4>3. \A j \in DOMAIN got : got[j] <= M
        BY <1>1 DEF GotRight
      <4>1. \A j \in 1 .. Len(got) : got[j] <= M /\ got[j] \in Nat
        BY <4>2, <4>3, WalkNumbers
      <4> QED
        BY <1>4, <4>1, <4>2
    <3>2. walk.since <= M => walk.since <= Len(stored')
      BY <1>4, WalkNumbers
    <3> QED
      BY <1>1, <1>3, <1>4, <3>1, <3>2 DEF GotRight, Climbs
  <2> QED
    BY <1>9, <2>4, <2>5, <2>6, <2>7
<1>12. CASE ~ listening
  <2>1. walk.at = "idle" /\ streamed = <<>> /\ got = <<>> /\ from = N
    BY <1>1, <1>12 DEF LiveInOrder, GotRight
  <2>6. inbound' = inbound /\ \A j \in DOMAIN inbound : ~ inbound[j].live
    BY <1>1, <1>2, <1>12 DEF LiveInOrder
  <2>7. DOMAIN streamed = {} /\ Len(streamed) = 0
    BY <2>1
  <2>9. PICK m \in Nat : m = N + 1
    BY <1>4
  <2>8. m + 0 <= m /\ m + 0 + 1 .. m = {}
    BY <2>9
  <2>2. LiveInOrder(m)'
    BY <1>3, <1>4, <1>12, <2>1, <2>6, <2>7, <2>8, <2>9 DEF LiveInOrder
  <2>3. OneRequest(m)'
    BY <1>1, <1>2, <1>3, <1>12, <2>1 DEF OneRequest
  <2>4. GotRight(m)'
    <3>1. walk.since <= M => walk.since <= Len(stored')
      BY <1>4, WalkNumbers
    <3> QED
      BY <1>1, <1>3, <1>4, <2>1, <3>1 DEF GotRight, Climbs
  <2>5. m \in 0 .. Told'
    BY <1>4, <2>9
  <2> QED
    BY <1>9, <2>2, <2>3, <2>4, <2>5
<1> QED
  BY <1>11, <1>12

\* An entry is stored: a result has been told already.
LEMMA StoreEntryStep ==
    ASSUME WalkInv, NEW what \in What, NEW size \in Sizes, StoreEntry(what, size)
    PROVE  WalkInv'
<1> DEFINE N == Len(stored)
           e == [what |-> what, size |-> size]
           E == [what : What, size : Sizes]
<1>1. PICK from \in 0 .. Told : LiveInOrder(from) /\ OneRequest(from) /\ GotRight(from)
  BY DEF WalkInv
<1>2. /\ N < MaxLog /\ OpenCall = ended /\ (what = "result") = ended
      /\ stored' = Append(stored, e) /\ leaf' = N + 1 /\ ended' = FALSE /\ unheard' = FALSE
      /\ IF ended THEN UNCHANGED inbound ELSE Announce(N + 1)
      /\ UNCHANGED <<turned, readerVars, asked, pending, missed>>
  BY DEF StoreEntry
<1>3. UNCHANGED <<turned, listening, walk, got, streamed, cut, nulled, asked, pending, missed>>
  BY <1>2 DEF readerVars
<1>4. stored \in Seq(E) /\ e \in E /\ N \in Nat
  BY DEF WalkInv, WalkTypes, WalkTypeOK
<1> HIDE DEF e, E
<1>5. /\ stored' \in Seq(E) /\ Len(stored') = N + 1 /\ stored'[N + 1] = e
      /\ \A i \in 1 .. N : stored'[i] = stored[i]
  BY <1>2, <1>4, AppendProperties
<1>6. /\ Len(stored') \in Nat /\ N + 1 \in 1 .. MaxLog /\ Len(stored') <= MaxLog
  BY <1>2, <1>4, <1>5, WalkNumbers
<1>7. StoreRight'
  <2>1. \A i \in 1 .. N : stored[i].what = "call" => stored'[i + 1].what = "result"
    <3> SUFFICES ASSUME NEW i \in 1 .. N, stored[i].what = "call" PROVE stored'[i + 1].what = "result"
      OBVIOUS
    <3>1. CASE i = N
      <4>1. OpenCall
        BY <1>4, <3>1 DEF OpenCall
      <4>2. what = "result"
        BY <1>2, <4>1
      <4>3. e.what = what
        BY DEF e
      <4> QED
        BY <1>5, <3>1, <4>2, <4>3
    <3>2. CASE i # N
      <4>1. i \in 1 .. N - 1 /\ i + 1 \in 1 .. N
        BY <1>4, <3>2
      <4> QED
        BY <1>5, <4>1 DEF WalkInv, StoreRight, StoredOK
    <3> QED
      BY <3>1, <3>2
  <2>2. \A i \in 1 .. Len(stored') - 1 : stored'[i].what = "call" => stored'[i + 1].what = "result"
    BY <1>4, <1>5, <2>1
  <2> QED
    BY <1>2, <1>5, <1>6, <2>2 DEF StoreRight, StoredOK, E
<1>8. Told' = N + 1
  BY <1>2, <1>5 DEF Told
<1>9. /\ inbound' \in Seq(LiveFrame \cup PageFrame)
      /\ \E m \in 0 .. Told' : (LiveInOrder(m) /\ OneRequest(m) /\ GotRight(m))'
  <2>1. CASE ended
    <3>1. Told' = Told /\ inbound' = inbound
      BY <1>2, <1>8, <2>1 DEF Told
    <3>2. inbound' \in Seq(LiveFrame \cup PageFrame)
      BY <3>1, WalkNumbers
    <3>3. from \in Nat /\ from <= Len(stored') /\ N <= Len(stored')
      BY <1>4, <1>5, <1>8, <3>1, WalkNumbers
    <3>4. LiveInOrder(from)'
      BY <1>1, <1>3, <3>1, <3>3 DEF LiveInOrder
    <3>5. OneRequest(from)'
      <4>1. ASSUME NEW j \in DOMAIN inbound, ~ inbound[j].live, PageRight(inbound[j], from)
            PROVE  PageRight(inbound[j], from)'
        <5>1. PICK g \in LiveFrame \cup PageFrame : g = inbound[j]
          BY WalkNumbers
        <5>2. walk.since + Len(g.ids) <= N => walk.since + Len(g.ids) <= Len(stored')
          BY <1>4, <1>5, <4>1, <5>1, FrameKinds, WalkNumbers
        <5>3. PageRight(g, from)'
          BY <1>3, <4>1, <5>1, <5>2 DEF PageRight
        <5>4. g = inbound'[j]
          BY <3>1, <5>1
        <5> QED
          BY <5>3, <5>4 DEF PageRight
      <4> QED
        BY <1>1, <1>3, <3>1, <4>1 DEF OneRequest
    <3>6. GotRight(from)'
      <4>1. \A j \in DOMAIN got : got[j] <= Len(stored')
        <5>1. \A j \in DOMAIN got : got[j] <= N /\ got[j] \in Nat
          BY <1>1, WalkNumbers DEF GotRight
        <5> QED
          BY <1>4, <1>5, <5>1
      <4>2. walk.since <= N => walk.since <= Len(stored')
        BY <1>4, <1>5, WalkNumbers
      <4> QED
        BY <1>1, <1>3, <4>1, <4>2 DEF GotRight, Climbs
    <3> QED
      BY <3>1, <3>2, <3>4, <3>5, <3>6
  <2>2. CASE ~ ended
    <3>1. Told = N /\ Told' = Told + 1 /\ Announce(Told + 1) /\ Told + 1 \in Ids
      BY <1>2, <1>6, <1>8, <2>2 DEF Told, Ids
    <3>2. Len(stored') \in Nat /\ N <= Len(stored') /\ Len(stored') = Told' /\ unheard' = FALSE
      BY <1>2, <1>4, <1>5, <1>6, <1>8
    <3> QED
      BY <1>2, <3>1, <3>2, SendStep
  <2> QED
    BY <2>1, <2>2
<1>10. WalkTypes'
  <2>1. leaf' \in 0 .. Len(stored')
    BY <1>2, <1>4, <1>5
  <2> QED
    BY <1>2, <1>3, <1>5, <1>9, <2>1 DEF WalkInv, WalkTypes, WalkTypeOK, E
<1> QED
  BY <1>7, <1>9, <1>10 DEF WalkInv

\* The end of a tool is told.
LEMMA ToolEndsStep ==
    ASSUME WalkInv, ToolEnds
    PROVE  WalkInv'
<1>1. /\ ended = FALSE /\ ended' = TRUE /\ Len(stored) < MaxLog /\ Announce(Len(stored) + 1)
      /\ UNCHANGED <<stored, leaf, turned, readerVars, asked, pending, unheard, missed>>
  BY DEF ToolEnds, missVars
<1>2. Told = Len(stored) /\ Told' = Told + 1 /\ Told + 1 \in Ids
  BY <1>1, WalkNumbers DEF Told, Ids
<1>3. Len(stored') \in Nat /\ Len(stored) <= Len(stored') /\ unheard' = unheard /\ unheard' \in BOOLEAN
  BY <1>1, WalkNumbers DEF WalkInv, WalkTypes
<1>4. /\ inbound' \in Seq(LiveFrame \cup PageFrame)
      /\ \E m \in 0 .. Told' : (LiveInOrder(m) /\ OneRequest(m) /\ GotRight(m))'
  BY <1>1, <1>2, <1>3, SendStep
<1>5. WalkTypes' /\ StoreRight'
  BY <1>1, <1>4 DEF WalkInv, WalkTypes, WalkTypeOK, StoreRight, StoredOK, readerVars
<1> QED
  BY <1>4, <1>5 DEF WalkInv

\* The leaf is moved back.
LEMMA NavigateStep ==
    ASSUME WalkInv, NEW i \in 0 .. MaxLog, Navigate(i)
    PROVE  WalkInv'
<1>1. PICK from \in 0 .. Told : LiveInOrder(from) /\ OneRequest(from) /\ GotRight(from)
  BY DEF WalkInv
<1>2. /\ i < leaf /\ leaf' = i /\ turned' = turned + 1
      /\ UNCHANGED <<stored, ended, unheard, missed>>
      /\ UNCHANGED <<listening, walk, got, streamed, cut, nulled, asked, pending, inbound>>
      /\ Told' = Told
  BY DEF Navigate, readerVars, missVars, Told
<1>3. leaf' \in 0 .. Len(stored') /\ turned' \in Nat /\ turned' # 0
  BY <1>2, WalkNumbers DEF WalkInv, WalkTypes
<1>4. WalkTypes' /\ StoreRight'
  BY <1>2, <1>3 DEF WalkInv, WalkTypes, WalkTypeOK, StoreRight, StoredOK
<1>5. LiveInOrder(from)'
  BY <1>1, <1>2 DEF LiveInOrder
<1>6. OneRequest(from)'
  BY <1>1, <1>2, <1>3 DEF OneRequest, PageRight
<1>7. GotRight(from)'
  BY <1>1, <1>2, <1>3 DEF GotRight, Climbs
<1> QED
  BY <1>2, <1>4, <1>5, <1>6, <1>7 DEF WalkInv

\* The client attaches: what is stored later comes to it live.
LEMMA ListenStep ==
    ASSUME WalkInv, Listen
    PROVE  WalkInv'
<1>1. PICK from \in 0 .. Told : LiveInOrder(from) /\ OneRequest(from) /\ GotRight(from)
  BY DEF WalkInv
<1>2. /\ ~ listening /\ listening' = TRUE
      /\ UNCHANGED <<stored, leaf, turned, walk, got, streamed, cut, nulled, asked, pending, inbound>>
      /\ UNCHANGED <<ended, missed>> /\ unheard' = ended /\ Told' = Told
  BY DEF Listen, storeVars, Told
<1>3. WalkTypes' /\ StoreRight'
  BY <1>2 DEF WalkInv, WalkTypes, WalkTypeOK, StoreRight, StoredOK
<1>6. ~ unheard' => from <= Len(stored)
  <2>1. from = Told
    BY <1>1, <1>2 DEF LiveInOrder
  <2> QED
    BY <1>2, <2>1, WalkNumbers DEF Told
<1>4. LiveInOrder(from)'
  BY <1>1, <1>2, <1>6 DEF LiveInOrder
<1>5. OneRequest(from)' /\ GotRight(from)'
  BY <1>1, <1>2 DEF OneRequest, PageRight, GotRight, Climbs
<1> QED
  BY <1>2, <1>3, <1>4, <1>5 DEF WalkInv

\* The walk starts.
LEMMA LoadHistoryStep ==
    ASSUME WalkInv, loadHistory
    PROVE  WalkInv'
<1>1. PICK from \in 0 .. Told : LiveInOrder(from) /\ OneRequest(from) /\ GotRight(from)
  BY DEF WalkInv
<1>2. /\ listening /\ walk.at = "idle" /\ walk' = [walk EXCEPT !.at = "waiting"]
      /\ pending' = TRUE /\ asked' = 0
      /\ UNCHANGED <<stored, leaf, turned, listening, got, streamed, cut, nulled, inbound>>
      /\ UNCHANGED <<ended, unheard, missed>> /\ Told' = Told
  BY DEF loadHistory, Request, storeVars, missVars, Told
<1>3. walk'.at = "waiting" /\ walk'.since = walk.since /\ walk'.pages = walk.pages
  BY <1>2, WalkNumbers
<1>4. walk' \in [at : {"idle", "waiting", "over"}, since : 0 .. MaxLog, pages : 0 .. MaxPages]
  BY <1>2, WalkNumbers
<1>10. 0 \in 0 .. MaxLog
  BY WalkAssumption
<1>5. WalkTypes' /\ StoreRight'
  BY <1>2, <1>4, <1>10 DEF WalkInv, WalkTypes, WalkTypeOK, StoreRight, StoredOK
<1>6. LiveInOrder(from)'
  BY <1>1, <1>2 DEF LiveInOrder
<1>7. walk.since = 0
  <2>1. got = <<>> /\ walk.since <= 0
    BY <1>1, <1>2 DEF GotRight
  <2> QED
    BY <2>1, WalkNumbers
<1>8. OneRequest(from)'
  BY <1>1, <1>2, <1>3, <1>7 DEF OneRequest
<1>9. GotRight(from)'
  BY <1>1, <1>2, <1>3 DEF GotRight, Climbs
<1> QED
  BY <1>2, <1>5, <1>6, <1>8, <1>9 DEF WalkInv

\* No response in time: the walk is over, cut short.
LEMMA TimeOutStep ==
    ASSUME WalkInv, TimeOut
    PROVE  WalkInv'
<1>1. PICK from \in 0 .. Told : LiveInOrder(from) /\ OneRequest(from) /\ GotRight(from)
  BY DEF WalkInv
<1>2. /\ walk.at = "waiting" /\ walk' = [walk EXCEPT !.at = "over"] /\ cut' = TRUE
      /\ UNCHANGED <<stored, leaf, turned, listening, got, streamed, nulled, inbound, asked, pending>>
      /\ UNCHANGED <<ended, unheard, missed>> /\ Told' = Told
  BY DEF TimeOut, Over, storeVars, missVars, Told
<1>3. walk'.at = "over" /\ walk'.since = walk.since /\ walk'.pages = walk.pages
  BY <1>2, WalkNumbers
<1>4. walk' \in [at : {"idle", "waiting", "over"}, since : 0 .. MaxLog, pages : 0 .. MaxPages]
  BY <1>2, WalkNumbers
<1>5. WalkTypes' /\ StoreRight'
  BY <1>2, <1>4 DEF WalkInv, WalkTypes, WalkTypeOK, StoreRight, StoredOK
<1>6. LiveInOrder(from)'
  BY <1>1, <1>2 DEF LiveInOrder
<1>7. OneRequest(from)' /\ GotRight(from)'
  BY <1>1, <1>2, <1>3 DEF OneRequest, GotRight, Climbs
<1> QED
  BY <1>2, <1>5, <1>6, <1>7 DEF WalkInv

\* A response is sent: it follows every frame that is on its way.
LEMMA ResponseStep ==
    ASSUME WalkInv, pending, pending' = FALSE, NEW f \in PageFrame, inbound' = Append(inbound, f),
           missed' \in BOOLEAN, missed => missed',
           \A from \in 0 .. Told : WalkRight(from) /\ walk.at = "waiting" => PageRight(f, from)',
           UNCHANGED <<storeVars, readerVars, asked, unheard>>
    PROVE  WalkInv'
<1>1. PICK from \in 0 .. Told : LiveInOrder(from) /\ OneRequest(from) /\ GotRight(from)
  BY DEF WalkInv
<1>2. /\ UNCHANGED <<stored, leaf, turned, ended, unheard, listening, walk, got, streamed, cut, nulled, asked>>
      /\ Told' = Told
  BY DEF storeVars, readerVars, Told
<1> DEFINE L == Len(inbound)
           D == LiveFrame \cup PageFrame
<1>3. /\ L \in Nat /\ inbound \in Seq(D) /\ f \in D /\ ~ f.live
      /\ DOMAIN inbound = 1 .. L /\ \A j \in 1 .. L : inbound[j] \in D
  BY WalkNumbers DEF PageFrame
<1> HIDE DEF D
<1>4. /\ inbound' \in Seq(D) /\ Len(inbound') = L + 1 /\ inbound'[L + 1] = f
      /\ DOMAIN inbound' = 1 .. L + 1 /\ \A j \in 1 .. L : inbound'[j] = inbound[j]
  BY <1>3, AppendProperties
<1> HIDE DEF L
<1>5. /\ \A j \in 1 .. L + 1 : j = L + 1 \/ (j \in 1 .. L /\ inbound'[j] = inbound[j])
      /\ \A j \in 1 .. L : j \in 1 .. L + 1
  BY <1>3, <1>4
<1>6. ASSUME NEW j \in 1 .. L + 1, inbound'[j].live PROVE j \in 1 .. L /\ inbound'[j] = inbound[j]
  BY <1>3, <1>4, <1>5, <1>6
<1>7. WalkTypes' /\ StoreRight'
  BY <1>2, <1>4 DEF WalkInv, WalkTypes, WalkTypeOK, StoreRight, StoredOK, D
<1>8. walk.at # "idle"
  BY <1>1 DEF OneRequest
<1>9. LiveInOrder(from)'
  <2>1. \A i \in from + Len(streamed) + 1 .. Told :
           \E j \in 1 .. L + 1 : inbound'[j].live /\ inbound'[j].id = i
    BY <1>1, <1>3, <1>4, <1>5 DEF LiveInOrder
  <2>2. \A j \in 1 .. L + 1 : inbound'[j].live =>
           inbound'[j].id > from + Len(streamed) /\ inbound'[j].id <= Told
    BY <1>1, <1>3, <1>6 DEF LiveInOrder
  <2>3. \A j, k \in 1 .. L + 1 : j < k /\ inbound'[j].live /\ inbound'[k].live =>
           inbound'[j].id < inbound'[k].id
    BY <1>1, <1>3, <1>6 DEF LiveInOrder
  <2>4. listening
    BY <1>1, <1>8 DEF LiveInOrder
  <2> QED
    BY <1>1, <1>2, <1>4, <2>1, <2>2, <2>3, <2>4 DEF LiveInOrder
<1>10. OneRequest(from)'
  <2> SUFFICES ASSUME walk.at = "waiting" PROVE OneRequest(from)'
    BY <1>2, <1>8 DEF OneRequest
  <2>1. asked = walk.since /\ \A j \in 1 .. L : inbound[j].live
    BY <1>1, <1>3 DEF OneRequest
  <2>4. PageRight(f, from)'
    BY <1>1 DEF WalkRight
  <2>3. \A j \in 1 .. L + 1 : ~ inbound'[j].live => j = L + 1
    BY <1>5, <2>1
  <2>5. \A j \in 1 .. L + 1 : ~ inbound'[j].live => PageRight(inbound[j], from)'
    BY <1>4, <2>3, <2>4 DEF PageRight
  <2> QED
    BY <1>2, <1>4, <1>8, <2>1, <2>3, <2>5 DEF OneRequest
<1>11. GotRight(from)'
  BY <1>1, <1>2 DEF GotRight, Climbs
<1> QED
  BY <1>2, <1>7, <1>9, <1>10, <1>11 DEF WalkInv

\* No session answers.
LEMMA GetEntriesFailsStep ==
    ASSUME WalkInv, getEntriesFails
    PROVE  WalkInv'
<1> DEFINE f == [live |-> FALSE, ids |-> <<>>, leaf |-> MaxLog + 1]
<1>1. MaxLog \in Nat
  BY WalkAssumption
<1>2. f \in PageFrame
  BY <1>1 DEF PageFrame
<1>3. f.leaf = MaxLog + 1
  OBVIOUS
<1>6. PICK g \in PageFrame : g = f
  BY <1>2
<1>4. \A from \in 0 .. Told : PageRight(g, from)'
  BY <1>1, <1>3, <1>6 DEF PageRight
<1>5. /\ pending /\ pending' = FALSE /\ inbound' = Append(inbound, g)
      /\ UNCHANGED <<storeVars, readerVars, asked, unheard, missed>>
  BY <1>6 DEF getEntriesFails, missVars
<1>7. missed' \in BOOLEAN
  BY <1>5 DEF WalkInv, WalkTypes
<1> HIDE DEF f
<1> QED
  BY <1>4, <1>5, <1>7, ResponseStep

\* A page is what the walk needs.
LEMMA PageMade ==
    ASSUME WalkInv, NEW f, f = pageEntries(asked), UNCHANGED <<walk, stored, turned>>,
           missed' = (missed \/ (unheard /\ asked + Len(f.ids) >= Len(stored)))
    PROVE  /\ f \in PageFrame /\ Len(f.ids) \in Nat
           /\ \A from \in 0 .. Told : WalkRight(from) /\ walk.at = "waiting" => PageRight(f, from)'
<1> DEFINE N == Len(stored)
           first == asked + 1
           I == {k \in first .. N : k = first \/ Used(first, k) <= Budget}
           last == Max(I)
<1>1. N \in Nat /\ N <= MaxLog /\ MaxLog \in Nat /\ leaf \in 0 .. N /\ asked \in 0 .. MaxLog
      /\ asked \in Nat /\ leaf \in Nat
  BY WalkNumbers
<1>2. turned = 0 => leaf = N
  BY DEF WalkInv, StoreRight
<1>3. \A from \in 0 .. Told : WalkRight(from) /\ walk.at = "waiting" =>
         asked = walk.since /\ walk.since <= N /\ from \in Nat /\ (unheard \/ from <= N)
  <2>1. \A from \in 0 .. Told : WalkRight(from) /\ walk.at = "waiting" =>
           asked = walk.since /\ walk.since <= N /\ (unheard \/ from <= N)
    BY DEF WalkRight, OneRequest, GotRight, LiveInOrder
  <2> QED
    BY <2>1, WalkNumbers
<1>4. CASE first > N
  <2>1. f = [live |-> FALSE, ids |-> <<>>, leaf |-> leaf]
    BY <1>4 DEF pageEntries
  <2>2. f.ids = <<>> /\ Len(f.ids) = 0 /\ f.leaf = leaf /\ DOMAIN f.ids = {}
    BY <2>1
  <2>3. f \in PageFrame
    BY <1>1, <2>1 DEF PageFrame
  <2>4. ASSUME NEW from \in 0 .. Told, WalkRight(from), walk.at = "waiting" PROVE PageRight(f, from)'
    <3>1. walk.since = N /\ asked = N
      BY <1>1, <1>3, <1>4, <2>4
    <3>3. unheard => missed'
      <4>1. asked + Len(f.ids) >= N
        BY <1>1, <2>2, <3>1
      <4> QED
        BY <4>1
    <3>4. unheard \/ from <= N
      BY <1>3, <2>4
    <3>2. walk.since + 0 <= N /\ (missed' \/ from <= walk.since)
      BY <1>1, <3>1, <3>3, <3>4
    <3> QED
      BY <2>2, <3>2 DEF PageRight
  <2> QED
    BY <2>3, <2>4
<1>5. CASE ~ (first > N)
  <2>1. first \in I /\ I \in SUBSET (0 .. N)
    BY <1>1, <1>5
  <2>2. last \in I
    BY <1>1, <2>1, MaxOf
  <2> HIDE DEF I
  <2>3. last \in first .. N
    BY <2>2 DEF I
  <2>4. f = [live |-> FALSE, ids |-> [k \in 1 .. last - asked |-> asked + k], leaf |-> pageCursor(last)]
    BY <1>5 DEF pageEntries, I
  <2> HIDE DEF last
  <2>5. /\ last \in Nat /\ last <= N /\ last >= asked + 1
        /\ last - asked \in Nat /\ last - asked # 0 /\ asked + (last - asked) = last
    BY <1>1, <2>3
  <2>6. /\ f.ids = [k \in 1 .. last - asked |-> asked + k] /\ f.leaf = pageCursor(last)
    BY <2>4
  <2>7. \A k \in 1 .. last - asked : asked + k \in Ids
    BY <1>1, <2>5 DEF Ids
  <2>8. f.ids \in Seq(Ids) /\ Len(f.ids) = last - asked /\ f.ids # <<>> /\ DOMAIN f.ids = 1 .. last - asked
        /\ \A k \in DOMAIN f.ids : f.ids[k] = asked + k
    <3>1. f.ids \in [1 .. last - asked -> Ids]
      BY <2>6, <2>7
    <3>2. f.ids \in Seq(Ids)
      BY <2>5, <3>1, SeqDef
    <3>3. Len(f.ids) = last - asked
      BY <2>5, <3>1, <3>2, LenProperties
    <3>4. f.ids # <<>>
      BY <2>5, <3>3
    <3> QED
      BY <2>6, <3>1, <3>2, <3>3, <3>4
  <2>9. f.leaf \in 0 .. MaxLog + 1 /\ f.leaf <= last /\ (f.leaf # last => last = N /\ turned # 0)
    <3>1. CASE last = N
      <4>1. f.leaf = leaf
        BY <2>6, <3>1 DEF pageCursor
      <4> QED
        BY <1>1, <1>2, <3>1, <4>1
    <3>2. CASE last # N
      <4>1. f.leaf = last
        BY <2>6, <3>2 DEF pageCursor
      <4> QED
        BY <1>1, <2>5, <4>1
    <3> QED
      BY <3>1, <3>2
  <2>10. f \in PageFrame
    BY <2>4, <2>6, <2>8, <2>9 DEF PageFrame
  <2>11. ASSUME NEW from \in 0 .. Told, WalkRight(from), walk.at = "waiting" PROVE PageRight(f, from)'
    <3>1. walk.since = asked /\ walk.since + Len(f.ids) = last
      BY <1>3, <2>5, <2>8, <2>11
    <3>2. f.leaf # last => turned # 0 /\ (missed' \/ from <= last)
      BY <1>1, <1>3, <2>8, <2>9, <2>5, <2>11
    <3> QED
      BY <2>5, <2>8, <2>9, <3>1, <3>2 DEF PageRight
  <2> QED
    BY <2>5, <2>8, <2>10, <2>11
<1> QED
  BY <1>4, <1>5

\* The session answers.
LEMMA GetEntriesStep ==
    ASSUME WalkInv, getEntries
    PROVE  WalkInv'
<1>1. PICK f : f = pageEntries(asked)
  OBVIOUS
<1>2. /\ pending /\ pending' = FALSE /\ inbound' = Append(inbound, f)
      /\ missed' = (missed \/ (unheard /\ asked + Len(f.ids) >= Len(stored)))
      /\ UNCHANGED <<storeVars, readerVars, asked, unheard>>
  BY <1>1 DEF getEntries
<1>3. UNCHANGED <<walk, stored, turned>>
  BY <1>2 DEF storeVars, readerVars
<1>4. /\ f \in PageFrame
      /\ \A from \in 0 .. Told : WalkRight(from) /\ walk.at = "waiting" => PageRight(f, from)'
  BY <1>1, <1>2, <1>3, PageMade
<1>5. missed' \in BOOLEAN /\ (missed => missed')
  <2>1. missed \in BOOLEAN
    BY DEF WalkInv, WalkTypes
  <2> QED
    BY <1>2, <2>1
<1> QED
  BY <1>2, <1>4, <1>5, ResponseStep

\* The frames that are left when one has been taken.
FrameTaken ==
    /\ inbound' \in Seq(LiveFrame \cup PageFrame) /\ Len(inbound) - 1 \in Nat
    /\ DOMAIN inbound = 1 .. Len(inbound) /\ 1 \in DOMAIN inbound
    /\ DOMAIN inbound' = 1 .. Len(inbound) - 1
    /\ \A j \in DOMAIN inbound' : j + 1 \in DOMAIN inbound /\ j + 1 # 1 /\ inbound'[j] = inbound[j + 1]
    /\ \A j \in DOMAIN inbound : j # 1 => j - 1 \in DOMAIN inbound' /\ inbound'[j - 1] = inbound[j]
    /\ \A j \in DOMAIN inbound : inbound[j] \in LiveFrame \cup PageFrame

\* A frame is the head of what is on its way.
LEMMA TailTaken ==
    ASSUME WalkInv, inbound # <<>>, inbound' = Tail(inbound)
    PROVE  FrameTaken
<1> DEFINE L == Len(inbound)
           D == LiveFrame \cup PageFrame
<1>1. inbound \in Seq(D) /\ L \in Nat /\ DOMAIN inbound = 1 .. L /\ \A j \in 1 .. L : inbound[j] \in D
  BY WalkNumbers
<1> HIDE DEF D
<1>2. /\ inbound' \in Seq(D) /\ Len(inbound') = L - 1 /\ L - 1 \in Nat
      /\ \A j \in 1 .. L - 1 : inbound'[j] = inbound[j + 1]
  BY <1>1, HeadTailProperties
<1>3. DOMAIN inbound' = 1 .. L - 1
  BY <1>2
<1> HIDE DEF L
<1>4. /\ \A j \in 1 .. L - 1 : j + 1 \in 1 .. L /\ j + 1 # 1
      /\ \A j \in 1 .. L : j # 1 => j - 1 \in 1 .. L - 1 /\ (j - 1) + 1 = j
      /\ 1 \in 1 .. L
  BY <1>1, <1>2
<1>5. \A j \in 1 .. L : j # 1 => j - 1 \in 1 .. L - 1 /\ inbound'[j - 1] = inbound[j]
  BY <1>2, <1>4
<1> QED
  BY <1>1, <1>2, <1>3, <1>4, <1>5 DEF FrameTaken, L, D

\* A page is taken: the live frames are as they were.
LEMMA PageTaken ==
    ASSUME WalkInv, FrameTaken, NEW from \in 0 .. Told, LiveInOrder(from), ~ inbound[1].live,
           listening, UNCHANGED <<stored, ended, unheard, listening, streamed>>
    PROVE  LiveInOrder(from)'
<1>0. Told' = Told
  BY DEF Told
<1>1. \A j \in DOMAIN inbound : inbound[j].live => j # 1
  OBVIOUS
<1>2. \A i \in from + Len(streamed) + 1 .. Told :
         \E j \in DOMAIN inbound' : inbound'[j].live /\ inbound'[j].id = i
  <2> SUFFICES ASSUME NEW i \in from + Len(streamed) + 1 .. Told
               PROVE  \E j \in DOMAIN inbound' : inbound'[j].live /\ inbound'[j].id = i
    OBVIOUS
  <2>1. PICK j \in DOMAIN inbound : inbound[j].live /\ inbound[j].id = i
    BY DEF LiveInOrder
  <2>2. j - 1 \in DOMAIN inbound' /\ inbound'[j - 1] = inbound[j]
    BY <1>1, <2>1 DEF FrameTaken
  <2> QED
    BY <2>1, <2>2
<1>3. \A j, k \in DOMAIN inbound' : j < k /\ inbound'[j].live /\ inbound'[k].live =>
         inbound'[j].id < inbound'[k].id
  <2>1. \A j, k \in DOMAIN inbound' : j < k => j + 1 < k + 1
    BY DEF FrameTaken
  <2> QED
    BY <2>1 DEF LiveInOrder, FrameTaken
<1>4. \A j \in DOMAIN inbound' : inbound'[j].live =>
         inbound'[j].id > from + Len(streamed) /\ inbound'[j].id <= Told
  BY DEF LiveInOrder, FrameTaken
<1> QED
  BY <1>0, <1>2, <1>3, <1>4 DEF LiveInOrder

\* A live frame is taken: it continues what arrived before.
LEMMA LiveTaken ==
    ASSUME WalkInv, FrameTaken, NEW from \in 0 .. Told, LiveInOrder(from), inbound[1].live,
           streamed' = Append(streamed, inbound[1].id), UNCHANGED <<stored, ended, unheard, listening>>
    PROVE  LiveInOrder(from)' /\ streamed' \in Seq(Ids)
<1>0. Told' = Told
  BY DEF Told
<1> DEFINE N == Told
           s == Len(streamed)
           x == inbound[1].id
<1>1. N \in Nat /\ s \in Nat /\ streamed \in Seq(Ids) /\ from \in Nat /\ DOMAIN streamed = 1 .. s
  BY WalkNumbers
<1>2. x \in Ids /\ x \in Nat
  BY FrameKinds DEF FrameTaken
<1>3. x > from + s /\ x <= N /\ listening
  BY DEF LiveInOrder, FrameTaken
<1>4. PICK k \in DOMAIN inbound : inbound[k].live /\ inbound[k].id = from + s + 1
  <2>1. from + s + 1 \in from + s + 1 .. N
    BY <1>1, <1>2, <1>3
  <2> QED
    BY <2>1 DEF LiveInOrder
<1>5. x = from + s + 1
  <2>1. CASE k = 1
    BY <1>4, <2>1
  <2>2. CASE k # 1
    <3>1. 1 < k /\ 1 \in DOMAIN inbound
      BY <2>2 DEF FrameTaken
    <3>2. x < from + s + 1
      BY <1>4, <3>1 DEF LiveInOrder
    <3> QED
      BY <1>1, <1>2, <1>3, <3>2
  <2> QED
    BY <2>1, <2>2
<1>6. /\ streamed' \in Seq(Ids) /\ Len(streamed') = s + 1 /\ streamed'[s + 1] = x
      /\ DOMAIN streamed' = 1 .. s + 1 /\ \A j \in 1 .. s : streamed'[j] = streamed[j]
  BY <1>1, <1>2, AppendProperties
<1> HIDE DEF x, s
<1>7. \A j \in 1 .. s + 1 : streamed'[j] = from + j
  <2>1. \A j \in 1 .. s : streamed[j] = from + j
    BY <1>1 DEF LiveInOrder, s
  <2>2. \A j \in 1 .. s + 1 : j = s + 1 \/ j \in 1 .. s
    BY <1>1
  <2>3. from + s + 1 = from + (s + 1)
    BY <1>1
  <2>4. streamed'[s + 1] = from + (s + 1)
    BY <1>5, <1>6, <2>3
  <2> QED
    BY <1>6, <2>1, <2>2, <2>4
<1>8. ASSUME NEW i \in from + (s + 1) + 1 .. N
      PROVE  \E j \in DOMAIN inbound' : inbound'[j].live /\ inbound'[j].id = i
  <2>1. i \in from + s + 1 .. N /\ i # x
    BY <1>1, <1>5
  <2>2. PICK j \in DOMAIN inbound : inbound[j].live /\ inbound[j].id = i
    BY <2>1 DEF LiveInOrder, s
  <2>3. j # 1
    BY <2>1, <2>2 DEF x
  <2> QED
    BY <2>2, <2>3 DEF FrameTaken
<1>9. ASSUME NEW j \in DOMAIN inbound', inbound'[j].live
      PROVE  inbound'[j].id > from + (s + 1) /\ inbound'[j].id <= N
  <2>1. /\ j + 1 \in DOMAIN inbound /\ inbound'[j] = inbound[j + 1] /\ 1 < j + 1 /\ 1 \in DOMAIN inbound
        /\ inbound[j + 1] \in LiveFrame \cup PageFrame
    BY DEF FrameTaken
  <2>2. x < inbound[j + 1].id /\ inbound[j + 1].id <= N /\ inbound[j + 1].id \in Nat
    BY <1>9, <2>1, FrameKinds DEF LiveInOrder, x
  <2> QED
    BY <1>1, <1>5, <2>1, <2>2
<1>10. \A j, k2 \in DOMAIN inbound' : j < k2 /\ inbound'[j].live /\ inbound'[k2].live =>
         inbound'[j].id < inbound'[k2].id
  <2>1. \A j, k2 \in DOMAIN inbound' : j < k2 => j + 1 < k2 + 1
    BY DEF FrameTaken
  <2> QED
    BY <2>1 DEF LiveInOrder, FrameTaken
<1>11. from + (s + 1) <= N
  BY <1>1, <1>2, <1>3, <1>5
<1> QED
  BY <1>0, <1>3, <1>6, <1>7, <1>8, <1>9, <1>10, <1>11 DEF LiveInOrder

\* Where the walk has come to.
Reached(t) == IF t = <<>> THEN 0 ELSE t[Len(t)]

\* A page that is put to the walk continues it.
LEMMA PageAdded ==
    ASSUME WalkInv, NEW from \in 0 .. Told, GotRight(from), walk.at = "waiting",
           NEW f \in PageFrame, PageRight(f, from), f.leaf <= MaxLog, f.ids # <<>>,
           NEW new, new = got \o f.ids
    PROVE  /\ new \in Seq(Ids) /\ new # <<>> /\ Climbs(new) /\ new[1] = 1
           /\ \A j \in DOMAIN new : new[j] <= Len(stored)
           /\ new[Len(new)] = walk.since + Len(f.ids)
           /\ turned = 0 => /\ \A j \in DOMAIN new : new[j] = j
                            /\ Len(new) = walk.since + Len(f.ids)
<1> DEFINE N == Len(stored)
           g == Len(got)
           p == Len(f.ids)
           since == walk.since
<1>1. /\ N \in Nat /\ g \in Nat /\ got \in Seq(Ids) /\ since \in Nat
      /\ DOMAIN got = 1 .. g /\ \A j \in 1 .. g : got[j] \in Nat
  BY WalkNumbers
<1>2. f.ids \in Seq(Ids) /\ p \in Nat /\ p # 0 /\ DOMAIN f.ids = 1 .. p
  <2>1. f.live = FALSE
    BY DEF PageFrame
  <2>2. f.ids \in Seq(Ids) /\ p \in Nat /\ DOMAIN f.ids = 1 .. p
    BY <2>1, FrameKinds
  <2> QED
    BY <2>2, EmptySeq
<1>3. /\ \A j \in 1 .. g - 1 : got[j + 1] <= got[j] + 1
      /\ g # 0 => got[1] = 1 /\ since <= got[g]
      /\ g = 0 => since <= 0
      /\ \A j \in 1 .. g : got[j] <= N
      /\ turned = 0 => since = g /\ \A j \in 1 .. g : got[j] = j
  <2>1. g # 0 <=> got # <<>>
    BY <1>1, EmptySeq
  <2> QED
    BY <1>1, <2>1 DEF GotRight, Climbs
<1>4. /\ \A k \in 1 .. p : f.ids[k] = since + k
      /\ since + p <= N
  BY <1>2 DEF PageRight
<1>5. /\ new \in Seq(Ids) /\ Len(new) = g + p /\ DOMAIN new = 1 .. g + p
      /\ \A j \in 1 .. g : new[j] = got[j]
      /\ \A j \in 1 .. p : new[g + j] = f.ids[j]
  BY <1>1, <1>2, ConcatProperties
<1> HIDE DEF N, g, p, since
<1>6. \A j \in 1 .. g + p : j \in 1 .. g \/ (j - g \in 1 .. p /\ new[j] = since + (j - g))
  <2> SUFFICES ASSUME NEW j \in 1 .. g + p, j \notin 1 .. g
               PROVE  j - g \in 1 .. p /\ new[j] = since + (j - g)
    OBVIOUS
  <2>1. j - g \in 1 .. p /\ g + (j - g) = j
    BY <1>1, <1>2
  <2> QED
    BY <1>4, <1>5, <2>1
<1>7. g + p \in 1 .. g + p /\ g + p \notin 1 .. g /\ (g + p) - g = p /\ 1 \in 1 .. g + p /\ g + p # 0
  BY <1>1, <1>2
<1>8. new[g + p] = since + p
  BY <1>6, <1>7
<1>9. new # <<>>
  BY <1>5, <1>7, EmptySeq
<1>10. ASSUME NEW j \in 1 .. g + p PROVE new[j] <= N
  <2>1. CASE j \in 1 .. g
    BY <1>3, <1>5, <2>1
  <2>2. CASE j - g \in 1 .. p /\ new[j] = since + (j - g)
    <3>1. since + (j - g) <= since + p
      BY <1>1, <1>2, <2>2
    <3> QED
      BY <1>1, <1>2, <1>4, <2>2, <3>1
  <2> QED
    BY <1>6, <2>1, <2>2
<1>11. new[1] = 1
  <2>1. CASE g = 0
    <3>1. 1 \notin 1 .. g /\ 1 - g = 1 /\ since = 0
      BY <1>1, <1>3, <2>1
    <3>2. new[1] = since + (1 - g)
      BY <1>6, <1>7, <3>1
    <3> QED
      BY <3>1, <3>2
  <2>2. CASE g # 0
    <3>1. 1 \in 1 .. g
      BY <1>1, <2>2
    <3> QED
      BY <1>3, <1>5, <2>2, <3>1
  <2> QED
    BY <2>1, <2>2
<1>12. ASSUME NEW j \in 1 .. (g + p) - 1 PROVE new[j + 1] <= new[j] + 1
  <2>1. j \in 1 .. g + p /\ j + 1 \in 1 .. g + p /\ j \in Nat
    BY <1>1, <1>2
  <2>2. CASE j + 1 \in 1 .. g
    <3>1. j \in 1 .. g /\ j \in 1 .. g - 1
      BY <1>1, <2>1, <2>2
    <3> QED
      BY <1>3, <1>5, <2>2, <3>1
  <2>3. CASE j + 1 \notin 1 .. g
    <3>1. new[j + 1] = since + ((j + 1) - g)
      BY <1>6, <2>1, <2>3
    <3>2. CASE j \notin 1 .. g
      <4>1. new[j] = since + (j - g)
        BY <1>6, <2>1, <3>2
      <4> QED
        BY <1>1, <2>1, <3>1, <4>1
    <3>3. CASE j \in 1 .. g
      <4>1. j = g /\ g # 0 /\ (j + 1) - g = 1
        BY <1>1, <2>3, <3>3
      <4>2. new[j] = got[g] /\ since <= got[g] /\ got[g] \in Nat
        BY <1>1, <1>3, <1>5, <3>3, <4>1
      <4> QED
        BY <1>1, <3>1, <4>1, <4>2
    <3> QED
      BY <3>2, <3>3
  <2> QED
    BY <2>2, <2>3
<1>13. ASSUME turned = 0 PROVE (\A j \in 1 .. g + p : new[j] = j) /\ g + p = since + p
  <2>1. since = g
    BY <1>3, <1>13
  <2>2. ASSUME NEW j \in 1 .. g + p PROVE new[j] = j
    <3>1. CASE j \in 1 .. g
      BY <1>3, <1>5, <1>13, <3>1
    <3>2. CASE j \notin 1 .. g
      <4>1. new[j] = g + (j - g)
        BY <1>6, <2>1, <3>2
      <4> QED
        BY <1>1, <4>1
    <3> QED
      BY <3>1, <3>2
  <2> QED
    BY <2>1, <2>2
<1> QED
  BY <1>5, <1>8, <1>9, <1>10, <1>11, <1>12, <1>13 DEF Climbs, N, g, p, since

\* A page that is waited for.
LEMMA OnPageStep ==
    ASSUME WalkInv, FrameTaken, NEW from \in 0 .. Told, WalkRight(from),
           NEW f \in PageFrame, f = inbound[1], walk.at = "waiting", OnPage(f),
           UNCHANGED <<stored, leaf, turned, ended, unheard, missed, listening, streamed>>
    PROVE  WalkTypes' /\ OneRequest(from)' /\ GotRight(from)'
<1>1. LiveInOrder(from) /\ OneRequest(from) /\ GotRight(from)
  BY DEF WalkRight
<1>2. ~ f.live /\ f.leaf \in Nat /\ f.leaf \in 0 .. MaxLog + 1 /\ Len(f.ids) \in Nat
  <2>1. f.live = FALSE
    BY DEF PageFrame
  <2> QED
    BY <2>1, FrameKinds
<1>3. /\ PageRight(f, from) /\ ~ pending
      /\ \A j \in DOMAIN inbound : ~ inbound[j].live => j = 1
  BY <1>1, <1>2 DEF OneRequest, FrameTaken
<1>4. \A j \in DOMAIN inbound' : inbound'[j].live
  BY <1>3 DEF FrameTaken
<1>5. inbound' \in Seq(LiveFrame \cup PageFrame)
  BY DEF FrameTaken
<1>6. WalkTypeOK /\ turned \in Nat /\ listening \in BOOLEAN /\ pending \in BOOLEAN
      /\ cut \in BOOLEAN /\ nulled \in BOOLEAN
      /\ ended \in BOOLEAN /\ unheard \in BOOLEAN /\ missed \in BOOLEAN
  BY DEF WalkInv, WalkTypes
<1>7. Len(stored) \in Nat /\ walk.since \in Nat /\ walk.pages \in Nat /\ MaxLog \in Nat /\ MaxPages \in Nat
      /\ from \in Nat /\ walk.since <= MaxLog /\ walk.pages < MaxPages /\ Len(stored) <= MaxLog
  BY <1>1, WalkNumbers DEF GotRight
<1>8. ASSUME Over
      PROVE  /\ walk'.at = "over" /\ UNCHANGED <<asked, pending>>
             /\ walk' \in [at : {"idle", "waiting", "over"}, since : 0 .. MaxLog, pages : 0 .. MaxPages]
  BY <1>8, WalkNumbers DEF Over
<1>9. CASE f.leaf > MaxLog
  <2>1. Over /\ cut' = TRUE /\ UNCHANGED <<got, nulled>>
    BY <1>9 DEF OnPage
  <2>2. WalkTypes'
    BY <1>5, <1>6, <1>8, <2>1 DEF WalkTypes, WalkTypeOK
  <2>3. OneRequest(from)' /\ GotRight(from)'
    BY <1>1, <1>8, <2>1 DEF OneRequest, GotRight, Climbs
  <2> QED
    BY <2>2, <2>3
<1>10. CASE ~ (f.leaf > MaxLog) /\ (f.ids = <<>> \/ f.leaf = 0)
  <2>1. Over /\ nulled' = (nulled \/ f.ids # <<>>) /\ UNCHANGED <<got, cut>>
    BY <1>10 DEF OnPage
  <2>2. WalkTypes'
    BY <1>5, <1>6, <1>8, <2>1 DEF WalkTypes, WalkTypeOK
  <2>3. ASSUME ~ nulled', ~ missed PROVE from <= walk.since
    <3>1. f.ids = <<>>
      BY <2>1, <2>3
    <3>2. f.leaf <= MaxLog
      BY <1>2, <1>7, <1>10
    <3> QED
      BY <1>3, <2>3, <3>1, <3>2 DEF PageRight
  <2>4. ~ nulled' /\ ~ missed => from <= IF got = <<>> THEN 0 ELSE got[Len(got)]
    <3>1. walk.since <= IF got = <<>> THEN 0 ELSE got[Len(got)]
      BY <1>1 DEF GotRight
    <3>2. got # <<>> => got[Len(got)] \in Nat
      <4>1. got # <<>> => Len(got) \in 1 .. Len(got)
        BY WalkNumbers, EmptySeq
      <4> QED
        BY <4>1, WalkNumbers
    <3> QED
      BY <1>7, <2>3, <3>1, <3>2
  <2>5. OneRequest(from)' /\ GotRight(from)'
    BY <1>1, <1>8, <2>1, <2>4 DEF OneRequest, GotRight, Climbs
  <2> QED
    BY <2>2, <2>5
<1>11. CASE f.leaf <= MaxLog /\ f.ids # <<>> /\ f.leaf # 0
  <2> DEFINE m == walk.since + Len(f.ids)
  <2>1. /\ got' = got \o f.ids /\ UNCHANGED nulled
        /\ IF f.leaf = walk.since \/ walk.pages + 1 = MaxPages
           THEN Over /\ cut' = (cut \/ f.leaf # walk.since)
           ELSE /\ walk' = [walk EXCEPT !.since = f.leaf, !.pages = @ + 1]
                /\ Request(f.leaf) /\ UNCHANGED cut
    BY <1>2, <1>7, <1>11 DEF OnPage
  <2>2. /\ got' \in Seq(Ids) /\ got' # <<>> /\ Climbs(got') /\ got'[1] = 1
        /\ \A j \in DOMAIN got' : got'[j] <= Len(stored)
        /\ got'[Len(got')] = m
        /\ turned = 0 => /\ \A j \in DOMAIN got' : got'[j] = j
                         /\ Len(got') = m
    BY <1>1, <1>3, <1>11, <2>1, PageAdded
  <2>3. /\ m <= Len(stored) /\ f.leaf <= m
        /\ f.leaf # m => turned # 0 /\ (missed \/ from <= m)
    BY <1>3, <1>11 DEF PageRight
  <2>4. m \in Nat /\ (Len(f.ids) # 0 => m # walk.since)
    BY <1>2, <1>7
  <2>5. Len(f.ids) # 0
    BY <1>2, <1>11, FrameKinds, EmptySeq
  <2> HIDE DEF m
  <2>6. CASE f.leaf = walk.since \/ walk.pages + 1 = MaxPages
    <3>1. Over /\ cut' = (cut \/ f.leaf # walk.since)
      BY <2>1, <2>6
    <3>2. WalkTypes'
      BY <1>5, <1>6, <1>8, <2>1, <2>2, <3>1 DEF WalkTypes, WalkTypeOK
    <3>3. ~ cut' /\ ~ missed => from <= m
      BY <2>3, <2>4, <2>5, <3>1
    <3>4. GotRight(from)'
      BY <1>8, <2>2, <3>1, <3>3 DEF GotRight, Climbs
    <3>5. OneRequest(from)'
      BY <1>8, <3>1 DEF OneRequest
    <3> QED
      BY <3>2, <3>4, <3>5
  <2>7. CASE ~ (f.leaf = walk.since \/ walk.pages + 1 = MaxPages)
    <3>1. /\ walk' = [walk EXCEPT !.since = f.leaf, !.pages = @ + 1]
          /\ pending' = TRUE /\ asked' = f.leaf /\ cut' = cut
      BY <2>1, <2>7 DEF Request
    <3>2. walk'.at = "waiting" /\ walk'.since = f.leaf /\ walk'.pages = walk.pages + 1
      BY <3>1, WalkNumbers
    <3>3. f.leaf \in 0 .. MaxLog /\ walk.pages + 1 \in 0 .. MaxPages /\ walk.pages + 1 < MaxPages
      BY <1>2, <1>7, <1>11, <2>7
    <3>4. walk' \in [at : {"idle", "waiting", "over"}, since : 0 .. MaxLog, pages : 0 .. MaxPages]
      BY <3>1, <3>3, WalkNumbers
    <3>5. WalkTypes'
      BY <1>5, <1>6, <2>1, <2>2, <3>1, <3>3, <3>4 DEF WalkTypes, WalkTypeOK
    <3>6. f.leaf <= Len(stored)
      BY <1>2, <1>7, <2>3, <2>4
    <3>7. GotRight(from)'
      BY <2>2, <2>3, <3>2, <3>3, <3>6 DEF GotRight, Climbs
    <3>8. OneRequest(from)'
      BY <1>4, <3>1, <3>2 DEF OneRequest
    <3> QED
      BY <3>5, <3>7, <3>8
  <2> QED
    BY <2>6, <2>7
<1> QED
  BY <1>2, <1>7, <1>9, <1>10, <1>11

\* The client takes a frame.
LEMMA OnFrameStep ==
    ASSUME WalkInv, OnFrame
    PROVE  WalkInv'
<1>1. PICK from \in 0 .. Told : LiveInOrder(from) /\ OneRequest(from) /\ GotRight(from)
  BY DEF WalkInv
<1>2. /\ inbound # <<>> /\ inbound' = Tail(inbound)
      /\ UNCHANGED <<stored, leaf, turned, ended, unheard, missed, listening>> /\ Told' = Told
  BY DEF OnFrame, storeVars, missVars, Told
<1>3. FrameTaken
  BY <1>2, TailTaken
<1> DEFINE f == inbound[1]
<1>4. /\ \/ /\ f.live /\ streamed' = Append(streamed, f.id)
            /\ UNCHANGED <<walk, got, cut, nulled, asked, pending>>
         \/ /\ ~ f.live /\ UNCHANGED streamed
            /\ IF walk.at = "waiting" THEN OnPage(f)
               ELSE UNCHANGED <<walk, got, cut, nulled, asked, pending>>
  <2>1. Head(inbound) = inbound[1]
    BY <1>2, WalkNumbers
  <2> QED
    BY <2>1 DEF OnFrame
<1>5. f \in LiveFrame \cup PageFrame
  BY <1>3 DEF FrameTaken
<1>6. StoreRight'
  BY <1>2 DEF WalkInv, StoreRight, StoredOK
<1> HIDE DEF f
<1>7. from \in 0 .. Told'
  BY <1>2
<1>8. CASE f.live
  <2>1. streamed' = Append(streamed, f.id) /\ UNCHANGED <<walk, got, cut, nulled, asked, pending>>
    BY <1>4, <1>8
  <2>2. LiveInOrder(from)' /\ streamed' \in Seq(Ids)
    BY <1>1, <1>2, <1>3, <1>8, <2>1, LiveTaken DEF f
  <2>3. WalkTypes'
    BY <1>2, <1>3, <2>1, <2>2 DEF WalkInv, WalkTypes, WalkTypeOK, FrameTaken
  <2>4. OneRequest(from)'
    <3>1. walk.at = "idle" => \A j \in DOMAIN inbound' : inbound'[j].live
      BY <1>1, <1>3 DEF OneRequest, FrameTaken
    <3>2. ASSUME walk.at = "waiting", NEW j \in DOMAIN inbound', ~ inbound'[j].live
          PROVE  (~ pending /\ PageRight(inbound[j], from))'
      <4>1. j + 1 \in DOMAIN inbound /\ inbound'[j] = inbound[j + 1]
        BY <1>3 DEF FrameTaken
      <4>2. ~ pending /\ PageRight(inbound[j + 1], from)
        BY <1>1, <3>2, <4>1 DEF OneRequest
      <4> QED
        BY <1>2, <2>1, <4>1, <4>2 DEF PageRight
    <3>3. ASSUME walk.at = "waiting", NEW j \in DOMAIN inbound', NEW k \in DOMAIN inbound',
                 ~ inbound'[j].live, ~ inbound'[k].live
          PROVE  j = k
      <4>1. j + 1 = k + 1
        BY <1>1, <1>3, <3>3 DEF OneRequest, FrameTaken
      <4> QED
        BY <1>3, <4>1 DEF FrameTaken
    <3> QED
      BY <1>1, <2>1, <3>1, <3>2, <3>3 DEF OneRequest
  <2>5. GotRight(from)'
    BY <1>1, <1>2, <2>1 DEF GotRight, Climbs
  <2> QED
    BY <1>6, <1>7, <2>2, <2>3, <2>4, <2>5 DEF WalkInv
<1>9. CASE ~ f.live
  <2>1. f \in PageFrame /\ UNCHANGED streamed
    BY <1>4, <1>5, <1>9, FrameKinds
  <2>2. walk.at # "idle"
    BY <1>1, <1>3, <1>9 DEF OneRequest, FrameTaken, f
  <2>3. listening
    BY <1>1, <2>2 DEF LiveInOrder
  <2>4. LiveInOrder(from)'
    BY <1>1, <1>2, <1>3, <1>9, <2>1, <2>3, PageTaken DEF f
  <2>5. CASE walk.at = "waiting"
    <3>1. OnPage(f)
      BY <1>4, <1>9, <2>5
    <3>2. WalkTypes' /\ OneRequest(from)' /\ GotRight(from)'
      <4>1. WalkRight(from) /\ f = inbound[1]
        BY <1>1 DEF WalkRight, f
      <4> QED
        BY <1>2, <1>3, <2>1, <2>5, <3>1, <4>1, OnPageStep
    <3> QED
      BY <1>6, <1>7, <2>4, <3>2 DEF WalkInv
  <2>6. CASE walk.at # "waiting"
    <3>1. UNCHANGED <<walk, got, cut, nulled, asked, pending>>
      BY <1>4, <1>9, <2>6
    <3>2. WalkTypes'
      BY <1>2, <1>3, <2>1, <3>1 DEF WalkInv, WalkTypes, WalkTypeOK, FrameTaken
    <3>3. OneRequest(from)'
      BY <2>2, <2>6, <3>1 DEF OneRequest
    <3>4. GotRight(from)'
      BY <1>1, <1>2, <3>1 DEF GotRight, Climbs
    <3> QED
      BY <1>6, <1>7, <2>4, <3>2, <3>3, <3>4 DEF WalkInv
  <2> QED
    BY <2>5, <2>6
<1> QED
  BY <1>8, <1>9

\* Every step keeps the invariant.
LEMMA WalkStep == WalkInv /\ [WalkNext]_walkVars => WalkInv'
<1> SUFFICES ASSUME WalkInv, [WalkNext]_walkVars PROVE WalkInv'
  OBVIOUS
<1>1. ASSUME NEW what \in What, NEW size \in Sizes, StoreEntry(what, size) PROVE WalkInv'
  BY <1>1, StoreEntryStep
<1>2. ASSUME NEW i \in 0 .. MaxLog, Navigate(i) PROVE WalkInv'
  BY <1>2, NavigateStep
<1>3. CASE getEntries
  BY <1>3, GetEntriesStep
<1>4. CASE getEntriesFails
  BY <1>4, GetEntriesFailsStep
<1>5. CASE Listen
  BY <1>5, ListenStep
<1>6. CASE loadHistory
  BY <1>6, LoadHistoryStep
<1>7. CASE OnFrame
  BY <1>7, OnFrameStep
<1>8. CASE TimeOut
  BY <1>8, TimeOutStep
<1>10. CASE ToolEnds
  BY <1>10, ToolEndsStep
<1>9. CASE UNCHANGED walkVars
  <2>1. /\ UNCHANGED <<stored, leaf, turned, listening, asked, pending, inbound, walk, got, streamed, cut, nulled>>
        /\ UNCHANGED <<ended, unheard, missed>> /\ Told' = Told
    BY <1>9 DEF walkVars, storeVars, readerVars, missVars, Told
  <2>2. PICK from \in 0 .. Told : LiveInOrder(from) /\ OneRequest(from) /\ GotRight(from)
    BY DEF WalkInv
  <2>3. WalkTypes' /\ StoreRight'
    BY <2>1 DEF WalkInv, WalkTypes, WalkTypeOK, StoreRight, StoredOK
  <2>4. LiveInOrder(from)' /\ OneRequest(from)' /\ GotRight(from)'
    BY <2>1, <2>2 DEF LiveInOrder, OneRequest, PageRight, GotRight, Climbs
  <2> QED
    BY <2>1, <2>3, <2>4 DEF WalkInv
<1> QED
  BY <1>1, <1>2, <1>3, <1>4, <1>5, <1>6, <1>7, <1>8, <1>9, <1>10 DEF WalkNext

(***************************************************************************)
(* A walk that was not cut short and the live frames together show the     *)
(* whole transcript in order, each call's last card with the result that   *)
(* is stored, whatever was appended or turned back between two pages: for  *)
(* every session, budget and limit of pages.                               *)
(***************************************************************************)
THEOREM HistoryRight == WalkSpec => []HistoryMeetsLive
<1>1. WalkSpec => []WalkInv
  BY WalkStarts, WalkStep, PTL DEF WalkSpec
<1> QED
  BY <1>1, WalkShown, PTL

-----------------------------------------------------------------------------
(***************************************************************************)
(* The live view of a durable conversation.  LiveInv says, of what has     *)
(* been emitted of the entries the mirror holds, what LiveRight does, and  *)
(* why the entries to come leave it so: a call whose start or end would be *)
(* emitted again, the sets of the run it was of being cleared, has had its *)
(* round and its result; a turn does not end early, for the calls under    *)
(* way are all of the last answer, and the translator awaits them.         *)
(***************************************************************************)

Translators ==
    [busy : BOOLEAN, inTurn : BOOLEAN, stream : BOOLEAN, blocks : 0 .. MaxBlocks,
     ended : 0 .. MaxBlocks, pending : SUBSET Calls, toolsStarted : SUBSET Calls,
     toolsEnded : SUBSET Calls]
Emitted ==
    [shown : Seq(Nat), openBlocks : Int, began : [Calls -> Nat], finished : [Calls -> Nat],
     early : BOOLEAN]
Views == [tr : Translators, app : Emitted]

\* The harness: a call has its round and its result once, and a call that is still
\* under way is one of the last answer.
HarnessRight ==
    /\ spent \cap Round = {} /\ (~ run => Round = {})
    /\ \A i \in DOMAIN log : log[i].kind = "result" =>
          \E c \in Calls : log[i].calls = {c} /\ (slots[c] = "done" \/ c \in spent)
    /\ \A i \in DOMAIN log : log[i].kind = "assistant" => log[i].calls \subseteq Round \cup spent
    /\ \A c \in Busy, i, j \in DOMAIN log :
          log[i].kind = "assistant" /\ c \in log[i].calls /\ i < j => log[j].kind # "assistant"

ShownTo(k) == {i \in joined.at + 1 .. k : log[i].kind \notin Unsent}

\* The messages emitted are those of the entries up to k, in order.
InOrder(v, k) ==
    /\ ToSet(v.app.shown) = ShownTo(k)
    /\ \A i, j \in DOMAIN v.app.shown : i < j => v.app.shown[i] < v.app.shown[j]

\* A start and an end of c can still be emitted, or have been in this run.
Fresh(v, c) ==
    /\ c \in v.tr.toolsStarted \/ v.app.began[c] = 0
    /\ c \in v.tr.toolsEnded \/ v.app.finished[c] = 0

\* Nothing more comes of c.
Past(c, k) == c \in spent /\ \A i \in k + 1 .. Len(log) : log[i].kind = "result" => c \notin log[i].calls

ToolRight(v, c, k) ==
    /\ v.app.began[c] <= 1 /\ v.app.finished[c] <= 1
    /\ c \in v.tr.toolsStarted => v.app.began[c] = 1 \/ c \in joined.calls
    /\ c \in v.tr.toolsEnded => v.app.finished[c] = 1 \/ c \in joined.calls
    /\ v.app.finished[c] = 1 => v.app.began[c] = 1 \/ c \in joined.calls
    /\ Fresh(v, c) \/ Past(c, k)
    /\ v.app.began[c] # 0 \/ v.app.finished[c] # 0 => c \in Round \cup spent

\* Whose result is shown has ended.
ResultsEnded(v, k) ==
    \A i \in joined.at + 1 .. k : log[i].kind = "result" =>
        \A c \in log[i].calls \cap Calls : v.app.finished[c] = 1 \/ c \in joined.calls

\* The translator waits for the calls of an answer shown that are under way.
Awaited(v, k) ==
    \A i \in joined.at + 1 .. k : log[i].kind = "assistant" =>
        log[i].calls \cap Busy \subseteq v.tr.pending

BlocksClosed(v) == ~ v.tr.stream => v.app.openBlocks = 0

\* What has been emitted when the entries up to k are read.
EmittedRight(v, k) ==
    /\ InOrder(v, k) /\ (\A c \in Calls : ToolRight(v, c, k))
    /\ ResultsEnded(v, k) /\ Awaited(v, k) /\ BlocksClosed(v) /\ ~ v.app.early

View == [tr |-> tr, app |-> app]

\* Before the watch begins nothing has been emitted.
Unwatched ==
    /\ newest = 0 /\ tr.stream = FALSE /\ app.openBlocks = 0 /\ app.shown = <<>> /\ app.early = FALSE
    /\ app.began = [c \in Calls |-> 0] /\ app.finished = [c \in Calls |-> 0]

LiveInv ==
    /\ ViewTypeOK /\ View \in Views /\ joined.at \in Nat /\ joined.calls \subseteq Calls
    /\ HarnessRight
    /\ ~ watching => Unwatched
    /\ watching => joined.at <= newest /\ EmittedRight(View, newest)

-----------------------------------------------------------------------------
(* What the functions of the translator change *)

Alike(v, w) ==
    /\ w.app.shown = v.app.shown /\ w.app.began = v.app.began /\ w.app.finished = v.app.finished
    /\ w.app.early = v.app.early /\ w.tr.pending = v.tr.pending
    /\ w.tr.toolsStarted = v.tr.toolsStarted /\ w.tr.toolsEnded = v.tr.toolsEnded

\* Views alike but for the blocks of an answer are both right.
LEMMA AlikeRight ==
    ASSUME NEW v, NEW w, NEW k, EmittedRight(v, k), Alike(v, w), BlocksClosed(w)
    PROVE  EmittedRight(w, k)
BY DEF EmittedRight, Alike, InOrder, ToolRight, Fresh, ResultsEnded, Awaited

\* A view with other fields.
LEMMA ViewForm ==
    ASSUME NEW v \in Views
    PROVE  /\ v.tr \in Translators /\ v.app \in Emitted
           /\ v.tr.stream \in BOOLEAN /\ v.tr.blocks \in 0 .. MaxBlocks /\ v.tr.ended \in 0 .. MaxBlocks
           /\ v.tr.pending \in SUBSET Calls /\ v.tr.toolsStarted \in SUBSET Calls
           /\ v.tr.toolsEnded \in SUBSET Calls /\ v.app.shown \in Seq(Nat) /\ v.app.openBlocks \in Int
           /\ v.app.began \in [Calls -> Nat] /\ v.app.finished \in [Calls -> Nat]
           /\ v.app.early \in BOOLEAN
BY DEF Views, Translators, Emitted

\* A turn begins, and nothing else changes.
LEMMA BeginTurnEffect ==
    ASSUME NEW v \in Views, NEW w, w = beginTurn(v)
    PROVE  w \in Views /\ Alike(v, w) /\ w.tr.stream = v.tr.stream /\ w.app.openBlocks = v.app.openBlocks
           /\ w.tr.blocks = v.tr.blocks /\ w.tr.ended = v.tr.ended
BY DEF beginTurn, Views, Translators, Emitted, Alike

\* A message begins to stream.
LEMMA OpenStreamEffect ==
    ASSUME NEW v \in Views, NEW w, w = openStream(v)
    PROVE  w \in Views /\ Alike(v, w) /\ w.tr.stream = TRUE
<1>1. MaxBlocks \in Nat
  BY ViewAssumption
<1>2. 0 \in 0 .. MaxBlocks
  BY <1>1
<1> QED
  BY <1>2 DEF openStream, Views, Translators, Emitted, Alike

\* Blocks start and end: with a final message none is left open.
LEMMA DiffBlocksEffect ==
    ASSUME NEW v \in Views, NEW n \in 0 .. MaxBlocks, NEW final \in BOOLEAN, final \/ n # 0,
           NEW w, w = diffBlocks(v, n, final)
    PROVE  w \in Views /\ Alike(v, w) /\ w.tr.stream = v.tr.stream /\ (final => w.app.openBlocks = 0)
<1> DEFINE closed == IF final THEN n ELSE IF n > v.tr.blocks THEN n - 1 ELSE v.tr.ended
<1>1. MaxBlocks \in Nat /\ n \in Nat /\ n \in Int
  BY ViewAssumption
<1>2. closed \in 0 .. MaxBlocks
  BY <1>1, ViewForm
<1>3. n - closed \in Int /\ (final => n - closed = 0)
  BY <1>1, <1>2
<1>4. w = [v EXCEPT !.tr.blocks = n, !.tr.ended = closed, !.app.openBlocks = n - closed]
  BY DEF diffBlocks
<1> DEFINE o == n - closed
<1> HIDE DEF closed, o
<1>5. w = [v EXCEPT !.tr.blocks = n, !.tr.ended = closed, !.app.openBlocks = o]
  BY <1>4 DEF o
<1>6. o \in Int /\ (final => o = 0)
  BY <1>3 DEF o
<1> DEFINE t == [v.tr EXCEPT !.blocks = n, !.ended = closed]
           a == [v.app EXCEPT !.openBlocks = o]
<1>7. w.tr = t /\ w.app = a /\ w = [tr |-> t, app |-> a]
  BY <1>5 DEF Views
<1>8. /\ t \in Translators /\ t.stream = v.tr.stream /\ t.pending = v.tr.pending
      /\ t.toolsStarted = v.tr.toolsStarted /\ t.toolsEnded = v.tr.toolsEnded
  BY <1>1, <1>2, ViewForm DEF Translators
<1>9. /\ a \in Emitted /\ a.shown = v.app.shown /\ a.began = v.app.began /\ a.finished = v.app.finished
      /\ a.early = v.app.early /\ a.openBlocks = o
  BY <1>6, ViewForm DEF Emitted
<1> HIDE DEF t, a
<1> QED
  BY <1>6, <1>7, <1>8, <1>9 DEF Views, Alike

\* A streamed answer grows.
LEMMA StreamingEffect ==
    ASSUME NEW v \in Views, gen \in 0 .. MaxBlocks, NEW k, EmittedRight(v, k), NEW w, w = streaming(v, gen)
    PROVE  w \in Views /\ EmittedRight(w, k)
<1>1. CASE gen = 0
  BY <1>1 DEF streaming
<1>2. CASE gen # 0
  <2> DEFINE a == beginTurn(v)
             b == openStream(a)
  <2>1. a \in Views /\ Alike(v, a)
    BY BeginTurnEffect
  <2> HIDE DEF a
  <2>2. b \in Views /\ Alike(a, b) /\ b.tr.stream = TRUE
    BY <2>1, OpenStreamEffect
  <2> HIDE DEF b
  <2>3. w = diffBlocks(b, gen, FALSE)
    BY <1>2 DEF streaming, a, b
  <2>4. w \in Views /\ Alike(b, w) /\ w.tr.stream = TRUE
    BY <1>2, <2>2, <2>3, DiffBlocksEffect
  <2>5. Alike(v, w)
    BY <2>1, <2>2, <2>4 DEF Alike
  <2> QED
    BY <2>4, <2>5, AlikeRight DEF BlocksClosed
<1> QED
  BY <1>1, <1>2

\* A turn with nothing unresolved ends in time.
LEMMA EndTurnForm ==
    ASSUME NEW v \in Views, Unresolved(v) = {}, ~ v.app.early, NEW w, w = endTurn(v)
    PROVE  w \in Views /\ Alike(v, w) /\ w.tr.stream = v.tr.stream /\ w.app.openBlocks = v.app.openBlocks
<1>2. CASE v.tr.inTurn
  <2>1. w = [v EXCEPT !.tr.inTurn = FALSE, !.app.early = @ \/ FALSE]
    BY <1>2 DEF endTurn
  <2>2. v.app.early = FALSE
    BY ViewForm
  <2>3. w = [v EXCEPT !.tr.inTurn = FALSE, !.app.early = FALSE]
    BY <2>1, <2>2
  <2> DEFINE t == [v.tr EXCEPT !.inTurn = FALSE]
             a == [v.app EXCEPT !.early = FALSE]
  <2>5. w.tr = t /\ w.app = a /\ w = [tr |-> t, app |-> a]
    BY <2>3 DEF Views
  <2>6. /\ t \in Translators /\ t.stream = v.tr.stream /\ t.pending = v.tr.pending
        /\ t.toolsStarted = v.tr.toolsStarted /\ t.toolsEnded = v.tr.toolsEnded
    BY ViewForm DEF Translators
  <2>7. /\ a \in Emitted /\ a.shown = v.app.shown /\ a.began = v.app.began /\ a.finished = v.app.finished
        /\ a.openBlocks = v.app.openBlocks /\ a.early = FALSE
    BY ViewForm DEF Emitted
  <2> HIDE DEF t, a
  <2> QED
    BY <2>2, <2>5, <2>6, <2>7 DEF Views, Alike
<1>3. CASE ~ v.tr.inTurn
  BY <1>3 DEF endTurn, Alike
<1> QED
  BY <1>2, <1>3

\* Nothing shown is unresolved that is not awaited.
LEMMA EndTurnEffect ==
    ASSUME NEW v \in Views, NEW k, EmittedRight(v, k), v.tr.pending \cap Busy = {}, NEW w, w = endTurn(v)
    PROVE  w \in Views /\ EmittedRight(w, k)
<1>1. Unresolved(v) = {}
  <2> SUFFICES ASSUME NEW c \in Busy, NEW j \in DOMAIN v.app.shown,
                      log[v.app.shown[j]].kind = "assistant", c \in log[v.app.shown[j]].calls
               PROVE  FALSE
    BY DEF Unresolved
  <2>1. v.app.shown[j] \in ShownTo(k)
    BY DEF EmittedRight, InOrder, ToSet
  <2>2. c \in v.tr.pending
    BY <2>1 DEF EmittedRight, Awaited, ShownTo
  <2> QED
    BY <2>2
<1>2. w \in Views /\ Alike(v, w) /\ w.tr.stream = v.tr.stream /\ w.app.openBlocks = v.app.openBlocks
  BY <1>1, EndTurnForm DEF EmittedRight
<1> QED
  BY <1>2, AlikeRight DEF EmittedRight, BlocksClosed

\* A start is emitted, unless it has been in this run.
LEMMA StartToolEffect ==
    ASSUME NEW v \in Views, NEW c \in Calls, NEW k, EmittedRight(v, k), Fresh(v, c), c \in Round \cup spent,
           NEW w, w = startTool(v, c)
    PROVE  /\ w \in Views /\ EmittedRight(w, k) /\ Fresh(w, c) /\ c \in w.tr.toolsStarted
<1>1. CASE c \in v.tr.toolsStarted
  BY <1>1 DEF startTool
<1>2. CASE c \notin v.tr.toolsStarted
  <2> DEFINE t == [v.tr EXCEPT !.toolsStarted = @ \cup {c}]
             b == [v.app.began EXCEPT ![c] = @ + 1]
             a == [v.app EXCEPT !.began = b]
  <2>1. w.tr = t /\ w.app = a /\ w = [tr |-> t, app |-> a]
    BY <1>2 DEF startTool, Views, Emitted
  <2>2. v.app.began[c] = 0
    BY <1>2 DEF Fresh
  <2>3. b \in [Calls -> Nat] /\ b[c] = 1 /\ \A d \in Calls : d # c => b[d] = v.app.began[d]
    BY <2>2, ViewForm
  <2> HIDE DEF b
  <2>4. /\ t \in Translators /\ t.stream = v.tr.stream /\ t.pending = v.tr.pending
        /\ t.toolsStarted = v.tr.toolsStarted \cup {c} /\ t.toolsEnded = v.tr.toolsEnded
    BY ViewForm DEF Translators
  <2>5. /\ a \in Emitted /\ a.shown = v.app.shown /\ a.began = b /\ a.finished = v.app.finished
        /\ a.early = v.app.early /\ a.openBlocks = v.app.openBlocks
    BY <2>3, ViewForm DEF Emitted
  <2> HIDE DEF t, a
  <2>6. w \in Views
    BY <2>1, <2>4, <2>5 DEF Views
  <2>7. Fresh(w, c)
    BY <2>1, <2>4, <2>5 DEF Fresh
  <2>8. ASSUME NEW d \in Calls PROVE ToolRight(w, d, k)
    <3>1. ToolRight(v, d, k)
      BY DEF EmittedRight
    <3>2. CASE d = c
      BY <2>1, <2>3, <2>4, <2>5, <2>7, <3>1, <3>2 DEF ToolRight
    <3>3. CASE d # c
      BY <2>1, <2>3, <2>4, <2>5, <3>1, <3>3 DEF ToolRight, Fresh
    <3> QED
      BY <3>2, <3>3
  <2>9. InOrder(w, k) /\ ResultsEnded(w, k) /\ Awaited(w, k) /\ BlocksClosed(w) /\ ~ w.app.early
    BY <2>1, <2>4, <2>5 DEF EmittedRight, InOrder, ResultsEnded, Awaited, BlocksClosed
  <2> QED
    BY <2>1, <2>4, <2>6, <2>7, <2>8, <2>9 DEF EmittedRight
<1> QED
  BY <1>1, <1>2

\* An end is emitted after its start, unless it has been in this run.
LEMMA EndToolEffect ==
    ASSUME NEW v \in Views, NEW c \in Calls, NEW k, EmittedRight(v, k), Fresh(v, c), c \in Round \cup spent,
           c \in v.tr.toolsStarted, NEW w, w = endTool(v, c)
    PROVE  /\ w \in Views /\ EmittedRight(w, k)
           /\ w.app.finished[c] = 1 \/ c \in joined.calls
<1>1. CASE c \in v.tr.toolsEnded
  BY <1>1 DEF endTool, EmittedRight, ToolRight
<1>2. CASE c \notin v.tr.toolsEnded
  <2> DEFINE t == [v.tr EXCEPT !.toolsEnded = @ \cup {c}]
             b == [v.app.finished EXCEPT ![c] = @ + 1]
             a == [v.app EXCEPT !.finished = b]
  <2>1. w.tr = t /\ w.app = a /\ w = [tr |-> t, app |-> a]
    BY <1>2 DEF endTool, Views, Emitted
  <2>2. v.app.finished[c] = 0
    BY <1>2 DEF Fresh
  <2>3. b \in [Calls -> Nat] /\ b[c] = 1 /\ \A d \in Calls : d # c => b[d] = v.app.finished[d]
    BY <2>2, ViewForm
  <2> HIDE DEF b
  <2>4. /\ t \in Translators /\ t.stream = v.tr.stream /\ t.pending = v.tr.pending
        /\ t.toolsEnded = v.tr.toolsEnded \cup {c} /\ t.toolsStarted = v.tr.toolsStarted
    BY ViewForm DEF Translators
  <2>5. /\ a \in Emitted /\ a.shown = v.app.shown /\ a.finished = b /\ a.began = v.app.began
        /\ a.early = v.app.early /\ a.openBlocks = v.app.openBlocks
    BY <2>3, ViewForm DEF Emitted
  <2> HIDE DEF t, a
  <2>6. w \in Views
    BY <2>1, <2>4, <2>5 DEF Views
  <2>7. Fresh(w, c)
    BY <2>1, <2>4, <2>5 DEF Fresh
  <2>8. ASSUME NEW d \in Calls PROVE ToolRight(w, d, k)
    <3>1. ToolRight(v, d, k)
      BY DEF EmittedRight
    <3>2. CASE d = c
      BY <2>1, <2>3, <2>4, <2>5, <2>7, <3>1, <3>2 DEF ToolRight
    <3>3. CASE d # c
      BY <2>1, <2>3, <2>4, <2>5, <3>1, <3>3 DEF ToolRight, Fresh
    <3> QED
      BY <3>2, <3>3
  <2>10. InOrder(w, k) /\ Awaited(w, k) /\ BlocksClosed(w) /\ ~ w.app.early
    BY <2>1, <2>4, <2>5 DEF EmittedRight, InOrder, Awaited, BlocksClosed
  <2>11. ResultsEnded(w, k)
    <3>1. \A d \in Calls : v.app.finished[d] = 1 => w.app.finished[d] = 1
      BY <2>1, <2>2, <2>3, <2>5
    <3> QED
      BY <3>1 DEF EmittedRight, ResultsEnded
  <2> QED
    BY <2>1, <2>3, <2>5, <2>6, <2>8, <2>10, <2>11 DEF EmittedRight
<1> QED
  BY <1>1, <1>2

\* A call that is not under way is no longer awaited.
LEMMA DroppedEffect ==
    ASSUME NEW v \in Views, NEW c \in Calls, NEW k, EmittedRight(v, k), c \notin Busy,
           NEW w, w = [v EXCEPT !.tr.pending = @ \ {c}]
    PROVE  /\ w \in Views /\ EmittedRight(w, k) /\ w.app = v.app
           /\ w.tr.toolsStarted = v.tr.toolsStarted /\ w.tr.toolsEnded = v.tr.toolsEnded
<1> DEFINE t == [v.tr EXCEPT !.pending = @ \ {c}]
<1>1. w.tr = t /\ w.app = v.app /\ w = [tr |-> t, app |-> v.app]
  BY DEF Views
<1>2. /\ t \in Translators /\ t.stream = v.tr.stream /\ t.pending = v.tr.pending \ {c}
      /\ t.toolsStarted = v.tr.toolsStarted /\ t.toolsEnded = v.tr.toolsEnded
  BY ViewForm DEF Translators
<1> HIDE DEF t
<1>3. w \in Views
  BY <1>1, <1>2, ViewForm DEF Views
<1>4. Awaited(w, k)
  BY <1>1, <1>2 DEF EmittedRight, Awaited
<1> QED
  BY <1>1, <1>2, <1>3, <1>4 DEF EmittedRight, InOrder, ToolRight, Fresh, ResultsEnded, BlocksClosed

\* One more entry is read.
LEMMA Advance ==
    ASSUME NEW v \in Views, NEW w \in Views, NEW k \in Nat, k + 1 \in DOMAIN log,
           joined.at \in Nat, joined.at <= k, EmittedRight(v, k),
           w.app.shown = IF log[k + 1].kind \in Unsent THEN v.app.shown ELSE Append(v.app.shown, k + 1),
           w.app.began = v.app.began, w.app.finished = v.app.finished, w.app.early = v.app.early,
           w.tr.toolsStarted = v.tr.toolsStarted, w.tr.toolsEnded = v.tr.toolsEnded,
           Awaited(w, k + 1), BlocksClosed(w),
           log[k + 1].kind = "result" =>
               \A c \in log[k + 1].calls \cap Calls : v.app.finished[c] = 1 \/ c \in joined.calls
    PROVE  EmittedRight(w, k + 1)
<1>1. joined.at + 1 .. k + 1 = (joined.at + 1 .. k) \cup {k + 1} /\ k + 1 \notin joined.at + 1 .. k
  OBVIOUS
<1>2. InOrder(w, k + 1)
  <2>0. v.app.shown \in Seq(Nat) /\ k + 1 \in Nat
    BY ViewForm
  <2>1. InOrder(v, k)
    BY DEF EmittedRight
  <2>2. CASE log[k + 1].kind \in Unsent
    BY <1>1, <2>1, <2>2 DEF InOrder, ShownTo
  <2>3. CASE log[k + 1].kind \notin Unsent
    <3> DEFINE s == v.app.shown
               n == Len(s)
               r == w.app.shown
    <3>1. r \in Seq(Nat) /\ n \in Nat /\ Len(r) = n + 1 /\ r[n + 1] = k + 1 /\ \A j \in 1 .. n : r[j] = s[j]
      BY <2>0, <2>3, AppendProperties
    <3>2. DOMAIN r = 1 .. n + 1 /\ DOMAIN s = 1 .. n
      BY <2>0, <3>1
    <3> HIDE DEF n, r
    <3>3. \A j \in 1 .. n + 1 : j = n + 1 \/ j \in 1 .. n
      BY <3>1
    <3>4. n + 1 \in 1 .. n + 1 /\ 1 .. n \subseteq 1 .. n + 1
      BY <3>1
    <3>5. ToSet(s) = ShownTo(k) /\ \A i, j \in 1 .. n : i < j => s[i] < s[j]
      BY <2>1, <3>2 DEF InOrder
    <3>6. ShownTo(k + 1) = ShownTo(k) \cup {k + 1}
      BY <1>1, <2>3 DEF ShownTo
    <3>7. ToSet(r) = ToSet(s) \cup {k + 1}
      <4>1. \A j \in DOMAIN r : r[j] \in ToSet(s) \cup {k + 1}
        BY <3>1, <3>2, <3>3 DEF ToSet
      <4>2. \A j \in DOMAIN s : s[j] \in ToSet(r)
        BY <3>1, <3>2, <3>4 DEF ToSet
      <4>3. k + 1 \in ToSet(r)
        BY <3>1, <3>2, <3>4 DEF ToSet
      <4> HIDE DEF s
      <4> QED
        BY <4>1, <4>2, <4>3 DEF ToSet
    <3>8. \A i \in 1 .. n : s[i] < k + 1
      <4>1. \A i \in 1 .. n : s[i] \in ShownTo(k)
        BY <3>2, <3>5 DEF ToSet
      <4>2. \A x \in ShownTo(k) : x < k + 1
        BY DEF ShownTo
      <4> QED
        BY <4>1, <4>2
    <3>9. \A i, j \in 1 .. n + 1 : i < j => r[i] < r[j]
      <4> SUFFICES ASSUME NEW i \in 1 .. n + 1, NEW j \in 1 .. n + 1, i < j PROVE r[i] < r[j]
        OBVIOUS
      <4>1. i \in 1 .. n
        BY <3>1
      <4> QED
        BY <3>1, <3>3, <3>5, <3>8, <4>1
    <3> QED
      BY <3>2, <3>5, <3>6, <3>7, <3>9 DEF InOrder, r
  <2> QED
    BY <2>2, <2>3
<1>3. ASSUME NEW c \in Calls PROVE ToolRight(w, c, k + 1)
  <2>1. ToolRight(v, c, k)
    BY DEF EmittedRight
  <2>2. Past(c, k) => Past(c, k + 1)
    <3>1. k + 1 + 1 .. Len(log) \subseteq k + 1 .. Len(log)
      OBVIOUS
    <3> QED
      BY <3>1 DEF Past
  <2> QED
    BY <2>1, <2>2 DEF ToolRight, Fresh
<1>4. ResultsEnded(w, k + 1)
  BY <1>1 DEF EmittedRight, ResultsEnded
<1> QED
  BY <1>2, <1>3, <1>4 DEF EmittedRight

\* The harness as the translator finds it.
HarnessNow ==
    /\ log \in Seq(Entries) /\ gen \in 0 .. MaxBlocks /\ HarnessRight /\ joined.at \in Nat

\* The fields of an entry.
LEMMA EntryForm ==
    ASSUME HarnessNow, NEW i \in DOMAIN log
    PROVE  log[i].kind \in Kinds /\ log[i].calls \in SUBSET Calls /\ log[i].blocks \in 0 .. MaxBlocks
<1>1. log[i] \in Entries
  BY DEF HarnessNow
<1> QED
  BY <1>1 DEF Entries

\* A message without blocks or calls is emitted.
LEMMA WholeEffect ==
    ASSUME HarnessNow, NEW v \in Views, NEW k \in Nat, k + 1 \in DOMAIN log, joined.at <= k,
           EmittedRight(v, k), log[k + 1].kind \in {"user", "app", "result"},
           log[k + 1].kind = "result" =>
               \A c \in log[k + 1].calls \cap Calls : v.app.finished[c] = 1 \/ c \in joined.calls,
           NEW w, w = whole(v, k + 1)
    PROVE  w \in Views /\ EmittedRight(w, k + 1)
<1>0. joined.at \in Nat
  BY DEF HarnessNow
<1> DEFINE b == beginTurn(v)
           r == Append(v.app.shown, k + 1)
           a == [b.app EXCEPT !.shown = r]
<1>1. b \in Views /\ Alike(v, b) /\ b.tr.stream = v.tr.stream /\ b.app.openBlocks = v.app.openBlocks
  BY BeginTurnEffect
<1>2. w = [b EXCEPT !.app.shown = Append(b.app.shown, k + 1)]
  BY DEF whole
<1> HIDE DEF b
<1>3. r \in Seq(Nat) /\ b.app.shown = v.app.shown
  BY <1>1, ViewForm, AppendProperties DEF Alike
<1>4. w.tr = b.tr /\ w.app = a /\ w = [tr |-> b.tr, app |-> a]
  BY <1>1, <1>2, <1>3 DEF Views
<1> HIDE DEF r
<1>5. /\ a \in Emitted /\ a.shown = r /\ a.began = b.app.began /\ a.finished = b.app.finished
      /\ a.early = b.app.early /\ a.openBlocks = b.app.openBlocks
  BY <1>1, <1>3, ViewForm DEF Emitted
<1> HIDE DEF a
<1>6. w \in Views
  BY <1>1, <1>4, <1>5, ViewForm DEF Views
<1>7. Awaited(w, k + 1)
  <2>1. joined.at + 1 .. k + 1 = (joined.at + 1 .. k) \cup {k + 1}
    BY <1>0
  <2>2. w.tr.pending = v.tr.pending /\ Awaited(v, k)
    BY <1>1, <1>4 DEF Alike, EmittedRight
  <2> QED
    BY <2>1, <2>2 DEF Awaited
<1>8. BlocksClosed(w)
  BY <1>1, <1>4, <1>5 DEF BlocksClosed, EmittedRight
<1>9. w.app.shown = IF log[k + 1].kind \in Unsent THEN v.app.shown ELSE Append(v.app.shown, k + 1)
  BY <1>4, <1>5 DEF r, Unsent
<1>10. /\ w.app.began = v.app.began /\ w.app.finished = v.app.finished /\ w.app.early = v.app.early
       /\ w.tr.toolsStarted = v.tr.toolsStarted /\ w.tr.toolsEnded = v.tr.toolsEnded
  BY <1>1, <1>4, <1>5 DEF Alike
<1> QED
  BY <1>0, <1>6, <1>7, <1>8, <1>9, <1>10, Advance

\* A call whose result is stored is not under way.
LEMMA ResultForm ==
    ASSUME HarnessNow, NEW i \in DOMAIN log, log[i].kind = "result"
    PROVE  \E c \in Calls : log[i].calls = {c} /\ c \in Round \cup spent /\ c \notin Busy
<1>1. PICK c \in Calls : log[i].calls = {c} /\ (slots[c] = "done" \/ c \in spent)
  BY DEF HarnessNow, HarnessRight
<1>2. spent \cap Round = {}
  BY DEF HarnessNow, HarnessRight
<1> QED
  BY <1>1, <1>2 DEF Round, Busy

\* A result is emitted after the end of its call; with the last one the turn is over.
LEMMA ToolResultEffect ==
    ASSUME HarnessNow, NEW v \in Views, NEW k \in Nat, k + 1 \in DOMAIN log, joined.at <= k,
           EmittedRight(v, k), log[k + 1].kind = "result", NEW w, w = toolResult(v, k + 1)
    PROVE  w \in Views /\ EmittedRight(w, k + 1)
<1>1. PICK c \in Calls : log[k + 1].calls = {c} /\ c \in Round \cup spent /\ c \notin Busy
  BY ResultForm
<1>2. (CHOOSE d \in log[k + 1].calls : TRUE) = c
  BY <1>1
<1> DEFINE s == startTool(v, c)
           e == endTool(s, c)
           x == whole(e, k + 1)
           y == [x EXCEPT !.tr.pending = @ \ {c}]
<1>3. w = IF y.tr.pending = {} THEN endTurn(y) ELSE y
  <2> DEFINE d == CHOOSE d \in log[k + 1].calls : TRUE
             z == [whole(endTool(startTool(v, d), d), k + 1) EXCEPT !.tr.pending = @ \ {d}]
  <2>1. w = IF z.tr.pending = {} THEN endTurn(z) ELSE z
    BY DEF toolResult
  <2>2. d = c
    BY <1>2
  <2> HIDE DEF d
  <2> QED
    BY <2>1, <2>2
<1>4. Fresh(v, c)
  <2>1. k + 1 \in k + 1 .. Len(log)
    BY DEF HarnessNow
  <2>2. ~ Past(c, k)
    BY <1>1, <2>1 DEF Past
  <2> QED
    BY <2>2 DEF EmittedRight, ToolRight
<1>5. s \in Views /\ EmittedRight(s, k) /\ Fresh(s, c) /\ c \in s.tr.toolsStarted
  BY <1>1, <1>4, StartToolEffect
<1> HIDE DEF s
<1>6. e \in Views /\ EmittedRight(e, k) /\ (e.app.finished[c] = 1 \/ c \in joined.calls)
  BY <1>1, <1>5, EndToolEffect
<1> HIDE DEF e
<1>7. x \in Views /\ EmittedRight(x, k + 1)
  <2>1. \A d \in log[k + 1].calls \cap Calls : e.app.finished[d] = 1 \/ d \in joined.calls
    BY <1>1, <1>6
  <2> QED
    BY <1>6, <2>1, WholeEffect
<1> HIDE DEF x
<1>8. y \in Views /\ EmittedRight(y, k + 1)
  BY <1>1, <1>7, DroppedEffect
<1> HIDE DEF y
<1>9. CASE y.tr.pending = {}
  <2>1. w = endTurn(y) /\ y.tr.pending \cap Busy = {}
    BY <1>3, <1>9
  <2> QED
    BY <1>8, <2>1, EndTurnEffect
<1>10. CASE y.tr.pending # {}
  BY <1>3, <1>8, <1>10
<1> QED
  BY <1>9, <1>10

\* An answer is emitted with its blocks closed; one without calls ends its turn.
LEMMA AssistantEffect ==
    ASSUME HarnessNow, NEW v \in Views, NEW k \in Nat, k + 1 \in DOMAIN log, joined.at <= k,
           EmittedRight(v, k), log[k + 1].kind = "assistant", NEW w, w = assistant(v, k + 1)
    PROVE  w \in Views /\ EmittedRight(w, k + 1)
<1> DEFINE e == log[k + 1]
           b == beginTurn(v)
           o == openStream(b)
           d == diffBlocks(o, e.blocks, TRUE)
           y == [d EXCEPT !.tr.stream = FALSE, !.tr.pending = e.calls, !.app.shown = Append(@, k + 1)]
<1>0. joined.at \in Nat /\ k + 1 \in Nat
  BY DEF HarnessNow
<1>1. e.calls \in SUBSET Calls /\ e.blocks \in 0 .. MaxBlocks
  BY EntryForm
<1>2. w = IF e.calls = {} THEN endTurn(y) ELSE y
  BY DEF assistant
<1>3. b \in Views /\ Alike(v, b)
  BY BeginTurnEffect
<1> HIDE DEF b
<1>4. o \in Views /\ Alike(b, o)
  BY <1>3, OpenStreamEffect
<1> HIDE DEF o
<1>5. d \in Views /\ Alike(o, d) /\ d.app.openBlocks = 0
  BY <1>1, <1>4, DiffBlocksEffect
<1> HIDE DEF d
<1>6. Alike(v, d)
  BY <1>3, <1>4, <1>5 DEF Alike
<1> DEFINE cs == e.calls
           r == Append(d.app.shown, k + 1)
           t == [d.tr EXCEPT !.stream = FALSE, !.pending = cs]
           a == [d.app EXCEPT !.shown = r]
<1>7. r \in Seq(Nat) /\ r = Append(v.app.shown, k + 1)
  BY <1>0, <1>5, <1>6, ViewForm, AppendProperties DEF Alike
<1>19. y = [d EXCEPT !.tr.stream = FALSE, !.tr.pending = cs, !.app.shown = r]
  OBVIOUS
<1> HIDE DEF y, r, cs
<1>8. y.tr = t /\ y.app = a /\ y = [tr |-> t, app |-> a]
  BY <1>5, <1>19 DEF Views
<1>9. /\ t \in Translators /\ t.stream = FALSE /\ t.pending = cs
      /\ t.toolsStarted = d.tr.toolsStarted /\ t.toolsEnded = d.tr.toolsEnded
  BY <1>1, <1>5, ViewForm DEF Translators, cs
<1>10. /\ a \in Emitted /\ a.shown = r /\ a.began = d.app.began /\ a.finished = d.app.finished
       /\ a.early = d.app.early /\ a.openBlocks = d.app.openBlocks
  BY <1>5, <1>7, ViewForm DEF Emitted
<1> HIDE DEF t, a
<1>11. y \in Views
  BY <1>8, <1>9, <1>10 DEF Views
<1>12. Awaited(y, k + 1)
  <2> SUFFICES ASSUME NEW i \in joined.at + 1 .. k + 1, log[i].kind = "assistant",
                      NEW c \in log[i].calls, c \in Busy
               PROVE  c \in cs
    BY <1>8, <1>9 DEF Awaited
  <2>1. i \in DOMAIN log /\ (i = k + 1 \/ i < k + 1)
    BY <1>0 DEF HarnessNow
  <2>2. ~ (i < k + 1)
    BY <2>1 DEF HarnessNow, HarnessRight
  <2> QED
    BY <2>1, <2>2 DEF cs
<1>13. BlocksClosed(y)
  BY <1>5, <1>8, <1>10 DEF BlocksClosed
<1>14. y.app.shown = IF log[k + 1].kind \in Unsent THEN v.app.shown ELSE Append(v.app.shown, k + 1)
  BY <1>7, <1>8, <1>10 DEF Unsent
<1>15. /\ y.app.began = v.app.began /\ y.app.finished = v.app.finished /\ y.app.early = v.app.early
       /\ y.tr.toolsStarted = v.tr.toolsStarted /\ y.tr.toolsEnded = v.tr.toolsEnded
  BY <1>6, <1>8, <1>9, <1>10 DEF Alike
<1>16. EmittedRight(y, k + 1)
  BY <1>0, <1>11, <1>12, <1>13, <1>14, <1>15, Advance
<1>17. CASE e.calls = {}
  <2>1. w = endTurn(y) /\ y.tr.pending \cap Busy = {}
    BY <1>2, <1>8, <1>9, <1>17 DEF cs
  <2> QED
    BY <1>11, <1>16, <2>1, EndTurnEffect
<1>18. CASE e.calls # {}
  BY <1>2, <1>11, <1>16, <1>18
<1> QED
  BY <1>17, <1>18

\* Any entry is read.
LEMMA ReadEffect ==
    ASSUME HarnessNow, NEW v \in Views, NEW k \in Nat, k + 1 \in DOMAIN log, joined.at <= k,
           EmittedRight(v, k), NEW w, w = entry(v, k + 1)
    PROVE  w \in Views /\ EmittedRight(w, k + 1)
<1>1. CASE log[k + 1].kind \in {"user", "app"}
  <2>1. w = whole(v, k + 1)
    BY <1>1 DEF entry
  <2> QED
    BY <1>1, <2>1, WholeEffect
<1>2. CASE log[k + 1].kind = "assistant"
  <2>1. w = assistant(v, k + 1)
    BY <1>2 DEF entry
  <2> QED
    BY <1>2, <2>1, AssistantEffect
<1>3. CASE log[k + 1].kind = "result"
  <2>1. w = toolResult(v, k + 1)
    BY <1>3 DEF entry
  <2> QED
    BY <1>3, <2>1, ToolResultEffect
<1>4. CASE log[k + 1].kind \in Unsent
  <2>1. w = v
    BY <1>4 DEF entry, Unsent
  <2>2. joined.at \in Nat /\ joined.at + 1 .. k + 1 = (joined.at + 1 .. k) \cup {k + 1}
    BY DEF HarnessNow
  <2>3. Awaited(v, k + 1)
    BY <1>4, <2>2 DEF EmittedRight, Awaited, Unsent
  <2>4. BlocksClosed(v)
    BY DEF EmittedRight
  <2> QED
    BY <1>4, <2>1, <2>2, <2>3, <2>4, Advance DEF Unsent
<1> QED
  BY <1>1, <1>2, <1>3, <1>4, EntryForm DEF Kinds, Unsent

\* The slot of a call is read.
LEMMA SlotEffect ==
    ASSUME HarnessNow, slots \in [Calls -> SlotStates], NEW v \in Views, NEW c \in Calls, NEW k,
           EmittedRight(v, k), NEW w, w = slot(v, c)
    PROVE  w \in Views /\ EmittedRight(w, k)
<1>1. CASE slots[c] \in {"none", "pending"}
  BY <1>1 DEF slot
<1>2. CASE slots[c] \notin {"none", "pending"}
  <2> DEFINE s == startTool(v, c)
             e == endTool(s, c)
  <2>1. c \in Round /\ c \notin spent
    BY <1>2 DEF Round, HarnessNow, HarnessRight
  <2>2. Fresh(v, c)
    BY <2>1 DEF EmittedRight, ToolRight, Past
  <2>3. s \in Views /\ EmittedRight(s, k) /\ Fresh(s, c) /\ c \in s.tr.toolsStarted
    BY <2>1, <2>2, StartToolEffect
  <2>4. CASE slots[c] = "faulted"
    <3>1. w = [e EXCEPT !.tr.pending = @ \ {c}]
      BY <2>4 DEF slot
    <3> HIDE DEF s
    <3>2. e \in Views /\ EmittedRight(e, k)
      BY <2>1, <2>3, EndToolEffect
    <3> HIDE DEF e
    <3>3. c \notin Busy
      BY <2>4 DEF Busy
    <3> QED
      BY <3>1, <3>2, <3>3, DroppedEffect
  <2>5. CASE slots[c] # "faulted"
    <3>1. w = s
      BY <1>2, <2>5 DEF slot
    <3> QED
      BY <2>3, <3>1
  <2> QED
    BY <2>4, <2>5
<1> QED
  BY <1>1, <1>2

-----------------------------------------------------------------------------
(* A value of the watch is fed *)

\* The functions return views, whatever has been emitted.
LEMMA EndTurnTyped ==
    ASSUME NEW v \in Views
    PROVE  endTurn(v) \in Views
<1>1. PICK x \in BOOLEAN : x = (v.app.early \/ Unresolved(v) # {})
  OBVIOUS
<1>2. PICK w : w = [v EXCEPT !.tr.inTurn = FALSE, !.app.early = x]
  OBVIOUS
<1> DEFINE t == [v.tr EXCEPT !.inTurn = FALSE]
           a == [v.app EXCEPT !.early = x]
<1>3. w.tr = t /\ w.app = a /\ w = [tr |-> t, app |-> a]
  BY <1>2 DEF Views
<1>4. t \in Translators
  BY ViewForm DEF Translators
<1>5. a \in Emitted
  BY <1>1, ViewForm DEF Emitted
<1>6. w \in Views
  BY <1>3, <1>4, <1>5 DEF Views
<1>7. endTurn(v) = IF v.tr.inTurn THEN w ELSE v
  BY <1>1, <1>2 DEF endTurn
<1> QED
  BY <1>6, <1>7

\* Starts and ends.
LEMMA ToolTyped ==
    ASSUME NEW v \in Views, NEW c \in Calls
    PROVE  startTool(v, c) \in Views /\ endTool(v, c) \in Views
<1>1. startTool(v, c) \in Views
  <2> DEFINE t == [v.tr EXCEPT !.toolsStarted = @ \cup {c}]
             b == [v.app.began EXCEPT ![c] = @ + 1]
             a == [v.app EXCEPT !.began = b]
  <2>1. CASE c \in v.tr.toolsStarted
    BY <2>1 DEF startTool
  <2>2. CASE c \notin v.tr.toolsStarted
    <3>1. startTool(v, c) = [tr |-> t, app |-> a]
      BY <2>2 DEF startTool, Views, Emitted
    <3>2. t \in Translators
      BY ViewForm DEF Translators
    <3>3. b \in [Calls -> Nat]
      BY ViewForm
    <3> HIDE DEF b
    <3>4. a \in Emitted
      BY <3>3, ViewForm DEF Emitted
    <3> QED
      BY <3>1, <3>2, <3>4 DEF Views
  <2> QED
    BY <2>1, <2>2
<1>2. endTool(v, c) \in Views
  <2> DEFINE t == [v.tr EXCEPT !.toolsEnded = @ \cup {c}]
             b == [v.app.finished EXCEPT ![c] = @ + 1]
             a == [v.app EXCEPT !.finished = b]
  <2>1. CASE c \in v.tr.toolsEnded
    BY <2>1 DEF endTool
  <2>2. CASE c \notin v.tr.toolsEnded
    <3>1. endTool(v, c) = [tr |-> t, app |-> a]
      BY <2>2 DEF endTool, Views, Emitted
    <3>2. t \in Translators
      BY ViewForm DEF Translators
    <3>3. b \in [Calls -> Nat]
      BY ViewForm
    <3> HIDE DEF b
    <3>4. a \in Emitted
      BY <3>3, ViewForm DEF Emitted
    <3> QED
      BY <3>1, <3>2, <3>4 DEF Views
  <2> QED
    BY <2>1, <2>2
<1> QED
  BY <1>1, <1>2

\* A call no longer awaited.
LEMMA DroppedTyped ==
    ASSUME NEW v \in Views, NEW c
    PROVE  [v EXCEPT !.tr.pending = @ \ {c}] \in Views
<1>1. [v.tr EXCEPT !.pending = @ \ {c}] \in Translators
  BY ViewForm DEF Translators
<1> QED
  BY <1>1, ViewForm DEF Views

\* Whole messages.
LEMMA WholeTyped ==
    ASSUME NEW v \in Views, NEW i \in Nat
    PROVE  whole(v, i) \in Views
<1> DEFINE b == beginTurn(v)
           r == Append(b.app.shown, i)
<1>1. b \in Views
  BY BeginTurnEffect
<1>2. whole(v, i) = [b EXCEPT !.app.shown = r]
  BY DEF whole
<1> HIDE DEF b
<1>3. r \in Seq(Nat)
  BY <1>1, ViewForm, AppendProperties
<1> HIDE DEF r
<1>4. [b.app EXCEPT !.shown = r] \in Emitted
  BY <1>1, <1>3, ViewForm DEF Emitted
<1> QED
  BY <1>1, <1>2, <1>4, ViewForm DEF Views

\* Answers.
LEMMA AssistantTyped ==
    ASSUME HarnessNow, NEW v \in Views, NEW i \in DOMAIN log
    PROVE  assistant(v, i) \in Views
<1> DEFINE e == log[i]
           b == beginTurn(v)
           o == openStream(b)
           d == diffBlocks(o, e.blocks, TRUE)
           y == [d EXCEPT !.tr.stream = FALSE, !.tr.pending = e.calls, !.app.shown = Append(@, i)]
<1>0. i \in Nat
  BY DEF HarnessNow
<1>1. e.calls \in SUBSET Calls /\ e.blocks \in 0 .. MaxBlocks
  BY EntryForm
<1>2. assistant(v, i) = IF e.calls = {} THEN endTurn(y) ELSE y
  BY DEF assistant
<1>3. b \in Views
  BY BeginTurnEffect
<1> HIDE DEF b
<1>4. o \in Views
  BY <1>3, OpenStreamEffect
<1> HIDE DEF o
<1>5. d \in Views
  BY <1>1, <1>4, DiffBlocksEffect
<1> HIDE DEF d
<1> DEFINE cs == e.calls
           r == Append(d.app.shown, i)
<1>6. y = [d EXCEPT !.tr.stream = FALSE, !.tr.pending = cs, !.app.shown = r]
  OBVIOUS
<1>7. cs \in SUBSET Calls /\ r \in Seq(Nat)
  BY <1>0, <1>1, <1>5, ViewForm, AppendProperties
<1> HIDE DEF y, cs, r
<1>8. [d.tr EXCEPT !.stream = FALSE, !.pending = cs] \in Translators
  BY <1>5, <1>7, ViewForm DEF Translators
<1>9. [d.app EXCEPT !.shown = r] \in Emitted
  BY <1>5, <1>7, ViewForm DEF Emitted
<1>10. y = [tr |-> [d.tr EXCEPT !.stream = FALSE, !.pending = cs], app |-> [d.app EXCEPT !.shown = r]]
  BY <1>5, <1>6 DEF Views
<1>11. y \in Views
  BY <1>8, <1>9, <1>10 DEF Views
<1> QED
  BY <1>2, <1>11, EndTurnTyped

\* Any entry.
LEMMA EntryTyped ==
    ASSUME HarnessNow, NEW v \in Views, NEW i \in DOMAIN log
    PROVE  entry(v, i) \in Views
<1>0. i \in Nat
  BY DEF HarnessNow
<1>1. CASE log[i].kind \in {"user", "app"}
  BY <1>0, <1>1, WholeTyped DEF entry
<1>2. CASE log[i].kind = "assistant"
  BY <1>2, AssistantTyped DEF entry
<1>3. CASE log[i].kind = "result"
  <2>1. PICK c \in Calls : log[i].calls = {c}
    BY <1>3, ResultForm
  <2> DEFINE d == CHOOSE d \in log[i].calls : TRUE
             s == startTool(v, d)
             e == endTool(s, d)
             x == whole(e, i)
             z == [x EXCEPT !.tr.pending = @ \ {d}]
  <2>2. entry(v, i) = IF z.tr.pending = {} THEN endTurn(z) ELSE z
    BY <1>3 DEF entry, toolResult
  <2>3. d \in Calls
    BY <2>1
  <2> HIDE DEF d
  <2>4. s \in Views
    BY <2>3, ToolTyped
  <2> HIDE DEF s
  <2>5. e \in Views
    BY <2>3, <2>4, ToolTyped
  <2> HIDE DEF e
  <2>6. x \in Views
    BY <1>0, <2>5, WholeTyped
  <2> HIDE DEF x
  <2>7. z \in Views
    BY <2>6, DroppedTyped
  <2> HIDE DEF z
  <2> QED
    BY <2>2, <2>7, EndTurnTyped
<1>4. CASE log[i].kind \in Unsent
  BY <1>4 DEF entry, Unsent
<1> QED
  BY <1>1, <1>2, <1>3, <1>4, EntryForm DEF Kinds, Unsent

\* Any slot.
LEMMA SlotTyped ==
    ASSUME NEW v \in Views, NEW c \in Calls
    PROVE  slot(v, c) \in Views
<1> DEFINE s == startTool(v, c)
           e == endTool(s, c)
<1>1. s \in Views
  BY ToolTyped
<1>2. slot(v, c) \in {v, s, [e EXCEPT !.tr.pending = @ \ {c}]}
  BY DEF slot
<1> HIDE DEF s
<1>3. e \in Views
  BY <1>1, ToolTyped
<1> HIDE DEF e
<1>4. [e EXCEPT !.tr.pending = @ \ {c}] \in Views
  BY <1>3, DroppedTyped
<1> QED
  BY <1>1, <1>2, <1>4

\* The entries of a value are read one after the other.
LEMMA FoldRead ==
    ASSUME HarnessNow, NEW v0 \in Views, NEW t \in Seq(DOMAIN log)
    PROVE  \E g \in [0 .. Len(t) -> Views] :
              /\ g[0] = v0 /\ g[Len(t)] = FoldLeft(entry, v0, t)
              /\ \A k \in 1 .. Len(t) : g[k] = entry(g[k - 1], t[k])
<1> DEFINE n == Len(t)
           step == [x \in Views \X (1 .. n) |-> entry(x[1], t[x[2]])]
           Is(h) == h = [S \in SUBSET DOMAIN t |->
                           IF S = {} THEN v0 ELSE entry(h[S \ {Max(S)}], t[Max(S)])]
           f == CHOOSE h : Is(h)
<1>1. n \in Nat /\ DOMAIN t = 1 .. n /\ \A k \in 1 .. n : t[k] \in DOMAIN log
  OBVIOUS
<1>2. FoldLeft(entry, v0, t) = f[DOMAIN t]
  BY DEF FoldLeft, MapThenFoldSet
<1> HIDE DEF n
<1>3. \A v \in Views, k \in 1 .. n : entry(v, t[k]) \in Views
  BY <1>1, EntryTyped
<1>4. step \in [Views \X (1 .. n) -> Views]
  BY <1>3
<1>5. \A v \in Views, k \in 1 .. n : step[<<v, k>>] = entry(v, t[k])
  OBVIOUS
<1> HIDE DEF step
<1>6. PICK h \in [SUBSET (1 .. n) -> Views] : Iterates(h, v0, n, step)
  BY <1>1, <1>4, FoldExists
<1>7. \A S \in SUBSET (1 .. n) : S # {} => Max(S) \in 1 .. n /\ S \ {Max(S)} \in SUBSET (1 .. n)
  <2> SUFFICES ASSUME NEW S \in SUBSET (1 .. n), S # {} PROVE Max(S) \in S
    OBVIOUS
  <2>1. S \in SUBSET (0 .. n)
    BY <1>1
  <2> QED
    BY <1>1, <2>1, MaxOf
<1>8. Is(h)
  <2>1. \A S \in SUBSET (1 .. n) :
           h[S] = IF S = {} THEN v0 ELSE entry(h[S \ {Max(S)}], t[Max(S)])
    BY <1>5, <1>6, <1>7 DEF Iterates
  <2> QED
    BY <1>1, <2>1
<1>9. Is(f)
  BY <1>8
<1> HIDE DEF f
<1>10. f[{}] = v0
  BY <1>1, <1>9
<1>11. Continues(f, Views, v0, n, step)
  BY <1>1, <1>5, <1>7, <1>9, <1>10 DEF Continues
<1>12. PICK g \in [0 .. n -> Views] : g[n] = f[1 .. n] /\ Steps(g, v0, n, step)
  BY <1>1, <1>4, <1>11, FoldPrefixes
<1>13. \A k \in 1 .. n : g[k] = entry(g[k - 1], t[k])
  <2> SUFFICES ASSUME NEW k \in 1 .. n PROVE g[k - 1] \in Views
    BY <1>5, <1>12 DEF Steps
  <2>1. k - 1 \in 0 .. n
    BY <1>1
  <2> QED
    BY <2>1
<1> QED
  BY <1>1, <1>2, <1>12, <1>13 DEF n, Steps

\* So are the slots.
LEMMA FoldSlots ==
    ASSUME NEW v0 \in Views, NEW t \in Seq(Calls)
    PROVE  \E g \in [0 .. Len(t) -> Views] :
              /\ g[0] = v0 /\ g[Len(t)] = FoldLeft(slot, v0, t)
              /\ \A k \in 1 .. Len(t) : g[k] = slot(g[k - 1], t[k])
<1> DEFINE n == Len(t)
           step == [x \in Views \X (1 .. n) |-> slot(x[1], t[x[2]])]
           Is(h) == h = [S \in SUBSET DOMAIN t |->
                           IF S = {} THEN v0 ELSE slot(h[S \ {Max(S)}], t[Max(S)])]
           f == CHOOSE h : Is(h)
<1>1. n \in Nat /\ DOMAIN t = 1 .. n /\ \A k \in 1 .. n : t[k] \in Calls
  OBVIOUS
<1>2. FoldLeft(slot, v0, t) = f[DOMAIN t]
  BY DEF FoldLeft, MapThenFoldSet
<1> HIDE DEF n
<1>3. \A v \in Views, k \in 1 .. n : slot(v, t[k]) \in Views
  BY <1>1, SlotTyped
<1>4. step \in [Views \X (1 .. n) -> Views]
  BY <1>3
<1>5. \A v \in Views, k \in 1 .. n : step[<<v, k>>] = slot(v, t[k])
  OBVIOUS
<1> HIDE DEF step
<1>6. PICK h \in [SUBSET (1 .. n) -> Views] : Iterates(h, v0, n, step)
  BY <1>1, <1>4, FoldExists
<1>7. \A S \in SUBSET (1 .. n) : S # {} => Max(S) \in 1 .. n /\ S \ {Max(S)} \in SUBSET (1 .. n)
  <2> SUFFICES ASSUME NEW S \in SUBSET (1 .. n), S # {} PROVE Max(S) \in S
    OBVIOUS
  <2>1. S \in SUBSET (0 .. n)
    BY <1>1
  <2> QED
    BY <1>1, <2>1, MaxOf
<1>8. Is(h)
  <2>1. \A S \in SUBSET (1 .. n) :
           h[S] = IF S = {} THEN v0 ELSE slot(h[S \ {Max(S)}], t[Max(S)])
    BY <1>5, <1>6, <1>7 DEF Iterates
  <2> QED
    BY <1>1, <2>1
<1>9. Is(f)
  BY <1>8
<1> HIDE DEF f
<1>10. f[{}] = v0
  BY <1>1, <1>9
<1>11. Continues(f, Views, v0, n, step)
  BY <1>1, <1>5, <1>7, <1>9, <1>10 DEF Continues
<1>12. PICK g \in [0 .. n -> Views] : g[n] = f[1 .. n] /\ Steps(g, v0, n, step)
  BY <1>1, <1>4, <1>11, FoldPrefixes
<1>13. \A k \in 1 .. n : g[k] = slot(g[k - 1], t[k])
  <2> SUFFICES ASSUME NEW k \in 1 .. n PROVE g[k - 1] \in Views
    BY <1>5, <1>12 DEF Steps
  <2>1. k - 1 \in 0 .. n
    BY <1>1
  <2> QED
    BY <2>1
<1> QED
  BY <1>1, <1>2, <1>12, <1>13 DEF n, Steps

\* The calls can be put in a sequence.
LEMMA CallsInOrder == SetToSeq(Calls) \in Seq(Calls)
<1>1. IsFiniteSet(Calls)
  BY ViewAssumption
<1>2. PICK n \in Nat : ExistsBijection(1 .. n, Calls)
  BY <1>1, FS_NatBijection
<1>3. Cardinality(Calls) = n
  BY <1>2, FS_CountingElements
<1>4. \E f \in [1 .. Cardinality(Calls) -> Calls] : IsInjective(f)
  BY <1>2, <1>3 DEF ExistsBijection, Bijection, Injection, IsInjective
<1>5. SetToSeq(Calls) \in [1 .. n -> Calls]
  BY <1>3, <1>4 DEF SetToSeq
<1> QED
  BY <1>5, SeqDef

\* All the entries that are new to the mirror.
LEMMA IngestRight ==
    ASSUME HarnessNow, newest \in 0 .. Len(log), joined.at <= newest,
           NEW v \in Views, EmittedRight(v, newest), NEW w, w = FoldLeft(entry, v, ingest)
    PROVE  w \in Views /\ EmittedRight(w, Len(log))
<1> DEFINE N == Len(log)
           n == N - newest
           t == ingest
<1>1. N \in Nat /\ newest \in Nat /\ n \in Nat /\ newest + n = N /\ DOMAIN log = 1 .. N /\ joined.at \in Nat
  BY DEF HarnessNow
<1>2. t \in Seq(DOMAIN log) /\ Len(t) = n /\ \A k \in 1 .. n : t[k] = newest + k
  <2>1. t = [j \in 1 .. n |-> newest + j]
    BY DEF ingest
  <2>2. \A j \in 1 .. n : newest + j \in 1 .. N
    BY <1>1
  <2> HIDE DEF n, t
  <2>3. t \in [1 .. n -> DOMAIN log]
    BY <1>1, <2>1, <2>2
  <2>4. t \in Seq(DOMAIN log)
    BY <1>1, <2>3, SeqDef
  <2>5. Len(t) = n
    BY <1>1, <2>3, <2>4, LenProperties
  <2> QED
    BY <2>1, <2>4, <2>5
<1>3. PICK g \in [0 .. n -> Views] : /\ g[0] = v /\ g[n] = w
                                      /\ \A k \in 1 .. n : g[k] = entry(g[k - 1], t[k])
  <2>1. w = FoldLeft(entry, v, t)
    OBVIOUS
  <2> HIDE DEF n, t
  <2>2. PICK g \in [0 .. Len(t) -> Views] : /\ g[0] = v /\ g[Len(t)] = FoldLeft(entry, v, t)
                                            /\ \A k \in 1 .. Len(t) : g[k] = entry(g[k - 1], t[k])
    BY <1>2, FoldRead
  <2> QED
    BY <1>2, <2>1, <2>2
<1> HIDE DEF n, t
<1> DEFINE T == {k \in 0 .. n : EmittedRight(g[k], newest + k)}
<1>4. 0 \in T
  <2>1. newest + 0 = newest /\ 0 \in 0 .. n
    BY <1>1
  <2> QED
    BY <1>3, <2>1
<1>5. ASSUME NEW k \in 0 .. n, k \in T, k # n PROVE k + 1 \in T
  <2> DEFINE m == newest + k
             x == g[k]
             y == g[k + 1]
  <2>1. k + 1 \in 0 .. n /\ k + 1 \in 1 .. n /\ (k + 1) - 1 = k
    BY <1>1, <1>5
  <2>2. m \in Nat /\ m + 1 \in DOMAIN log /\ joined.at <= m /\ newest + (k + 1) = m + 1
    BY <1>1, <2>1
  <2>3. x \in Views /\ EmittedRight(x, m)
    BY <1>3, <1>5
  <2>4. y = entry(x, m + 1)
    <3>1. y = entry(g[(k + 1) - 1], t[k + 1])
      BY <1>3, <2>1
    <3>2. t[k + 1] = m + 1
      BY <1>2, <2>1, <2>2
    <3> QED
      BY <2>1, <3>1, <3>2
  <2> HIDE DEF m, x, y
  <2>5. EmittedRight(y, m + 1)
    BY <2>2, <2>3, <2>4, ReadEffect
  <2> QED
    BY <2>1, <2>2, <2>5 DEF y
<1>6. 0 .. n \subseteq T
  <2> HIDE DEF T
  <2> QED
    BY <1>1, <1>4, <1>5, UpTo
<1>7. n \in T
  BY <1>1, <1>6
<1> QED
  BY <1>1, <1>3, <1>7

\* All the slots.
LEMMA SlotsRight ==
    ASSUME HarnessNow, slots \in [Calls -> SlotStates], NEW m,
           NEW v \in Views, EmittedRight(v, m), NEW w, w = FoldLeft(slot, v, SetToSeq(Calls))
    PROVE  w \in Views /\ EmittedRight(w, m)
<1> DEFINE t == SetToSeq(Calls)
           n == Len(t)
<1>1. t \in Seq(Calls) /\ n \in Nat /\ \A k \in 1 .. n : t[k] \in Calls
  <2>1. t \in Seq(Calls)
    BY CallsInOrder
  <2> QED
    BY <2>1
<1>2. PICK g \in [0 .. n -> Views] : /\ g[0] = v /\ g[n] = w
                                      /\ \A k \in 1 .. n : g[k] = slot(g[k - 1], t[k])
  BY <1>1, FoldSlots
<1> HIDE DEF n, t
<1> DEFINE T == {k \in 0 .. n : EmittedRight(g[k], m)}
<1>3. 0 \in T
  BY <1>1, <1>2
<1>4. ASSUME NEW k \in 0 .. n, k \in T, k # n PROVE k + 1 \in T
  <2> DEFINE x == g[k]
             y == g[k + 1]
             c == t[k + 1]
  <2>1. k + 1 \in 0 .. n /\ k + 1 \in 1 .. n /\ (k + 1) - 1 = k
    BY <1>1, <1>4
  <2>2. x \in Views /\ EmittedRight(x, m) /\ c \in Calls
    BY <1>1, <1>2, <1>4, <2>1
  <2>3. y = slot(x, c)
    BY <1>2, <2>1
  <2> HIDE DEF x, y, c
  <2>4. EmittedRight(y, m)
    BY <2>2, <2>3, SlotEffect
  <2> QED
    BY <2>1, <2>4 DEF y
<1>5. 0 .. n \subseteq T
  <2> HIDE DEF T
  <2> QED
    BY <1>1, <1>3, <1>4, UpTo
<1>6. n \in T
  BY <1>1, <1>5
<1> QED
  BY <1>2, <1>6

\* The run is over: every call of it is past.
LEMMA EndRunEffect ==
    ASSUME HarnessNow, ~ run, NEW v \in Views, EmittedRight(v, Len(log)), NEW w, w = endRun(v)
    PROVE  w \in Views /\ EmittedRight(w, Len(log))
<1> DEFINE N == Len(log)
           x == [v EXCEPT !.tr.stream = FALSE, !.tr.pending = {}]
           y == endTurn(x)
<1>1. Round = {} /\ Busy = {}
  BY DEF HarnessNow, HarnessRight, Round, Busy
<1>2. N \in Nat /\ N + 1 .. N = {}
  BY DEF HarnessNow
<1>3. w = [y EXCEPT !.tr.toolsStarted = {}, !.tr.toolsEnded = {}, !.tr.busy = FALSE, !.app.openBlocks = 0]
  BY DEF endRun
<1>4. /\ x \in Views /\ x.app = v.app /\ x.tr.pending = {}
  <2>1. PICK z : z = x
    OBVIOUS
  <2> DEFINE t == [v.tr EXCEPT !.stream = FALSE, !.pending = {}]
  <2>2. z = [v EXCEPT !.tr.stream = FALSE, !.tr.pending = {}]
    BY <2>1
  <2>3. z.tr = t /\ z.app = v.app /\ z = [tr |-> t, app |-> v.app]
    BY <2>2 DEF Views
  <2>4. t \in Translators /\ t.pending = {}
    BY ViewForm DEF Translators
  <2> HIDE DEF t, x
  <2> QED
    BY <2>1, <2>3, <2>4, ViewForm DEF Views
<1> HIDE DEF x
<1>5. y \in Views /\ Alike(x, y)
  <2>1. Unresolved(x) = {}
    BY <1>1 DEF Unresolved
  <2>2. ~ x.app.early
    BY <1>4 DEF EmittedRight
  <2> QED
    BY <1>4, <2>1, <2>2, EndTurnForm
<1> HIDE DEF y
<1> DEFINE t == [y.tr EXCEPT !.toolsStarted = {}, !.toolsEnded = {}, !.busy = FALSE]
           a == [y.app EXCEPT !.openBlocks = 0]
<1>6. w.tr = t /\ w.app = a /\ w = [tr |-> t, app |-> a]
  BY <1>3, <1>5 DEF Views
<1>7. t \in Translators /\ t.toolsStarted = {} /\ t.toolsEnded = {}
  BY <1>5, ViewForm DEF Translators
<1>13. y.app \in Emitted /\ 0 \in Int
  BY <1>5, ViewForm
<1>14. /\ a \in Emitted /\ a.shown = y.app.shown /\ a.began = y.app.began /\ a.finished = y.app.finished
       /\ a.early = y.app.early /\ a.openBlocks = 0
  BY <1>13 DEF Emitted
<1>8. /\ a \in Emitted /\ a.shown = v.app.shown /\ a.began = v.app.began /\ a.finished = v.app.finished
      /\ a.early = v.app.early /\ a.openBlocks = 0
  BY <1>4, <1>5, <1>14 DEF Alike
<1> HIDE DEF t, a
<1>9. w \in Views
  BY <1>6, <1>7, <1>8 DEF Views
<1>10. ASSUME NEW c \in Calls PROVE ToolRight(w, c, N)
  <2>1. ToolRight(v, c, N)
    BY DEF EmittedRight
  <2>2. Past(c, N) \/ (v.app.began[c] = 0 /\ v.app.finished[c] = 0)
    BY <1>1, <1>2, <2>1 DEF ToolRight, Past
  <2>3. Fresh(w, c) \/ Past(c, N)
    BY <1>6, <1>8, <2>2 DEF Fresh
  <2> QED
    BY <1>6, <1>7, <1>8, <2>1, <2>3 DEF ToolRight
<1>11. InOrder(w, N) /\ ResultsEnded(w, N) /\ BlocksClosed(w) /\ ~ w.app.early
  BY <1>6, <1>8 DEF EmittedRight, InOrder, ResultsEnded, BlocksClosed
<1>12. Awaited(w, N)
  BY <1>1 DEF Awaited
<1> QED
  BY <1>9, <1>10, <1>11, <1>12 DEF EmittedRight

\* What the translator makes of a value leaves the view right.
LEMMA FeedRight ==
    ASSUME HarnessNow, slots \in [Calls -> SlotStates], newest \in 0 .. Len(log), joined.at <= newest,
           run \in BOOLEAN, View \in Views, EmittedRight(View, newest), NEW w, w = feed
    PROVE  w \in Views /\ EmittedRight(w, Len(log))
<1> DEFINE v0 == View
           v1 == IF ~ tr.busy /\ run THEN [v0 EXCEPT !.tr.busy = TRUE] ELSE v0
           v2 == FoldLeft(entry, v1, ingest)
           v3 == streaming(v2, gen)
           v4 == FoldLeft(slot, v3, SetToSeq(Calls))
           N == Len(log)
<1>1. w = IF v4.tr.busy /\ ~ run THEN endRun(v4) ELSE v4
  BY DEF feed, View
<1>2. v1 \in Views /\ EmittedRight(v1, newest)
  <2> DEFINE t == [v0.tr EXCEPT !.busy = TRUE]
  <2>1. PICK z : z = [v0 EXCEPT !.tr.busy = TRUE]
    OBVIOUS
  <2>2. v0 \in Views /\ EmittedRight(v0, newest)
    OBVIOUS
  <2> HIDE DEF v0
  <2>3. z.tr = t /\ z.app = v0.app /\ z = [tr |-> t, app |-> v0.app]
    BY <2>1, <2>2 DEF Views
  <2>4. /\ t \in Translators /\ t.stream = v0.tr.stream /\ t.pending = v0.tr.pending
        /\ t.toolsStarted = v0.tr.toolsStarted /\ t.toolsEnded = v0.tr.toolsEnded
    BY <2>2, ViewForm DEF Translators
  <2> HIDE DEF t
  <2>5. z \in Views /\ Alike(v0, z) /\ BlocksClosed(z)
    BY <2>2, <2>3, <2>4, ViewForm DEF Views, Alike, EmittedRight, BlocksClosed
  <2>6. EmittedRight(z, newest)
    BY <2>2, <2>5, AlikeRight
  <2> QED
    BY <2>1, <2>2, <2>5, <2>6
<1> HIDE DEF v1
<1>3. v2 \in Views /\ EmittedRight(v2, N)
  BY <1>2, IngestRight
<1> HIDE DEF v2
<1>4. v3 \in Views /\ EmittedRight(v3, N)
  BY <1>3, StreamingEffect DEF HarnessNow
<1> HIDE DEF v3
<1>5. v4 \in Views /\ EmittedRight(v4, N)
  BY <1>4, SlotsRight
<1> HIDE DEF v4
<1>6. CASE v4.tr.busy /\ ~ run
  BY <1>1, <1>5, <1>6, EndRunEffect
<1>7. CASE ~ (v4.tr.busy /\ ~ run)
  BY <1>1, <1>5, <1>7
<1> QED
  BY <1>6, <1>7

-----------------------------------------------------------------------------
(* The steps of the harness *)

\* What the invariant says of the harness.
LEMMA LiveForm ==
    ASSUME LiveInv
    PROVE  /\ log \in Seq(Entries) /\ Len(log) \in Nat /\ DOMAIN log = 1 .. Len(log)
           /\ run \in BOOLEAN /\ gen \in 0 .. MaxBlocks /\ slots \in [Calls -> SlotStates] /\ spent \subseteq Calls
           /\ watching \in BOOLEAN /\ newest \in 0 .. Len(log) /\ newest \in Nat
           /\ HarnessRight /\ HarnessNow /\ MaxBlocks \in Nat /\ MaxBlocks # 0
           /\ Round \subseteq Calls /\ Busy \subseteq Round
<1>1. ViewTypeOK /\ HarnessRight /\ joined.at \in Nat
  BY DEF LiveInv
<1>2. log \in Seq(Entries) /\ gen \in 0 .. MaxBlocks
  BY <1>1 DEF ViewTypeOK
<1>3. HarnessNow
  BY <1>1, <1>2 DEF HarnessNow
<1>4. MaxBlocks \in Nat /\ MaxBlocks # 0
  BY ViewAssumption
<1>5. Round \subseteq Calls /\ Busy \subseteq Round
  BY DEF Round, Busy
<1>6. Len(log) \in Nat /\ DOMAIN log = 1 .. Len(log) /\ newest \in 0 .. Len(log)
  BY <1>1, <1>2 DEF ViewTypeOK
<1> QED
  BY <1>1, <1>2, <1>3, <1>4, <1>5, <1>6 DEF ViewTypeOK

\* What the harness does leaves the view right, if no call of the past comes back.
LEMMA HarnessMoves ==
    ASSUME LiveInv, UNCHANGED seenVars, ViewTypeOK', HarnessRight', Len(log') >= Len(log),
           \A i \in DOMAIN log : log'[i] = log[i],
           Round \cup spent \subseteq (Round \cup spent)', spent \subseteq spent',
           \A i \in DOMAIN log' : i \in DOMAIN log \/ (log'[i].kind = "result" => log'[i].calls \cap spent = {}),
           \A c \in Busy', i \in DOMAIN log :
               log[i].kind = "assistant" /\ c \in log[i].calls => c \in Busy
    PROVE  LiveInv'
<1>1. UNCHANGED <<watching, newest, tr, app, joined>>
  BY DEF seenVars
<1>2. View' = View /\ joined' = joined
  BY <1>1 DEF View
<1>3. ~ watching => Unwatched'
  BY <1>1 DEF LiveInv, Unwatched
<1>4. ASSUME watching PROVE EmittedRight(View, newest)'
  <2>1. EmittedRight(View, newest) /\ joined.at \in Nat
    BY <1>4 DEF LiveInv
  <2>2. newest \in Nat /\ newest <= Len(log) /\ DOMAIN log = 1 .. Len(log) /\ Len(log) \in Nat
    BY LiveForm
  <2>3. Len(log') \in Nat /\ DOMAIN log' = 1 .. Len(log')
    BY DEF ViewTypeOK
  <2>4. \A i \in joined.at + 1 .. newest : i \in DOMAIN log
    BY <2>1, <2>2
  <2>5. InOrder(View, newest)'
    BY <1>1, <1>2, <2>1, <2>4 DEF EmittedRight, InOrder, ShownTo
  <2>6. ASSUME NEW c \in Calls PROVE ToolRight(View, c, newest)'
    <3>1. ToolRight(View, c, newest)
      BY <2>1 DEF EmittedRight
    <3>2. Past(c, newest) => Past(c, newest)'
      <4> SUFFICES ASSUME Past(c, newest) PROVE Past(c, newest)'
        OBVIOUS
      <4>1. \A i \in newest + 1 .. Len(log') : i \in DOMAIN log' /\ (i \in DOMAIN log => i \in newest + 1 .. Len(log))
        BY <2>2, <2>3
      <4> QED
        BY <1>1, <4>1 DEF Past
    <3>3. c \in Round \cup spent => c \in (Round \cup spent)'
      OBVIOUS
    <3> QED
      BY <1>1, <1>2, <3>1, <3>2, <3>3 DEF ToolRight, Fresh
  <2>7. ResultsEnded(View, newest)' /\ BlocksClosed(View)' /\ ~ View'.app.early
    BY <1>1, <1>2, <2>1, <2>4 DEF EmittedRight, ResultsEnded, BlocksClosed
  <2>8. Awaited(View, newest)'
    BY <1>1, <1>2, <2>1, <2>4 DEF EmittedRight, Awaited
  <2> QED
    BY <1>1, <2>5, <2>6, <2>7, <2>8 DEF EmittedRight
<1> QED
  BY <1>1, <1>2, <1>3, <1>4 DEF LiveInv

\* An entry is stored.
LEMMA Committed ==
    ASSUME LiveInv, NEW e \in Entries, Commit(e)
    PROVE  /\ log' \in Seq(Entries) /\ Len(log') = Len(log) + 1 /\ Len(log') >= Len(log)
           /\ DOMAIN log' = 1 .. Len(log) + 1 /\ log'[Len(log) + 1] = e
           /\ \A i \in DOMAIN log : i \in DOMAIN log' /\ log'[i] = log[i] /\ i # Len(log) + 1 /\ i < Len(log) + 1
           /\ \A i \in DOMAIN log' : i \in DOMAIN log \/ i = Len(log) + 1
           /\ newest \in 0 .. Len(log')
<1> DEFINE N == Len(log)
<1>1. log \in Seq(Entries) /\ N \in Nat /\ DOMAIN log = 1 .. N /\ newest \in 0 .. N
  BY LiveForm
<1>2. log' = Append(log, e)
  BY DEF Commit
<1>3. /\ log' \in Seq(Entries) /\ Len(log') = N + 1 /\ log'[N + 1] = e
      /\ \A i \in 1 .. N : log'[i] = log[i]
  BY <1>1, <1>2, AppendProperties
<1>4. DOMAIN log' = 1 .. N + 1
  BY <1>1, <1>3
<1> HIDE DEF N
<1> QED
  BY <1>1, <1>3, <1>4 DEF N

\* A submission, or an entry of the app.
LEMMA PlainEntry ==
    ASSUME LiveInv, NEW e \in Entries, Commit(e), e.kind \in {"user", "app", "hidden", "reset"},
           run' = TRUE \/ run' = run, UNCHANGED <<gen, slots, spent, seenVars>>
    PROVE  LiveInv'
<1>1. UNCHANGED <<gen, slots, spent, watching, newest, tr, app, joined>>
  BY DEF seenVars
<1>2. Round' = Round /\ Busy' = Busy
  BY <1>1 DEF Round, Busy
<1>3. ViewTypeOK'
  <2>1. log' \in Seq(Entries) /\ newest' \in 0 .. Len(log') /\ run' \in BOOLEAN
    BY <1>1, Committed, LiveForm
  <2> QED
    BY <1>1, <2>1 DEF LiveInv, ViewTypeOK
<1>4. HarnessRight'
  <2>1. ~ run' => Round = {}
    BY LiveForm DEF HarnessRight
  <2>2. \A i \in DOMAIN log' : log'[i].kind \in {"result", "assistant"} => i \in DOMAIN log /\ log'[i] = log[i]
    BY Committed
  <2>3. HarnessRight
    BY LiveForm
  <2>4. \A i \in DOMAIN log' : log'[i].kind = "result" =>
           \E c \in Calls : log'[i].calls = {c} /\ (slots[c] = "done" \/ c \in spent)
    BY <2>2, <2>3 DEF HarnessRight
  <2>5. \A i \in DOMAIN log' : log'[i].kind = "assistant" => log'[i].calls \subseteq Round \cup spent
    BY <2>2, <2>3 DEF HarnessRight
  <2>6. \A c \in Busy, i, j \in DOMAIN log' :
           log'[i].kind = "assistant" /\ c \in log'[i].calls /\ i < j => log'[j].kind # "assistant"
    BY <2>2, <2>3 DEF HarnessRight
  <2> QED
    BY <1>1, <1>2, <2>1, <2>3, <2>4, <2>5, <2>6 DEF HarnessRight
<1>5. \A i \in DOMAIN log' : i \in DOMAIN log \/ (log'[i].kind = "result" => log'[i].calls \cap spent = {})
  BY Committed
<1>6. Len(log') >= Len(log) /\ \A i \in DOMAIN log : log'[i] = log[i]
  BY Committed
<1> QED
  BY <1>1, <1>2, <1>3, <1>4, <1>5, <1>6, HarnessMoves

\* A submission is stored.
LEMMA SubmitStep ==
    ASSUME LiveInv, Submit
    PROVE  LiveInv'
<1> DEFINE e == Entry("user", {}, 1)
<1>1. 1 \in 0 .. MaxBlocks
  BY LiveForm
<1>2. e \in Entries /\ e.kind = "user"
  BY <1>1 DEF Entry, Entries, Kinds
<1>3. Commit(e) /\ run' = TRUE /\ UNCHANGED <<gen, slots, spent, seenVars>>
  BY DEF Submit
<1> HIDE DEF e
<1> QED
  BY <1>2, <1>3, PlainEntry

\* An entry of the app is stored.
LEMMA AppEntryStep ==
    ASSUME LiveInv, NEW kind \in {"app", "hidden", "reset"}, AppEntry(kind)
    PROVE  LiveInv'
<1> DEFINE e == Entry(kind, {}, 0)
<1>1. 0 \in 0 .. MaxBlocks
  BY LiveForm
<1>2. e \in Entries /\ e.kind = kind
  BY <1>1 DEF Entry, Entries, Kinds
<1>3. Commit(e) /\ run' = run /\ UNCHANGED <<gen, slots, spent, seenVars>>
  BY DEF AppEntry
<1> HIDE DEF e
<1> QED
  BY <1>2, <1>3, PlainEntry

\* An answer grows.
LEMMA StreamStep ==
    ASSUME LiveInv, Stream
    PROVE  LiveInv'
<1>1. gen' \in 0 .. MaxBlocks /\ UNCHANGED <<log, run, slots, spent, watching, newest, tr, app, joined>>
  BY LiveForm DEF Stream, seenVars
<1>2. ViewTypeOK'
  BY <1>1 DEF LiveInv, ViewTypeOK
<1>3. Round' = Round /\ Busy' = Busy
  BY <1>1 DEF Round, Busy
<1>4. HarnessRight'
  BY <1>1, <1>3, LiveForm DEF HarnessRight
<1>5. Len(log) >= Len(log)
  BY LiveForm
<1> QED
  BY <1>1, <1>2, <1>3, <1>4, <1>5, HarnessMoves DEF seenVars

\* A tool starts or faults.
LEMMA SlotStep ==
    ASSUME LiveInv, NEW c \in Calls, ToolRuns(c) \/ ToolFaults(c)
    PROVE  LiveInv'
<1>1. PICK s \in SlotStates : s # "none" /\ slots' = [slots EXCEPT ![c] = s]
  BY DEF ToolRuns, ToolFaults, SlotStates
<1>2. slots[c] \in {"pending", "running"} /\ UNCHANGED <<log, run, gen, spent, watching, newest, tr, app, joined>>
  BY DEF ToolRuns, ToolFaults, seenVars
<1>3. /\ slots' \in [Calls -> SlotStates] /\ slots'[c] = s
      /\ \A d \in Calls : d # c => slots'[d] = slots[d]
  BY <1>1, LiveForm
<1>4. Round' = Round
  BY <1>1, <1>2, <1>3 DEF Round
<1>5. Busy' \subseteq Busy
  BY <1>2, <1>3 DEF Busy
<1>6. ViewTypeOK'
  BY <1>2, <1>3 DEF LiveInv, ViewTypeOK
<1>7. HarnessRight'
  <2>1. HarnessRight
    BY LiveForm
  <2>2. \A d \in Calls : slots[d] = "done" => slots'[d] = "done"
    BY <1>2, <1>3
  <2>3. \A i \in DOMAIN log : log[i].kind = "result" =>
           \E d \in Calls : log[i].calls = {d} /\ (slots'[d] = "done" \/ d \in spent)
    BY <2>1, <2>2 DEF HarnessRight
  <2> QED
    BY <1>2, <1>4, <1>5, <2>1, <2>3 DEF HarnessRight
<1>8. Len(log) >= Len(log)
  BY LiveForm
<1> QED
  BY <1>2, <1>4, <1>5, <1>6, <1>7, <1>8, HarnessMoves DEF seenVars

\* A tool is done: its result is stored.
LEMMA ToolDoneStep ==
    ASSUME LiveInv, NEW c \in Calls, ToolDone(c)
    PROVE  LiveInv'
<1> DEFINE e == Entry("result", {c}, 1)
           N == Len(log)
<1>1. 1 \in 0 .. MaxBlocks
  BY LiveForm
<1>2. e \in Entries /\ e.kind = "result" /\ e.calls = {c}
  BY <1>1 DEF Entry, Entries, Kinds
<1>3. /\ slots[c] = "running" /\ slots' = [slots EXCEPT ![c] = "done"] /\ Commit(e)
      /\ UNCHANGED <<run, gen, spent, watching, newest, tr, app, joined>>
  BY DEF ToolDone, seenVars
<1> HIDE DEF e
<1>4. /\ slots' \in [Calls -> SlotStates] /\ slots'[c] = "done"
      /\ \A d \in Calls : d # c => slots'[d] = slots[d]
  BY <1>3, LiveForm DEF SlotStates
<1>5. Round' = Round /\ c \in Round /\ c \notin spent
  <2>1. Round' = Round /\ c \in Round
    BY <1>3, <1>4 DEF Round
  <2> QED
    BY <2>1, LiveForm DEF HarnessRight
<1>6. Busy' \subseteq Busy
  BY <1>3, <1>4 DEF Busy
<1>7. ViewTypeOK'
  <2>1. log' \in Seq(Entries) /\ newest' \in 0 .. Len(log')
    BY <1>2, <1>3, Committed
  <2> QED
    BY <1>3, <1>4, <2>1 DEF LiveInv, ViewTypeOK
<1>8. \A i \in DOMAIN log' : (i \in DOMAIN log /\ log'[i] = log[i]) \/ (i = N + 1 /\ log'[i] = e)
  BY <1>2, <1>3, Committed
<1>9. HarnessRight'
  <2>1. HarnessRight
    BY LiveForm
  <2>2. \A d \in Calls : slots[d] = "done" => slots'[d] = "done"
    BY <1>3, <1>4
  <2>3. \A i \in DOMAIN log' : log'[i].kind = "result" =>
           \E d \in Calls : log'[i].calls = {d} /\ (slots'[d] = "done" \/ d \in spent)
    BY <1>2, <1>4, <1>8, <2>1, <2>2 DEF HarnessRight
  <2>4. \A i \in DOMAIN log' : log'[i].kind = "assistant" => i \in DOMAIN log /\ log'[i] = log[i]
    BY <1>2, <1>8
  <2>5. \A i \in DOMAIN log' : log'[i].kind = "assistant" => log'[i].calls \subseteq Round \cup spent
    BY <2>1, <2>4 DEF HarnessRight
  <2>6. \A d \in Busy', i, j \in DOMAIN log' :
           log'[i].kind = "assistant" /\ d \in log'[i].calls /\ i < j => log'[j].kind # "assistant"
    BY <1>6, <2>1, <2>4 DEF HarnessRight
  <2> QED
    BY <1>3, <1>5, <2>1, <2>3, <2>5, <2>6 DEF HarnessRight
<1>10. \A i \in DOMAIN log' : i \in DOMAIN log \/ (log'[i].kind = "result" => log'[i].calls \cap spent = {})
  BY <1>2, <1>5, <1>8
<1>11. Len(log') >= Len(log) /\ \A i \in DOMAIN log : log'[i] = log[i]
  BY <1>2, <1>3, Committed
<1> QED
  BY <1>3, <1>5, <1>6, <1>7, <1>9, <1>10, <1>11, HarnessMoves DEF seenVars

\* An answer ends the round before and begins one of its own.
LEMMA AnswerStep ==
    ASSUME LiveInv, NEW cs \in SUBSET Calls, NEW n \in 1 .. MaxBlocks, Answer(cs, n)
    PROVE  LiveInv'
<1> DEFINE e == Entry("assistant", cs, n)
           N == Len(log)
<1>1. n \in 0 .. MaxBlocks
  BY LiveForm
<1>2. e \in Entries /\ e.kind = "assistant" /\ e.calls = cs
  BY <1>1 DEF Entry, Entries, Kinds
<1>3. /\ run /\ Busy = {} /\ cs \cap (Round \cup spent) = {} /\ Commit(e) /\ gen' = 0
      /\ spent' = spent \cup Round /\ slots' = [c \in Calls |-> IF c \in cs THEN "pending" ELSE "none"]
      /\ UNCHANGED <<run, watching, newest, tr, app, joined>>
  BY DEF Answer, seenVars
<1> HIDE DEF e
<1>4. slots' \in [Calls -> SlotStates] /\ \A c \in Calls : slots'[c] = IF c \in cs THEN "pending" ELSE "none"
  BY <1>3 DEF SlotStates
<1>5. Round' = cs /\ Busy' = cs
  BY <1>4 DEF Round, Busy
<1>6. ViewTypeOK'
  <2>1. log' \in Seq(Entries) /\ newest' \in 0 .. Len(log')
    BY <1>2, <1>3, Committed
  <2>2. gen' \in 0 .. MaxBlocks /\ spent' \subseteq Calls
    BY <1>3, LiveForm
  <2> QED
    BY <1>3, <1>4, <2>1, <2>2 DEF LiveInv, ViewTypeOK
<1>7. \A i \in DOMAIN log' : (i \in DOMAIN log /\ log'[i] = log[i]) \/ (i = N + 1 /\ log'[i] = e)
  BY <1>2, <1>3, Committed
<1>8. HarnessRight
  BY LiveForm
<1>9. \A i \in DOMAIN log : log[i].kind = "assistant" => log[i].calls \subseteq spent'
  BY <1>3, <1>8 DEF HarnessRight
<1>10. HarnessRight'
  <2>1. \A i \in DOMAIN log' : log'[i].kind = "result" =>
           \E d \in Calls : log'[i].calls = {d} /\ d \in spent'
    <3> SUFFICES ASSUME NEW i \in DOMAIN log', log'[i].kind = "result"
                 PROVE  \E d \in Calls : log'[i].calls = {d} /\ d \in spent'
      OBVIOUS
    <3>1. i \in DOMAIN log /\ log'[i] = log[i]
      BY <1>2, <1>7
    <3>2. \E d \in Calls : log[i].calls = {d} /\ d \in Round \cup spent
      BY <3>1, ResultForm, LiveForm
    <3> QED
      BY <1>3, <3>1, <3>2
  <2>2. \A i \in DOMAIN log' : log'[i].kind = "assistant" => log'[i].calls \subseteq cs \cup spent'
    BY <1>2, <1>7, <1>9
  <2>3. ASSUME NEW d \in cs, NEW i \in DOMAIN log', NEW j \in DOMAIN log',
               log'[i].kind = "assistant", d \in log'[i].calls, i < j
        PROVE  FALSE
    <3>1. d \notin spent'
      BY <1>3
    <3>2. i = N + 1
      BY <1>7, <1>9, <2>3, <3>1
    <3>3. j \in 1 .. N + 1 /\ N \in Nat
      BY <1>2, <1>3, Committed, LiveForm
    <3> QED
      BY <2>3, <3>2, <3>3
  <2>4. spent' \cap cs = {}
    BY <1>3
  <2> QED
    BY <1>3, <1>5, <2>1, <2>2, <2>3, <2>4 DEF HarnessRight
<1>11. \A i \in DOMAIN log' : i \in DOMAIN log \/ (log'[i].kind = "result" => log'[i].calls \cap spent = {})
  BY <1>2, <1>7
<1>12. Len(log') >= Len(log) /\ \A i \in DOMAIN log : log'[i] = log[i]
  BY <1>2, <1>3, Committed
<1>13. \A c \in Busy', i \in DOMAIN log : log[i].kind = "assistant" /\ c \in log[i].calls => c \in Busy
  BY <1>3, <1>5, <1>8 DEF HarnessRight
<1> QED
  BY <1>3, <1>5, <1>6, <1>10, <1>11, <1>12, <1>13, HarnessMoves DEF seenVars

\* A run ends.
LEMMA RunEndsStep ==
    ASSUME LiveInv, RunEnds
    PROVE  LiveInv'
<1>1. /\ run' = FALSE /\ gen' = 0 /\ spent' = spent \cup Round /\ slots' = [c \in Calls |-> "none"]
      /\ UNCHANGED <<log, watching, newest, tr, app, joined>>
  BY DEF RunEnds, seenVars
<1>2. slots' \in [Calls -> SlotStates] /\ \A c \in Calls : slots'[c] = "none"
  BY <1>1 DEF SlotStates
<1>3. Round' = {} /\ Busy' = {}
  BY <1>2 DEF Round, Busy
<1>4. gen' \in 0 .. MaxBlocks /\ spent' \subseteq Calls
  BY <1>1, LiveForm
<1>5. ViewTypeOK'
  BY <1>1, <1>2, <1>4 DEF LiveInv, ViewTypeOK
<1>6. HarnessRight'
  <2>1. HarnessRight /\ HarnessNow
    BY LiveForm
  <2>2. \A i \in DOMAIN log : log[i].kind = "result" => \E d \in Calls : log[i].calls = {d} /\ d \in spent'
    <3> SUFFICES ASSUME NEW i \in DOMAIN log, log[i].kind = "result"
                 PROVE  \E d \in Calls : log[i].calls = {d} /\ d \in spent'
      OBVIOUS
    <3>1. \E d \in Calls : log[i].calls = {d} /\ d \in Round \cup spent
      BY <2>1, ResultForm
    <3> QED
      BY <1>1, <3>1
  <2>3. \A i \in DOMAIN log : log[i].kind = "assistant" => log[i].calls \subseteq spent'
    BY <1>1, <2>1 DEF HarnessRight
  <2> QED
    BY <1>1, <1>3, <2>2, <2>3 DEF HarnessRight
<1>7. Len(log) >= Len(log)
  BY LiveForm
<1>8. \A c \in Busy', i \in DOMAIN log : log[i].kind = "assistant" /\ c \in log[i].calls => c \in Busy
  BY <1>3
<1> QED
  BY <1>1, <1>3, <1>5, <1>6, <1>7, <1>8, HarnessMoves DEF seenVars

-----------------------------------------------------------------------------
(* The steps of the watch *)

\* Nothing has happened yet.
LEMMA LiveStarts == ViewInit => LiveInv
<1> SUFFICES ASSUME ViewInit PROVE LiveInv
  OBVIOUS
<1>1. /\ log = <<>> /\ run = FALSE /\ gen = 0 /\ spent = {} /\ slots = [c \in Calls |-> "none"]
      /\ watching = FALSE /\ newest = 0 /\ joined = [at |-> 0, calls |-> {}]
  BY DEF ViewInit
<1>2. tr = [busy |-> FALSE, inTurn |-> FALSE, stream |-> FALSE, blocks |-> 0, ended |-> 0,
            pending |-> {}, toolsStarted |-> {}, toolsEnded |-> {}]
  BY DEF ViewInit
<1>3. app = [shown |-> <<>>, openBlocks |-> 0, began |-> [c \in Calls |-> 0],
             finished |-> [c \in Calls |-> 0], early |-> FALSE]
  BY DEF ViewInit
<1>4. MaxBlocks \in Nat /\ 0 \in 0 .. MaxBlocks
  BY ViewAssumption
<1>5. tr \in Translators /\ tr.stream = FALSE
  BY <1>2, <1>4 DEF Translators
<1>6. app \in Emitted
  <2>1. <<>> \in Seq(Nat) /\ [c \in Calls |-> 0] \in [Calls -> Nat]
    OBVIOUS
  <2> QED
    BY <1>3, <2>1 DEF Emitted
<1>7. View \in Views
  BY <1>5, <1>6 DEF View, Views
<1>8. log \in Seq(Entries)
  BY <1>1
<1>9. Len(log) = 0 /\ DOMAIN log = {}
  BY <1>1
<1>10. slots \in [Calls -> SlotStates] /\ Round = {} /\ Busy = {}
  BY <1>1 DEF SlotStates, Round, Busy
<1>11. ViewTypeOK
  <2>1. gen \in 0 .. MaxBlocks
    <3>1. gen = 0
      BY <1>1
    <3> QED
      BY <1>4, <3>1
  <2>2. spent \subseteq Calls /\ run \in BOOLEAN /\ watching \in BOOLEAN
    BY <1>1
  <2>3. newest \in 0 .. Len(log)
    BY <1>1, <1>9
  <2> QED
    BY <1>5, <1>8, <1>10, <2>1, <2>2, <2>3 DEF ViewTypeOK, Translators
<1>12. HarnessRight
  BY <1>1, <1>9, <1>10 DEF HarnessRight
<1>13. Unwatched
  BY <1>1, <1>3, <1>5 DEF Unwatched
<1> QED
  BY <1>1, <1>7, <1>11, <1>12, <1>13 DEF LiveInv

\* The watch begins: the entries there are emitted no more, nor what is known of their calls.
LEMMA OpenStep ==
    ASSUME LiveInv, open
    PROVE  LiveInv'
<1> DEFINE N == Len(log)
           S == {c \in Calls : slots[c] \notin {"none", "pending"}}
           E == {c \in Calls : slots[c] \in {"done", "faulted"}}
<1>1. /\ ~ watching /\ watching' = TRUE /\ newest' = N /\ joined' = [at |-> N, calls |-> Round]
      /\ tr' = [tr EXCEPT !.busy = run, !.inTurn = run, !.toolsStarted = S, !.toolsEnded = E]
      /\ UNCHANGED <<log, run, gen, slots, spent, app>>
  BY DEF open, harnessVars
<1>2. S \subseteq Round /\ E \subseteq Round /\ Round \subseteq Calls
  BY DEF Round
<1> HIDE DEF S, E
<1>3. N \in Nat /\ N \in 0 .. N /\ N + 1 .. N = {} /\ run \in BOOLEAN
  BY LiveForm
<1>4. Unwatched /\ View \in Views
  BY <1>1 DEF LiveInv
<1>5. tr \in Translators /\ app \in Emitted
  BY <1>4 DEF View, Views
<1>6. tr' \in Translators /\ tr'.stream = FALSE /\ tr'.toolsStarted = S /\ tr'.toolsEnded = E
  BY <1>1, <1>2, <1>3, <1>4, <1>5 DEF Translators, Unwatched
<1>7. View' \in Views /\ View'.app = app /\ View'.tr = tr'
  BY <1>1, <1>5, <1>6 DEF View, Views
<1>8. ViewTypeOK'
  BY <1>1, <1>3, <1>6 DEF LiveInv, ViewTypeOK, Translators
<1>9. Round' = Round /\ Busy' = Busy
  BY <1>1 DEF Round, Busy
<1>10. HarnessRight'
  BY <1>1, <1>9, LiveForm DEF HarnessRight
<1>11. joined'.at = N /\ joined'.calls = Round
  BY <1>1
<1>12. /\ app.openBlocks = 0 /\ app.shown = <<>> /\ app.early = FALSE
       /\ \A c \in Calls : app.began[c] = 0 /\ app.finished[c] = 0
  BY <1>4 DEF Unwatched
<1>13. EmittedRight(View, newest)'
  <2>1. InOrder(View, newest)'
    <3>1. ToSet(app.shown) = {} /\ DOMAIN app.shown = {}
      BY <1>12 DEF ToSet
    <3>2. ShownTo(newest)' = {}
      BY <1>1, <1>3, <1>11 DEF ShownTo
    <3> QED
      BY <1>7, <3>1, <3>2 DEF InOrder
  <2>2. ASSUME NEW c \in Calls PROVE ToolRight(View, c, newest)'
    BY <1>2, <1>6, <1>7, <1>11, <1>12 DEF ToolRight, Fresh
  <2>3. ResultsEnded(View, newest)' /\ Awaited(View, newest)'
    BY <1>1, <1>3, <1>11 DEF ResultsEnded, Awaited
  <2>4. BlocksClosed(View)' /\ ~ View'.app.early
    BY <1>7, <1>12 DEF BlocksClosed
  <2> QED
    BY <2>1, <2>2, <2>3, <2>4 DEF EmittedRight
<1> QED
  BY <1>1, <1>2, <1>3, <1>7, <1>8, <1>10, <1>11, <1>13 DEF LiveInv

\* A value of the watch is fed to the translator.
LEMMA OnValueStep ==
    ASSUME LiveInv, OnValue
    PROVE  LiveInv'
<1> DEFINE N == Len(log)
<1>1. PICK w : w = feed
  OBVIOUS
<1>2. /\ watching /\ newest' = N /\ tr' = w.tr /\ app' = w.app
      /\ UNCHANGED <<log, run, gen, slots, spent, watching, joined>>
  BY <1>1 DEF OnValue, harnessVars
<1>3. View \in Views /\ EmittedRight(View, newest) /\ joined.at <= newest
  BY <1>2 DEF LiveInv
<1>4. w \in Views /\ EmittedRight(w, N)
  BY <1>1, <1>3, LiveForm, FeedRight
<1>5. View' = w
  BY <1>2, <1>4 DEF View, Views
<1>6. N \in Nat /\ N \in 0 .. N /\ joined.at <= N /\ joined.at \in Nat
  BY <1>3, LiveForm DEF LiveInv
<1>7. ViewTypeOK'
  <2>1. w.tr \in Translators
    BY <1>4 DEF Views
  <2> QED
    BY <1>2, <1>6, <2>1 DEF LiveInv, ViewTypeOK, Translators
<1>8. Round' = Round /\ Busy' = Busy
  BY <1>2 DEF Round, Busy
<1>9. HarnessRight'
  BY <1>2, <1>8, LiveForm DEF HarnessRight
<1>10. EmittedRight(View, newest)'
  <2>1. InOrder(View, newest)'
    BY <1>2, <1>4, <1>5 DEF EmittedRight, InOrder, ShownTo
  <2>2. ASSUME NEW c \in Calls PROVE ToolRight(View, c, newest)'
    BY <1>2, <1>4, <1>5, <1>8 DEF EmittedRight, ToolRight, Fresh, Past
  <2>3. ResultsEnded(View, newest)' /\ Awaited(View, newest)'
    BY <1>2, <1>4, <1>5, <1>8 DEF EmittedRight, ResultsEnded, Awaited
  <2>4. BlocksClosed(View)' /\ ~ View'.app.early
    BY <1>4, <1>5 DEF EmittedRight, BlocksClosed
  <2> QED
    BY <2>1, <2>2, <2>3, <2>4 DEF EmittedRight
<1> QED
  BY <1>2, <1>4, <1>5, <1>6, <1>7, <1>9, <1>10 DEF LiveInv

\* Every step keeps the invariant.
LEMMA LiveStep == LiveInv /\ [ViewNext]_viewVars => LiveInv'
<1> SUFFICES ASSUME LiveInv, [ViewNext]_viewVars PROVE LiveInv'
  OBVIOUS
<1>1. CASE Submit
  BY <1>1, SubmitStep
<1>2. CASE Stream
  BY <1>2, StreamStep
<1>3. CASE RunEnds
  BY <1>3, RunEndsStep
<1>4. CASE open
  BY <1>4, OpenStep
<1>5. CASE OnValue
  BY <1>5, OnValueStep
<1>6. CASE \E cs \in SUBSET Calls, n \in 1 .. MaxBlocks : Answer(cs, n)
  BY <1>6, AnswerStep
<1>7. CASE \E c \in Calls : ToolRuns(c) \/ ToolDone(c) \/ ToolFaults(c)
  BY <1>7, SlotStep, ToolDoneStep
<1>8. CASE \E kind \in {"app", "hidden", "reset"} : AppEntry(kind)
  BY <1>8, AppEntryStep
<1>9. CASE UNCHANGED viewVars
  <2>1. UNCHANGED <<log, run, gen, slots, spent, watching, newest, tr, app, joined>>
    BY <1>9 DEF viewVars, harnessVars
  <2>2. Round' = Round /\ Busy' = Busy
    BY <2>1 DEF Round, Busy
  <2>3. ViewTypeOK' /\ HarnessRight'
    BY <2>1, <2>2 DEF LiveInv, ViewTypeOK, HarnessRight
  <2>4. Len(log) >= Len(log)
    BY LiveForm
  <2> QED
    BY <2>1, <2>2, <2>3, <2>4, HarnessMoves DEF seenVars
<1> QED
  BY <1>1, <1>2, <1>3, <1>4, <1>5, <1>6, <1>7, <1>8, <1>9 DEF ViewNext

\* The invariant says that the view is right.
LEMMA LiveShown == LiveInv => LiveRight
<1> SUFFICES ASSUME LiveInv PROVE LiveRight
  OBVIOUS
<1>1. ViewTypeOK
  BY DEF LiveInv
<1>2. ASSUME watching
      PROVE  /\ ToSet(app.shown) = Rendered
             /\ \A j, k \in DOMAIN app.shown : j < k => app.shown[j] < app.shown[k]
             /\ \A c \in Calls :
                  /\ app.began[c] <= 1 /\ app.finished[c] <= 1
                  /\ app.finished[c] = 1 => app.began[c] = 1 \/ c \in joined.calls
             /\ \A j \in DOMAIN app.shown : log[app.shown[j]].kind = "result" =>
                  \A c \in log[app.shown[j]].calls : app.finished[c] = 1 \/ c \in joined.calls
             /\ ~ tr.stream => app.openBlocks = 0
             /\ ~ app.early
  <2>1. EmittedRight(View, newest) /\ View.tr = tr /\ View.app = app
    BY <1>2 DEF LiveInv, View
  <2>2. ToSet(app.shown) = Rendered /\ \A j, k \in DOMAIN app.shown : j < k => app.shown[j] < app.shown[k]
    BY <2>1 DEF EmittedRight, InOrder, ShownTo, Rendered
  <2>3. \A c \in Calls :
           /\ app.began[c] <= 1 /\ app.finished[c] <= 1
           /\ app.finished[c] = 1 => app.began[c] = 1 \/ c \in joined.calls
    BY <2>1 DEF EmittedRight, ToolRight
  <2>4. ASSUME NEW j \in DOMAIN app.shown, log[app.shown[j]].kind = "result",
               NEW c \in log[app.shown[j]].calls
        PROVE  app.finished[c] = 1 \/ c \in joined.calls
    <3> DEFINE i == app.shown[j]
    <3>1. i \in ToSet(app.shown)
      BY DEF ToSet
    <3>2. i \in joined.at + 1 .. newest
      BY <2>2, <3>1 DEF Rendered
    <3>3. i \in DOMAIN log
      <4>1. newest \in Nat /\ newest <= Len(log) /\ DOMAIN log = 1 .. Len(log) /\ Len(log) \in Nat /\ joined.at \in Nat
        BY LiveForm DEF LiveInv
      <4> QED
        BY <3>2, <4>1
    <3>4. c \in Calls
      BY <2>4, <3>3, LiveForm, ResultForm
    <3> QED
      BY <2>1, <2>4, <3>2, <3>4 DEF EmittedRight, ResultsEnded
  <2>5. (~ tr.stream => app.openBlocks = 0) /\ ~ app.early
    BY <2>1 DEF EmittedRight, BlocksClosed
  <2> QED
    BY <2>2, <2>3, <2>4, <2>5
<1> QED
  BY <1>1, <1>2 DEF LiveRight

(***************************************************************************)
(* However the commits of a durable conversation are folded into the       *)
(* values its watch delivers (ViewTranslator.feed), an app has been shown  *)
(* each visible entry since the watch began once and in order, each tool   *)
(* begun and ended at most once and in that order, ended where its result  *)
(* is shown, with no block of an answer left open and no turn over before  *)
(* the results of its calls.                                               *)
(***************************************************************************)
THEOREM LiveViewRight == ViewSpec => []LiveRight
<1> QED
  BY LiveStarts, LiveStep, LiveShown, PTL DEF ViewSpec
==============================================================================
