--------------------------- MODULE RoomQueriesProofs ---------------------------
(* Proofs about RoomQueries for every number of rooms, attributes and         *)
(* bookings, every calendar and any number of transactions of others.  A      *)
(* search of two queries answers as one query would have; the hours of the    *)
(* utilisation report are those of the bookings that it covers.               *)
EXTENDS RoomQueries, IntervalTheorems, FiniteSetTheorems

-----------------------------------------------------------------------------
(* Sums over finite sets *)

\* The equation that the fold over S is chosen to satisfy.
SumRec(g, fun, S) ==
  g = [s \in SUBSET S |->
         IF s = {} THEN 0
         ELSE fun[CHOOSE x \in s : TRUE] + g[s \ {CHOOSE x \in s : TRUE}]]

LEMMA SumIs ==
  ASSUME NEW fun, NEW S
  PROVE  SumFunctionOnSet(fun, S) = (CHOOSE g : SumRec(g, fun, S))[S]
BY DEF SumFunctionOnSet, FoldFunctionOnSet, MapThenFoldSet, SumRec

\* Induction over the subsets of a finite set, as the provers can use it: a
\* property that fails of some of them fails of a smallest one.
LEMMA SmallestSet ==
  ASSUME NEW S, IsFiniteSet(S), NEW B, B \subseteq SUBSET S, B # {}
  PROVE  \E T \in B : \A U \in B : U \subseteq T => U = T
<1> DEFINE Fin == FiniteSubsetsOf(S)
           R == StrictSubsetOrdering(S)
<1>1. IsWellFoundedOn(R, Fin)
  BY FS_StrictSubsetOrderingWellFounded
<1>2. B \subseteq Fin
  BY FS_Subset DEF FiniteSubsetsOf
<1>3. PICK T \in B : \A U \in B : ~(<<U, T>> \in R)
  BY <1>1, <1>2, WFMin
<1> QED
  BY <1>2, <1>3 DEF StrictSubsetOrdering, FiniteSubsetsOf

\* The equation has one solution at most, and a part of the set has that part
\* of the solution.
LEMMA SumRecUnique ==
  ASSUME NEW fun, NEW S, IsFiniteSet(S), NEW T, T \subseteq S,
         NEW g, SumRec(g, fun, S), NEW h, SumRec(h, fun, T)
  PROVE  g[T] = h[T]
<1> DEFINE B == {s \in SUBSET T : g[s] # h[s]}
<1> SUFFICES ASSUME B # {} PROVE FALSE
  OBVIOUS
<1>1. IsFiniteSet(T)
  BY FS_Subset
<1>2. PICK s \in B : \A u \in B : u \subseteq s => u = s
  <2>1. B \subseteq SUBSET T
    OBVIOUS
  <2> HIDE DEF B
  <2> QED
    BY <1>1, <2>1, SmallestSet
<1>3. s # {}
  BY DEF SumRec
<1> DEFINE c == CHOOSE x \in s : TRUE
<1>4. c \in s
  BY <1>3
<1>5. g[s] = fun[c] + g[s \ {c}] /\ h[s] = fun[c] + h[s \ {c}]
  <2>1. s \in SUBSET S /\ s \in SUBSET T
    BY <1>2
  <2> QED
    BY <1>3, <2>1 DEF SumRec
<1>6. s \ {c} \notin B
  BY <1>2, <1>4
<1>7. g[s \ {c}] = h[s \ {c}]
  BY <1>6
<1> QED
  BY <1>2, <1>5, <1>7

LEMMA SumRecExists ==
  ASSUME NEW fun, NEW S, IsFiniteSet(S)
  PROVE  \E g : SumRec(g, fun, S)
<1> DEFINE B == {T \in SUBSET S : ~\E g : SumRec(g, fun, T)}
<1> SUFFICES ASSUME B # {} PROVE FALSE
  OBVIOUS
<1>1. PICK T \in B : \A U \in B : U \subseteq T => U = T
  <2>1. B \subseteq SUBSET S
    OBVIOUS
  <2> HIDE DEF B
  <2> QED
    BY <2>1, SmallestSet
<1> DEFINE Val(s) == (CHOOSE g : SumRec(g, fun, s))[s]
           chosen(s) == CHOOSE x \in s : TRUE
           h == [s \in SUBSET T |->
                   IF s = {} THEN 0 ELSE fun[chosen(s)] + Val(s \ {chosen(s)})]
<1>2. ASSUME NEW s \in SUBSET T, s # T
      PROVE  SumRec(CHOOSE g : SumRec(g, fun, s), fun, s)
  <2>1. s \notin B /\ s \in SUBSET S
    BY <1>1, <1>2
  <2>2. \E g : SumRec(g, fun, s)
    BY <2>1
  <2> QED
    BY <2>2
<1>3. ASSUME NEW s \in SUBSET T, s # T PROVE h[s] = Val(s)
  <2> DEFINE g == CHOOSE f : SumRec(f, fun, s)
  <2>1. SumRec(g, fun, s)
    BY <1>2, <1>3
  <2>2. CASE s = {}
    <3>1. g[s] = 0
      <4> HIDE DEF g
      <4> QED
        BY <2>1, <2>2 DEF SumRec
    <3> QED
      BY <2>2, <3>1
  <2>3. CASE s # {}
    <3> DEFINE c == chosen(s)
               g1 == CHOOSE f : SumRec(f, fun, s \ {c})
    <3>1. c \in s
      BY <2>3
    <3>2. g[s] = fun[c] + g[s \ {c}]
      <4> HIDE DEF g
      <4> QED
        BY <2>1, <2>3 DEF SumRec
    <3>3. s \ {c} \in SUBSET T /\ s \ {c} # T
      BY <3>1
    <3>4. SumRec(g1, fun, s \ {c})
      BY <1>2, <3>3
    <3>5. IsFiniteSet(s)
      BY <1>1, FS_Subset
    <3>6. g[s \ {c}] = g1[s \ {c}]
      <4> HIDE DEF g, g1, c
      <4> QED
        BY <2>1, <3>4, <3>5, SumRecUnique
    <3>7. h[s] = fun[c] + Val(s \ {c})
      BY <2>3
    <3> QED
      BY <3>2, <3>6, <3>7
  <2> QED
    BY <2>2, <2>3
<1>4. ASSUME NEW s \in SUBSET T, s # {}
      PROVE  h[s] = fun[chosen(s)] + h[s \ {chosen(s)}]
  <2>1. chosen(s) \in s
    BY <1>4
  <2>2. s \ {chosen(s)} \in SUBSET T /\ s \ {chosen(s)} # T
    BY <2>1
  <2>3. h[s \ {chosen(s)}] = Val(s \ {chosen(s)})
    BY <1>3, <2>2
  <2>4. h[s] = fun[chosen(s)] + Val(s \ {chosen(s)})
    BY <1>4
  <2> QED
    BY <2>3, <2>4
<1>5. h[{}] = 0 /\ h = [s \in SUBSET T |-> h[s]]
  OBVIOUS
<1>6. SumRec(h, fun, T)
  <2> HIDE DEF h
  <2> QED
    BY <1>4, <1>5 DEF SumRec
<1> QED
  BY <1>1, <1>6

LEMMA SumEmpty ==
  ASSUME NEW fun
  PROVE  SumFunctionOnSet(fun, {}) = 0
<1> DEFINE g == CHOOSE f : SumRec(f, fun, {})
<1>1. SumRec(g, fun, {})
  BY SumRecExists, FS_EmptySet
<1>2. g[{}] = 0
  <2> HIDE DEF g
  <2> QED
    BY <1>1 DEF SumRec
<1> QED
  BY <1>2, SumIs

LEMMA SumChosen ==
  ASSUME NEW fun, NEW S, IsFiniteSet(S), S # {}
  PROVE  LET c == CHOOSE x \in S : TRUE IN
         SumFunctionOnSet(fun, S) = fun[c] + SumFunctionOnSet(fun, S \ {c})
<1> DEFINE c == CHOOSE x \in S : TRUE
           g == CHOOSE f : SumRec(f, fun, S)
           h == CHOOSE f : SumRec(f, fun, S \ {c})
<1>1. IsFiniteSet(S \ {c})
  BY FS_Subset
<1>2. SumRec(g, fun, S) /\ SumRec(h, fun, S \ {c})
  BY <1>1, SumRecExists
<1>3. g[S \ {c}] = h[S \ {c}]
  <2> HIDE DEF g, h, c
  <2> QED
    BY <1>2, SumRecUnique
<1>4. g[S] = fun[c] + g[S \ {c}]
  <2> HIDE DEF g
  <2> QED
    BY <1>2 DEF SumRec
<1> QED
  BY <1>3, <1>4, SumIs

LEMMA SumType ==
  ASSUME NEW fun, NEW S, IsFiniteSet(S), \A x \in S : fun[x] \in Nat
  PROVE  SumFunctionOnSet(fun, S) \in Nat
<1> DEFINE B == {s \in SUBSET S : SumFunctionOnSet(fun, s) \notin Nat}
<1> SUFFICES ASSUME B # {} PROVE FALSE
  OBVIOUS
<1>1. PICK s \in B : \A u \in B : u \subseteq s => u = s
  <2>1. B \subseteq SUBSET S
    OBVIOUS
  <2> HIDE DEF B
  <2> QED
    BY <2>1, SmallestSet
<1> DEFINE c == CHOOSE x \in s : TRUE
<1>2. s # {}
  BY SumEmpty
<1>3. IsFiniteSet(s)
  BY <1>1, FS_Subset
<1>4. SumFunctionOnSet(fun, s) = fun[c] + SumFunctionOnSet(fun, s \ {c})
  BY <1>2, <1>3, SumChosen
<1>5. c \in s /\ s \ {c} \in SUBSET S
  BY <1>2
<1>6. SumFunctionOnSet(fun, s \ {c}) \in Nat
  BY <1>1, <1>5
<1>7. fun[c] \in Nat
  BY <1>5
<1> HIDE DEF c
<1> QED
  BY <1>1, <1>4, <1>6, <1>7

\* The order does not matter: any element may be taken out.
LEMMA SumRemove ==
  ASSUME NEW fun, NEW S, IsFiniteSet(S), \A x \in S : fun[x] \in Nat, NEW x \in S
  PROVE  SumFunctionOnSet(fun, S) = fun[x] + SumFunctionOnSet(fun, S \ {x})
<1> DEFINE Sum(s) == SumFunctionOnSet(fun, s)
           B == {s \in SUBSET S : \E y \in s : Sum(s) # fun[y] + Sum(s \ {y})}
<1> SUFFICES ASSUME B # {} PROVE FALSE
  OBVIOUS
<1>1. PICK s \in B : \A u \in B : u \subseteq s => u = s
  <2>1. B \subseteq SUBSET S
    OBVIOUS
  <2> HIDE DEF B
  <2> QED
    BY <2>1, SmallestSet
<1>2. PICK y \in s : Sum(s) # fun[y] + Sum(s \ {y})
  BY <1>1
<1> DEFINE c == CHOOSE z \in s : TRUE
<1>3. c \in s /\ IsFiniteSet(s)
  BY <1>1, <1>2, FS_Subset
<1>4. Sum(s) = fun[c] + Sum(s \ {c})
  BY <1>2, <1>3, SumChosen
<1> HIDE DEF c
<1>5. c # y
  BY <1>2, <1>4
<1>6. s \ {c} \notin B /\ s \ {y} \notin B
  BY <1>1, <1>2, <1>3
<1>7. Sum(s \ {c}) = fun[y] + Sum((s \ {c}) \ {y})
  BY <1>2, <1>5, <1>6
<1>8. Sum(s \ {y}) = fun[c] + Sum((s \ {y}) \ {c})
  BY <1>3, <1>5, <1>6
<1> DEFINE k == Sum(s \ {c, y})
<1>9. Sum((s \ {c}) \ {y}) = k /\ Sum((s \ {y}) \ {c}) = k
  <2>1. (s \ {c}) \ {y} = s \ {c, y} /\ (s \ {y}) \ {c} = s \ {c, y}
    OBVIOUS
  <2> QED
    BY <2>1
<1>10. fun[c] \in Nat /\ fun[y] \in Nat /\ k \in Nat
  <2>1. IsFiniteSet(s \ {c, y})
    BY <1>3, FS_Subset
  <2> QED
    BY <1>2, <1>3, <2>1, SumType
<1>11. Sum(s) = fun[c] + (fun[y] + k) /\ Sum(s \ {y}) = fun[c] + k
  BY <1>4, <1>7, <1>8, <1>9
<1> HIDE DEF k
<1> QED
  BY <1>2, <1>10, <1>11

\* The sum of two sets without a common element.
LEMMA SumUnion ==
  ASSUME NEW fun, NEW S, NEW T, IsFiniteSet(S), IsFiniteSet(T), S \cap T = {},
         \A x \in S \cup T : fun[x] \in Nat
  PROVE  SumFunctionOnSet(fun, S \cup T)
         = SumFunctionOnSet(fun, S) + SumFunctionOnSet(fun, T)
<1> DEFINE Sum(s) == SumFunctionOnSet(fun, s)
           B == {s \in SUBSET S : Sum(s \cup T) # Sum(s) + Sum(T)}
<1> SUFFICES ASSUME B # {} PROVE FALSE
  OBVIOUS
<1>1. PICK s \in B : \A u \in B : u \subseteq s => u = s
  <2>1. B \subseteq SUBSET S
    OBVIOUS
  <2> HIDE DEF B
  <2> QED
    BY <2>1, SmallestSet
<1>2. IsFiniteSet(s) /\ IsFiniteSet(s \cup T)
  BY <1>1, FS_Subset, FS_Union
<1>3. Sum(T) \in Nat
  BY SumType
<1>4. s # {}
  <2> SUFFICES ASSUME s = {} PROVE FALSE
    OBVIOUS
  <2>1. s \cup T = T /\ Sum(s) = 0
    BY SumEmpty
  <2>2. Sum(s \cup T) = Sum(T)
    BY <2>1
  <2> QED
    BY <1>1, <1>3, <2>1, <2>2
<1>5. PICK y : y \in s
  BY <1>4
<1> DEFINE u == s \ {y}
<1>6. u \in SUBSET S /\ IsFiniteSet(u) /\ u \notin B /\ y \notin T /\ y \in S
  BY <1>1, <1>2, <1>5, FS_Subset
<1>7. Sum(u \cup T) = Sum(u) + Sum(T)
  BY <1>6
<1>8. Sum(s) = fun[y] + Sum(u)
  BY <1>1, <1>2, <1>5, SumRemove
<1>9. Sum(s \cup T) = fun[y] + Sum(u \cup T)
  <2>1. (s \cup T) \ {y} = u \cup T
    BY <1>5, <1>6
  <2>2. Sum(s \cup T) = fun[y] + Sum((s \cup T) \ {y})
    BY <1>1, <1>2, <1>5, SumRemove
  <2> QED
    BY <2>1, <2>2, Zenon
<1>10. fun[y] \in Nat /\ Sum(u) \in Nat
  BY <1>6, SumType
<1>11. Sum(s \cup T) # Sum(s) + Sum(T)
  BY <1>1
<1> DEFINE n == Sum(u)
           k == Sum(T)
<1>12. Sum(s) = fun[y] + n /\ Sum(s \cup T) = fun[y] + (n + k)
  BY <1>7, <1>8, <1>9
<1> HIDE DEF n, k
<1>13. Sum(s \cup T) = (fun[y] + n) + k
  BY <1>3, <1>10, <1>12 DEF n, k
<1> QED
  BY <1>11, <1>12, <1>13 DEF k

\* Summing by groups: the sum over the groups of what each sums up to is the
\* sum over all.
LEMMA SumByGroups ==
  ASSUME NEW fun, NEW C, IsFiniteSet(C), \A b \in C : fun[b] \in Nat,
         NEW R, NEW grp \in [C -> R], \A r \in R : \E b \in C : grp[b] = r,
         NEW of \in [R -> SUBSET C], \A r \in R, b \in C : b \in of[r] <=> grp[b] = r,
         NEW h, \A r \in R : h[r] = SumFunctionOnSet(fun, of[r])
  PROVE  SumFunctionOnSet(h, R) = SumFunctionOnSet(fun, C)
<1> DEFINE Sum(s) == SumFunctionOnSet(fun, s)
           Of(D) == {b \in C : grp[b] \in D}
           B == {D \in SUBSET R : SumFunctionOnSet(h, D) # Sum(Of(D))}
<1>1. IsFiniteSet(R)
  <2>1. grp \in Surjection(C, R)
    BY DEF Surjection
  <2> QED
    BY <2>1, FS_Surjection
<1>2. \A D \in SUBSET R : IsFiniteSet(Of(D))
  BY FS_Subset
<1>3. \A r \in R : h[r] \in Nat
  <2> TAKE r \in R
  <2>1. IsFiniteSet(of[r]) /\ of[r] \subseteq C
    BY FS_Subset
  <2> QED
    BY <2>1, SumType
<1>4. B = {}
  <2> SUFFICES ASSUME B # {} PROVE FALSE
    OBVIOUS
  <2>1. PICK D \in B : \A E \in B : E \subseteq D => E = D
    <3>1. B \subseteq SUBSET R
      OBVIOUS
    <3> HIDE DEF B
    <3> QED
      BY <1>1, <3>1, SmallestSet
  <2>2. D # {}
    <3> SUFFICES ASSUME D = {} PROVE FALSE
      OBVIOUS
    <3>1. Of(D) = {}
      OBVIOUS
    <3>2. Sum(Of(D)) = 0 /\ SumFunctionOnSet(h, D) = 0
      BY <3>1, SumEmpty
    <3> QED
      BY <2>1, <3>2
  <2>3. PICK y : y \in D
    BY <2>2
  <2> DEFINE E == D \ {y}
             one == of[y]
  <2>4. IsFiniteSet(D) /\ E \in SUBSET R /\ E \notin B /\ y \in R
    BY <1>1, <2>1, <2>3, FS_Subset
  <2>5. SumFunctionOnSet(h, D) = h[y] + SumFunctionOnSet(h, E)
    <3>1. \A r \in D : h[r] \in Nat
      BY <1>3, <2>1
    <3> HIDE DEF B, Of
    <3> QED
      BY <2>3, <2>4, <3>1, SumRemove
  <2>6. SumFunctionOnSet(h, E) = Sum(Of(E))
    BY <2>4
  <2>7. /\ one \in SUBSET C /\ Of(E) \in SUBSET C
        /\ Of(D) = one \cup Of(E) /\ one \cap Of(E) = {}
    BY <2>3, <2>4
  <2>8. IsFiniteSet(one) /\ IsFiniteSet(Of(E))
    BY <2>7, FS_Subset
  <2>9. Sum(one \cup Of(E)) = Sum(one) + Sum(Of(E))
    <3>1. \A b \in one \cup Of(E) : fun[b] \in Nat
      BY <2>7
    <3> HIDE DEF one, Of, B, E
    <3>2. SumFunctionOnSet(fun, one \cup Of(E))
            = SumFunctionOnSet(fun, one) + SumFunctionOnSet(fun, Of(E))
      BY <2>7, <2>8, <3>1, SumUnion
    <3> QED
      BY <3>2
  <2>10. Sum(Of(D)) = Sum(one) + Sum(Of(E))
    BY <2>7, <2>9, Zenon
  <2>11. h[y] = Sum(one)
    BY <2>4
  <2>12. SumFunctionOnSet(h, D) = Sum(Of(D))
    BY <2>5, <2>6, <2>10, <2>11, Zenon
  <2> QED
    BY <2>1, <2>12
<1>5. SumFunctionOnSet(h, R) = Sum(Of(R))
  BY <1>4
<1>6. Of(R) = C
  OBVIOUS
<1> QED
  BY <1>5, <1>6, Zenon

-----------------------------------------------------------------------------
(* The invariant *)

\* The refinements of both schemas let no empty window into the table.
RowsOK == \A b \in BookingId : table[b] # NoRow => NonEmpty(table[b])

\* While the search is under way, what would be right now is among the answers
\* that it may give; for distinct names, the second query starts only when the
\* first has found them all.
SearchOK ==
  /\ pc = "idle" => ids = {}
  /\ pc \in {"lookUp", "select"} => NonEmpty(search) /\ Meant \in answers
  /\ pc = "select" /\ IsInjective(search.names) => ids = ToSet(search.names)

QInv == TypeOK /\ RowsOK /\ Bookable(table) /\ SearchOK /\ SearchIsAtomic

\* The statement of a transaction of another request.
Others ==
  \/ Tick
  \/ \E b \in BookingId, m \in Room, w \in Slots : Reserve(b, m, w)
  \/ \E b \in BookingId : Cancel(b)
  \/ \E m \in Room, size \in Sizes, names \in SUBSET Name : SaveRoom(m, size, names)

-----------------------------------------------------------------------------
(* Types *)

LEMMA InitQuery == Init => QInv
<1> SUFFICES ASSUME Init PROVE QInv
  OBVIOUS
<1>1. PICK held \in [BookingId -> (Room \X Slots) \cup {NoRow}] :
        table = [b \in BookingId |->
                   IF held[b] = NoRow THEN NoRow
                   ELSE [room |-> held[b][1], start |-> held[b][2].start,
                         end |-> held[b][2].end, status |-> "CONFIRMED"]]
  BY DEF Init
<1>2. ASSUME NEW b \in BookingId
      PROVE  table[b] = NoRow \/ (table[b] \in Row /\ NonEmpty(table[b]))
  <2>1. held[b] = NoRow \/ held[b] \in Room \X Slots
    OBVIOUS
  <2>2. CASE held[b] = NoRow
    BY <1>1, <2>2
  <2>3. CASE held[b] # NoRow
    <3>1. held[b][1] \in Room /\ held[b][2] \in Window /\ NonEmpty(held[b][2])
      BY <2>1, <2>3, SlotsAssumption
    <3>2. table[b] = [room |-> held[b][1], start |-> held[b][2].start,
                      end |-> held[b][2].end, status |-> "CONFIRMED"]
      BY <1>1, <2>3
    <3> QED
      BY <3>1, <3>2 DEF Row, Window, NonEmpty
  <2> QED
    BY <2>2, <2>3
<1>3. table \in [BookingId -> Row \cup {NoRow}] /\ RowsOK
  BY <1>1, <1>2 DEF RowsOK
<1>4. /\ Bookable(table)
      /\ now \in Nat /\ capacity \in [Room -> Nat] /\ known \subseteq Name
      /\ links \in [Room -> SUBSET known] /\ search \in Search
      /\ pc = "idle" /\ ids = {} /\ found = {} /\ answers = {} /\ changes = 0
  BY SizesAssumption, SearchesAssumption DEF Init
<1> QED
  BY <1>3, <1>4 DEF QInv, TypeOK, SearchOK, SearchIsAtomic

LEMMA QueryType ==
  ASSUME TypeOK, Ask \/ Refuse \/ LookUp \/ Select PROVE TypeOK'
<1>1. now' = now /\ changes' = changes /\ search' = search /\ UNCHANGED data
  BY DEF Ask, Refuse, LookUp, Select
<1>2. ids' \subseteq known /\ found' \subseteq Room
  BY DEF Ask, Refuse, LookUp, Select, TypeOK
<1>3. answers' \subseteq SUBSET Room
  BY DEF Ask, Refuse, LookUp, Select, TypeOK, Meant
<1>4. pc' \in {"idle", "lookUp", "select", "done", "refused"}
  BY DEF Ask, Refuse, LookUp, Select, TypeOK
<1> QED
  BY <1>1, <1>2, <1>3, <1>4 DEF TypeOK, data

LEMMA ReserveRows ==
  ASSUME TypeOK, RowsOK, NEW b \in BookingId, NEW m \in Room, NEW w \in Slots,
         Reserve(b, m, w)
  PROVE  table' \in [BookingId -> Row \cup {NoRow}] /\ RowsOK' /\ Bookable(table')
<1> DEFINE new == [room |-> m, start |-> w.start, end |-> w.end, status |-> "CONFIRMED"]
<1>1. table' = [table EXCEPT ![b] = new] /\ w \in Window /\ NonEmpty(w)
  BY SlotsAssumption DEF Reserve
<1>2. new \in Row /\ NonEmpty(new)
  BY <1>1 DEF Row, Window, NonEmpty
<1> HIDE DEF new
<1>3. Bookable(table')
  BY DEF Reserve
<1> QED
  BY <1>1, <1>2, <1>3 DEF TypeOK, RowsOK

LEMMA CancelRows ==
  ASSUME TypeOK, RowsOK, Bookable(table), NEW b \in BookingId, Cancel(b)
  PROVE  table' \in [BookingId -> Row \cup {NoRow}] /\ RowsOK' /\ Bookable(table')
<1> DEFINE new == [table[b] EXCEPT !.status = "CANCELLED"]
<1>1. table' = [table EXCEPT ![b] = new] /\ table[b] # NoRow
  BY DEF Cancel, Confirmed, TypeOK
<1>2. table[b] \in Row /\ NonEmpty(table[b])
  BY <1>1 DEF TypeOK, RowsOK
<1>3. new \in Row /\ NonEmpty(new) /\ ~Confirmed(new)
  BY <1>2 DEF Row, NonEmpty, Confirmed
<1> HIDE DEF new
<1>4. Bookable(table')
  BY <1>1, <1>3 DEF Bookable, TypeOK
<1> QED
  BY <1>1, <1>3, <1>4 DEF TypeOK, RowsOK

LEMMA OthersType ==
  ASSUME TypeOK, RowsOK, Bookable(table), Others
  PROVE  TypeOK' /\ RowsOK' /\ Bookable(table')
<1>1. /\ UNCHANGED <<search, pc, found, ids>> /\ changes' \in Nat
      /\ answers' = IF pc \in {"lookUp", "select"} THEN answers \cup {Meant'} ELSE answers
  BY DEF Others, Tick, Reserve, Cancel, SaveRoom, Change, TypeOK
<1>2. now' \in Nat
  BY DEF Others, Tick, Reserve, Cancel, SaveRoom, TypeOK
<1>3. answers' \subseteq SUBSET Room
  BY <1>1 DEF TypeOK, Meant
<1>4. table' \in [BookingId -> Row \cup {NoRow}] /\ RowsOK' /\ Bookable(table')
  BY ReserveRows, CancelRows DEF Others, Tick, SaveRoom, data, TypeOK, RowsOK
<1>5. /\ capacity' \in [Room -> Nat] /\ known' \subseteq Name
      /\ links' \in [Room -> SUBSET known'] /\ known \subseteq known'
  <2>1. ASSUME NEW m \in Room, NEW size \in Sizes, NEW names \in SUBSET Name,
               SaveRoom(m, size, names)
        PROVE  /\ capacity' \in [Room -> Nat] /\ known' \subseteq Name
               /\ links' \in [Room -> SUBSET known'] /\ known \subseteq known'
    BY <2>1, SizesAssumption DEF SaveRoom, TypeOK
  <2>2. CASE UNCHANGED <<capacity, known, links>>
    BY <2>2 DEF TypeOK
  <2> QED
    BY <2>1, <2>2 DEF Others, Tick, Reserve, Cancel, data
<1> QED
  BY <1>1, <1>2, <1>3, <1>4, <1>5 DEF TypeOK

-----------------------------------------------------------------------------
(* The search *)

\* A list of distinct names has as many names as it is long.
LEMMA DistinctNames ==
  ASSUME NEW s \in Seq(Name)
  PROVE  /\ IsFiniteSet(ToSet(s))
         /\ IsInjective(s) => Cardinality(ToSet(s)) = Len(s)
<1>1. s \in Surjection(1 .. Len(s), ToSet(s))
  BY DEF Surjection, ToSet
<1>2. IsFiniteSet(1 .. Len(s)) /\ Cardinality(1 .. Len(s)) = Len(s)
  <2>1. Len(s) \in Nat
    OBVIOUS
  <2> QED
    BY <2>1, FS_Interval
<1>3. IsInjective(s) => s \in Injection(1 .. Len(s), ToSet(s))
  BY <1>1 DEF Injection, Surjection
<1> QED
  BY <1>1, <1>2, <1>3, FS_Surjection

\* The two queries mean what the user means: the clash of intervals is the
\* sharing of an instant, and counting the links is having all the attributes.
LEMMA QueriesMean ==
  ASSUME TypeOK, RowsOK, NonEmpty(search), ids = ToSet(search.names)
  PROVE  Meant = {m \in Room :
                    /\ search.least <= capacity[m]
                    /\ ~\E b \in BookingId : /\ table[b] # NoRow
                                             /\ table[b].room = m
                                             /\ table[b].status = "CONFIRMED"
                                             /\ Overlap(table[b], search)
                    /\ HasAll(m)}
<1>1. search.start \in Nat /\ search.end \in Nat /\ search.names \in Seq(Name)
  BY DEF TypeOK, Search
<1>2. ASSUME NEW b \in BookingId, table[b] # NoRow
      PROVE  Overlap(table[b], search) <=> ShareInstant(table[b], search)
  <2>1. table[b].start \in Nat /\ table[b].end \in Nat /\ NonEmpty(table[b])
    BY <1>2 DEF TypeOK, Row, RowsOK
  <2> QED
    BY <1>1, <2>1, OverlapIsSharing
<1>3. ASSUME NEW m \in Room PROVE HasAll(m) <=> ToSet(search.names) \subseteq links[m]
  <2>1. IsFiniteSet(ids)
    BY <1>1, DistinctNames
  <2>2. links[m] \cap ids = ids <=> ids \subseteq links[m]
    OBVIOUS
  <2>3. Cardinality(links[m] \cap ids) = Cardinality(ids) => links[m] \cap ids = ids
    BY <2>1, FS_Subset
  <2> QED
    BY <2>2, <2>3 DEF HasAll
<1> QED
  BY <1>2, <1>3 DEF Meant, Confirmed

\* When a distinct name is in no row, no room has it: the early return is right.
LEMMA EarlyReturnIsRight ==
  ASSUME TypeOK, IsInjective(search.names),
         Cardinality(ToSet(search.names) \cap known) < Len(search.names)
  PROVE  Meant = {}
<1>1. /\ IsFiniteSet(ToSet(search.names)) /\ Len(search.names) \in Nat
      /\ Cardinality(ToSet(search.names)) = Len(search.names)
  BY DistinctNames DEF TypeOK, Search
<1>2. ~(ToSet(search.names) \subseteq known)
  <2> SUFFICES ASSUME ToSet(search.names) \subseteq known PROVE FALSE
    OBVIOUS
  <2>1. ToSet(search.names) \cap known = ToSet(search.names)
    OBVIOUS
  <2>2. Cardinality(ToSet(search.names) \cap known) = Len(search.names)
    BY <1>1, <2>1, Zenon
  <2> QED
    BY <1>1, <2>2
<1>3. \A m \in Room : links[m] \subseteq known
  BY DEF TypeOK
<1> QED
  BY <1>2, <1>3 DEF Meant

LEMMA AskSearch == ASSUME QInv, Ask PROVE QInv'
<1>1. TypeOK' /\ UNCHANGED <<data, search, ids, found>> /\ answers' = {Meant}
  BY QueryType DEF QInv, Ask
<1>2. RowsOK' /\ Bookable(table') /\ Meant' = Meant
  BY <1>1 DEF QInv, RowsOK, data, Meant
<1>3. pc' \in {"lookUp", "select"} /\ NonEmpty(search)
  BY DEF Ask, ValidSearch
<1>4. pc' = "select" => search.names = <<>> /\ ids = {}
  BY DEF Ask, QInv, SearchOK
<1>5. pc' = "select" => ids = ToSet(search.names)
  BY <1>4 DEF ToSet
<1> QED
  BY <1>1, <1>2, <1>3, <1>5 DEF QInv, SearchOK, SearchIsAtomic

LEMMA LookUpSearch == ASSUME QInv, LookUp PROVE QInv'
<1>1. /\ TypeOK /\ TypeOK' /\ pc = "lookUp" /\ UNCHANGED <<data, search, answers>>
      /\ NonEmpty(search) /\ Meant \in answers
  BY QueryType DEF QInv, LookUp, SearchOK
<1>2. RowsOK' /\ Bookable(table') /\ Meant' = Meant
  BY <1>1 DEF QInv, RowsOK, data, Meant
<1> DEFINE names == ToSet(search.names)
<1>3. ids' = names \cap known
  BY DEF LookUp
<1>4. CASE Cardinality(ids') < Len(search.names) /\ pc' = "done" /\ found' = {}
  <2>1. IsInjective(search.names) => Meant = {}
    BY <1>1, <1>3, <1>4, EarlyReturnIsRight
  <2> QED
    BY <1>1, <1>2, <1>4, <2>1 DEF QInv, SearchOK, SearchIsAtomic
<1>5. CASE Cardinality(ids') >= Len(search.names) /\ pc' = "select"
  <2>1. ASSUME IsInjective(search.names) PROVE ids' = names
    <3>1. /\ IsFiniteSet(names) /\ Cardinality(names) = Len(search.names)
          /\ Len(search.names) \in Nat
      BY <1>1, <2>1, DistinctNames DEF TypeOK, Search
    <3>2. /\ Cardinality(ids') <= Cardinality(names)
          /\ Cardinality(names) = Cardinality(ids') => names = ids'
      BY <1>3, <3>1, FS_Subset
    <3>3. Cardinality(ids') \in Nat
      BY <1>3, <3>1, FS_Subset, FS_CardinalityType
    <3> QED
      BY <1>5, <3>1, <3>2, <3>3
  <2> QED
    BY <1>1, <1>2, <1>5, <2>1 DEF QInv, SearchOK, SearchIsAtomic
<1> QED
  BY <1>4, <1>5 DEF LookUp

LEMMA SelectSearch == ASSUME QInv, Select PROVE QInv'
<1>1. /\ TypeOK /\ TypeOK' /\ pc = "select" /\ pc' = "done"
      /\ UNCHANGED <<data, search, ids, answers>>
      /\ NonEmpty(search) /\ Meant \in answers /\ RowsOK
      /\ IsInjective(search.names) => ids = ToSet(search.names)
  BY QueryType DEF QInv, Select, SearchOK
<1>2. RowsOK' /\ Bookable(table')
  BY <1>1 DEF QInv, RowsOK, data
<1>3. IsInjective(search.names) => found' = Meant
  BY <1>1, QueriesMean DEF Select
<1> QED
  BY <1>1, <1>2, <1>3 DEF QInv, SearchOK, SearchIsAtomic

LEMMA OthersSearch == ASSUME QInv, Others PROVE QInv'
<1>1. TypeOK' /\ RowsOK' /\ Bookable(table')
  BY OthersType DEF QInv
<1>2. /\ UNCHANGED <<search, pc, found, ids>>
      /\ answers' = IF pc \in {"lookUp", "select"} THEN answers \cup {Meant'} ELSE answers
  BY DEF Others, Tick, Reserve, Cancel, SaveRoom, Change
<1> QED
  BY <1>1, <1>2 DEF QInv, SearchOK, SearchIsAtomic

LEMMA StepQuery == QInv /\ [Next]_vars => QInv'
<1> SUFFICES ASSUME QInv, [Next]_vars PROVE QInv'
  OBVIOUS
<1>1. CASE Refuse
  BY <1>1, QueryType DEF Refuse, QInv, RowsOK, data, SearchOK, SearchIsAtomic
<1>2. CASE UNCHANGED vars
  BY <1>2 DEF vars, data, QInv, TypeOK, RowsOK, SearchOK, SearchIsAtomic, Meant
<1> QED
  BY <1>1, <1>2, AskSearch, LookUpSearch, SelectSearch, OthersSearch DEF Next, Others

LEMMA QueryInvariance == Spec => []QInv
BY InitQuery, StepQuery, PTL DEF Spec

\* Every variable keeps its type, and rooms are linked only with attributes that
\* are in the table.
THEOREM QueriesTypeCorrect == Spec => []TypeOK
BY QueryInvariance, PTL DEF QInv

\* Two queries with the transactions of others between them answer a search for
\* distinct attributes as one query would have at some moment of it.
THEOREM SearchLooksAtomic == Spec => []SearchIsAtomic
BY QueryInvariance, PTL DEF QInv

-----------------------------------------------------------------------------
(* The report *)

LEMMA LengthIsNat ==
  ASSUME TypeOK, RowsOK, NEW b \in BookingId, Confirmed(table[b])
  PROVE  /\ table[b].start \in Nat /\ table[b].end \in Nat
         /\ table[b].start < table[b].end
         /\ Length[b] = table[b].end - table[b].start /\ Length[b] \in Nat
<1>1. table[b] # NoRow /\ table[b] \in Row
  BY DEF Confirmed, TypeOK
<1>2. table[b].start \in Nat /\ table[b].end \in Nat /\ table[b].start < table[b].end
  BY <1>1 DEF Row, RowsOK, NonEmpty
<1>3. Length[b] = table[b].end - table[b].start
  BY <1>1 DEF Length
<1> QED
  BY <1>2, <1>3

\* The rows of a report have the hours of the bookings that it covers.
LEMMA ReportAddsUp ==
  ASSUME TypeOK, RowsOK, NEW from, NEW to
  PROVE  SumFunction([row \in Report(from, to) |-> row.hours])
         = SumFunctionOnSet(Length, {b \in BookingId : Counted(b, from, to)})
<1> DEFINE C == {b \in BookingId : Counted(b, from, to)}
           R == Report(from, to)
           row(b) == [room |-> table[b].room, week |-> WeekOf(table[b]),
                      hours |-> SumFunctionOnSet(Length, Group(b, from, to))]
           grp == [b \in C |-> row(b)]
           h == [r \in R |-> r.hours]
           of == [r \in R |-> {b \in C : grp[b] = r}]
<1>1. IsFiniteSet(C)
  BY BookingsAssumption, FS_Subset
<1>2. \A b \in C : Length[b] \in Nat
  BY LengthIsNat DEF Counted
<1>3. R = {row(b) : b \in C}
  BY DEF Report
<1>4. grp \in [C -> R] /\ \A r \in R : \E b \in C : grp[b] = r
  BY <1>3
<1>5. ASSUME NEW r \in R
      PROVE  h[r] = SumFunctionOnSet(Length, of[r])
  <2>1. PICK a \in C : r = row(a)
    BY <1>3
  <2>2. ASSUME NEW b \in C, row(b) = row(a) PROVE b \in Group(a, from, to)
    <3>1. row(b).room = row(a).room /\ row(b).week = row(a).week
      BY <2>2
    <3>2. table[b].room = table[a].room /\ WeekOf(table[b]) = WeekOf(table[a])
      BY <3>1
    <3> QED
      BY <3>2 DEF Group
  <2>3. ASSUME NEW b \in Group(a, from, to) PROVE b \in C /\ row(b) = row(a)
    <3>1. /\ b \in C /\ table[b].room = table[a].room
          /\ WeekOf(table[b]) = WeekOf(table[a])
      BY <2>3 DEF Group
    <3>2. Group(b, from, to) = Group(a, from, to)
      BY <3>1 DEF Group
    <3> QED
      BY <3>1, <3>2, Zenon
  <2>4. {b \in C : grp[b] = r} = Group(a, from, to)
    <3>1. Group(a, from, to) \subseteq C
      BY <2>3
    <3>2. \A b \in C : grp[b] = r <=> b \in Group(a, from, to)
      BY <2>1, <2>2, <2>3
    <3> QED
      BY <3>1, <3>2
  <2>5. h[r] = SumFunctionOnSet(Length, Group(a, from, to))
    BY <2>1
  <2>6. of[r] = Group(a, from, to)
    BY <2>4
  <2> QED
    BY <2>5, <2>6, Zenon
<1>6. of \in [R -> SUBSET C] /\ \A r \in R, b \in C : b \in of[r] <=> grp[b] = r
  OBVIOUS
<1>7. SumFunctionOnSet(h, R) = SumFunctionOnSet(Length, C)
  <2> HIDE DEF C, R, grp, h, of
  <2> QED
    BY <1>1, <1>2, <1>4, <1>5, <1>6, SumByGroups
<1>8. SumFunction(h) = SumFunctionOnSet(h, DOMAIN h) /\ DOMAIN h = R
  BY DEF SumFunction
<1> QED
  BY <1>7, <1>8, Zenon

\* Division by a day, or by a week.
LEMMA DivisionBounds ==
  ASSUME NEW x \in Nat, NEW d \in Nat \ {0}
  PROVE  x \div d \in Nat /\ (x \div d) * d <= x /\ x < (x \div d) * d + d
OBVIOUS

LEMMA Multiples ==
  ASSUME NEW p \in Nat, NEW q \in Nat, NEW d \in Nat \ {0}
  PROVE  p * d \in Nat /\ (p < q => p * d + d <= q * d)
OBVIOUS

LEMMA DayOf ==
  ASSUME NEW x \in Nat, NEW first \in Nat, NEW last \in Nat
  PROVE  first * Day <= x /\ x < (last + 1) * Day <=> x \div Day \in first .. last
<1> DEFINE q == x \div Day
<1>1. q \in Nat /\ q * Day <= x /\ x < q * Day + Day /\ q * Day \in Nat /\ Day \in Nat
  BY DivisionBounds, Multiples, CalendarAssumption
<1>2. /\ q < first => q * Day + Day <= first * Day
      /\ first < q => first * Day + Day <= q * Day
      /\ q < last + 1 => q * Day + Day <= (last + 1) * Day
      /\ last + 1 < q => (last + 1) * Day + Day <= q * Day
      /\ first * Day \in Nat /\ (last + 1) * Day \in Nat
  <2> HIDE DEF q
  <2> QED
    BY <1>1, Multiples, CalendarAssumption
<1>3. /\ q = first => q * Day = first * Day
      /\ q = last + 1 => q * Day = (last + 1) * Day
  OBVIOUS
<1> DEFINE a == first * Day
           z == (last + 1) * Day
           k == q * Day
<1> HIDE DEF q, a, z, k
<1>4. first * Day <= x <=> first <= q
  BY <1>1, <1>2, <1>3 DEF a, k
<1>5. x < (last + 1) * Day <=> q <= last
  BY <1>1, <1>2, <1>3 DEF z, k
<1> QED
  BY <1>1, <1>4, <1>5 DEF q

\* Reports count every confirmed booking that begins on a day picked, once and
\* whole.
THEOREM DaysOfReportAddUp == Spec => []DaysAddUp
<1>1. QInv => DaysAddUp
  <2> SUFFICES ASSUME QInv, NEW first \in 0 .. LastDay, NEW last \in 0 .. LastDay,
                      first <= last
               PROVE  SumFunction([row \in DaysReport(first, last) |-> row.hours])
                      = SumFunctionOnSet(Length, {b \in BookingId :
                                    /\ Confirmed(table[b])
                                    /\ table[b].start \div Day \in first .. last})
    BY DEF DaysAddUp
  <2> DEFINE from == first * Day
             to == (last + 1) * Day
  <2>1. first \in Nat /\ last \in Nat
    OBVIOUS
  <2>2. DaysReport(first, last) = Report(from, to)
    <3>1. first * Day + Day <= (last + 1) * Day /\ first * Day \in Nat
          /\ (last + 1) * Day \in Nat
      BY <2>1, Multiples, CalendarAssumption
    <3>2. first * Day < (last + 1) * Day
      BY <3>1, CalendarAssumption
    <3> QED
      BY <3>2 DEF DaysReport
  <2>3. {b \in BookingId : Counted(b, from, to)}
        = {b \in BookingId : /\ Confirmed(table[b])
                             /\ table[b].start \div Day \in first .. last}
    <3>1. ASSUME NEW b \in BookingId, Confirmed(table[b])
          PROVE  Counted(b, from, to) <=> table[b].start \div Day \in first .. last
      <4>1. table[b].start \in Nat
        BY <3>1, LengthIsNat DEF QInv
      <4> QED
        BY <2>1, <3>1, <4>1, DayOf DEF Counted
    <3>2. \A b \in BookingId : Counted(b, from, to) => Confirmed(table[b])
      BY DEF Counted
    <3> QED
      BY <3>1, <3>2
  <2>4. SumFunction([row \in Report(from, to) |-> row.hours])
        = SumFunctionOnSet(Length, {b \in BookingId : Counted(b, from, to)})
    BY ReportAddsUp DEF QInv
  <2>5. [row \in DaysReport(first, last) |-> row.hours]
        = [row \in Report(from, to) |-> row.hours]
    BY <2>2
  <2> HIDE DEF from, to
  <2> QED
    BY <2>3, <2>4, <2>5, Zenon
<1> QED
  BY <1>1, QueryInvariance, PTL

\* One of the bookings of a group begins last.
LEMMA LastToBegin ==
  ASSUME TypeOK, RowsOK, NEW G \in SUBSET BookingId, G # {},
         \A b \in G : Confirmed(table[b])
  PROVE  \E b \in G : \A c \in G : table[c].start <= table[b].start
<1> DEFINE B == {s \in SUBSET G :
                   s # {} /\ ~\E b \in s : \A c \in s : table[c].start <= table[b].start}
<1>1. \A b \in G : table[b].start \in Nat
  BY LengthIsNat
<1>2. IsFiniteSet(G)
  BY BookingsAssumption, FS_Subset
<1>3. B = {}
  <2> SUFFICES ASSUME B # {} PROVE FALSE
    OBVIOUS
  <2>1. PICK s \in B : \A u \in B : u \subseteq s => u = s
    <3>1. B \subseteq SUBSET G
      OBVIOUS
    <3> HIDE DEF B
    <3> QED
      BY <1>2, <3>1, SmallestSet
  <2>2. PICK y : y \in s
    BY <2>1
  <2> DEFINE u == s \ {y}
  <2>3. CASE u = {}
    <3>1. \A c \in s : c = y
      BY <2>3
    <3> QED
      BY <1>1, <2>1, <2>2, <3>1
  <2>4. CASE u # {}
    <3>1. u \in SUBSET G /\ u \notin B
      BY <2>1, <2>2
    <3>2. PICK b \in u : \A c \in u : table[c].start <= table[b].start
      BY <2>4, <3>1
    <3>3. \A c \in s : c \in u \/ c = y
      OBVIOUS
    <3>4. \A c \in s : c \in G
      BY <2>1
    <3>5. CASE table[y].start <= table[b].start
      BY <2>1, <3>2, <3>3, <3>5
    <3>6. CASE ~(table[y].start <= table[b].start)
      <4>1. \A c \in s : table[c].start <= table[y].start
        BY <1>1, <2>2, <3>2, <3>3, <3>4, <3>6
      <4> QED
        BY <2>1, <2>2, <4>1
    <3> QED
      BY <3>5, <3>6
  <2> QED
    BY <2>3, <2>4
<1> QED
  BY <1>3

\* Bookings that do not overlap last no longer in all than from the first
\* instant to the end of one of them.
LEMMA PackedHours ==
  ASSUME TypeOK, RowsOK, NEW G \in SUBSET BookingId, G # {}, NEW from \in Nat,
         \A b \in G : Confirmed(table[b]) /\ from <= table[b].start,
         \A b, c \in G : b # c => ~Overlap(table[b], table[c])
  PROVE  \E b \in G : SumFunctionOnSet(Length, G) <= table[b].end - from
<1> DEFINE Sum(s) == SumFunctionOnSet(Length, s)
           B == {s \in SUBSET G : s # {} /\ ~\E b \in s : Sum(s) <= table[b].end - from}
<1>1. \A b \in G : /\ table[b].start \in Nat /\ table[b].end \in Nat
                   /\ table[b].start < table[b].end
                   /\ Length[b] = table[b].end - table[b].start /\ Length[b] \in Nat
  BY LengthIsNat
<1>2. IsFiniteSet(G)
  BY BookingsAssumption, FS_Subset
<1>3. B = {}
  <2> SUFFICES ASSUME B # {} PROVE FALSE
    OBVIOUS
  <2>1. PICK s \in B : \A u \in B : u \subseteq s => u = s
    <3>1. B \subseteq SUBSET G
      OBVIOUS
    <3> HIDE DEF B
    <3> QED
      BY <1>2, <3>1, SmallestSet
  <2>2. s \in SUBSET G /\ s # {} /\ IsFiniteSet(s)
    BY <1>2, <2>1, FS_Subset
  <2>3. PICK b \in s : \A c \in s : table[c].start <= table[b].start
    BY <2>2, LastToBegin
  <2> DEFINE u == s \ {b}
             k == Sum(u)
  <2>4. Sum(s) = Length[b] + k
    BY <1>1, <2>2, SumRemove
  <2>5. b \in G /\ from <= table[b].start
    BY <2>2
  <2>6. k <= table[b].start - from /\ k \in Nat
    <3>1. CASE u = {}
      <4>1. k = 0
        BY <3>1, SumEmpty, Zenon
      <4> HIDE DEF k
      <4> QED
        BY <1>1, <2>5, <4>1
    <3>2. CASE u # {}
      <4>1. u \in SUBSET G /\ u \notin B /\ IsFiniteSet(u)
        BY <2>1, <2>2, FS_Subset
      <4>2. PICK c \in u : k <= table[c].end - from
        BY <3>2, <4>1
      <4>3. c \in G /\ c # b /\ table[c].start <= table[b].start
        BY <2>2, <2>3
      <4>4. ~Overlap(table[c], table[b])
        BY <2>5, <4>3
      <4>5. table[c].end <= table[b].start
        BY <1>1, <2>5, <4>3, <4>4 DEF Overlap
      <4>6. k \in Nat
        BY <1>1, <4>1, SumType
      <4> HIDE DEF k
      <4> QED
        BY <1>1, <2>5, <4>2, <4>3, <4>5, <4>6
    <3> QED
      BY <3>1, <3>2
  <2>7. Sum(s) <= table[b].end - from
    <3> HIDE DEF k
    <3> QED
      BY <1>1, <2>4, <2>5, <2>6
  <2> QED
    BY <2>1, <2>7
<1> QED
  BY <1>3

\* A week of a room is as long as it is: no time in it is reported twice.
THEOREM ReportedHoursFit == Spec => []HoursFit
<1>1. QInv => HoursFit
  <2> SUFFICES ASSUME QInv, NEW row \in Report(0, (LastDay + 1) * Day)
               PROVE  \E b \in BookingId :
                        /\ Confirmed(table[b])
                        /\ table[b].room = row.room /\ WeekOf(table[b]) = row.week
                        /\ row.hours <= table[b].end - row.week * Week
    BY DEF HoursFit
  <2> DEFINE to == (LastDay + 1) * Day
  <2>1. TypeOK /\ RowsOK /\ Bookable(table)
    BY DEF QInv
  <2>2. PICK a \in BookingId :
          /\ Counted(a, 0, to)
          /\ row = [room |-> table[a].room, week |-> WeekOf(table[a]),
                    hours |-> SumFunctionOnSet(Length, Group(a, 0, to))]
    BY DEF Report
  <2> DEFINE G == Group(a, 0, to)
  <2>3. /\ row.room = table[a].room /\ row.week = WeekOf(table[a])
        /\ row.hours = SumFunctionOnSet(Length, G)
    BY <2>2
  <2>4. G \in SUBSET BookingId /\ a \in G
    BY <2>2 DEF Group
  <2>5. ASSUME NEW b \in G
        PROVE  /\ Confirmed(table[b]) /\ table[b].room = row.room
               /\ WeekOf(table[b]) = row.week /\ row.week \in Nat
               /\ row.week * Week <= table[b].start
    <3>1. /\ Confirmed(table[b]) /\ table[b].room = row.room
          /\ WeekOf(table[b]) = row.week
      BY <2>3, <2>5 DEF Group, Counted
    <3>2. table[b].start \in Nat
      BY <2>1, <2>4, <3>1, LengthIsNat
    <3> QED
      BY <3>1, <3>2, DivisionBounds, CalendarAssumption DEF WeekOf
  <2>6. \A b, c \in G : b # c => ~Overlap(table[b], table[c])
    BY <2>1, <2>4, <2>5 DEF Bookable
  <2>7. row.week * Week \in Nat
    BY <2>4, <2>5, Multiples, CalendarAssumption
  <2> DEFINE from == row.week * Week
  <2>8. \E b \in G : SumFunctionOnSet(Length, G) <= table[b].end - from
    <3>1. G # {} /\ from \in Nat /\ \A b \in G : Confirmed(table[b]) /\ from <= table[b].start
      BY <2>4, <2>5, <2>7
    <3> HIDE DEF G, from
    <3> QED
      BY <2>1, <2>4, <2>6, <3>1, PackedHours
  <2> QED
    BY <2>3, <2>4, <2>5, <2>8
<1> QED
  BY <1>1, QueryInvariance, PTL

====
