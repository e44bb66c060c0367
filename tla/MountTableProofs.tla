---------------------------- MODULE MountTableProofs ----------------------------
(***************************************************************************)
(* What is written can be read: the text of an entry gives the entry back, *)
(* for every device, directory and options, and a file the numbers of a    *)
(* list.                                                                   *)
(*                                                                         *)
(* MountTable computes with folds over a text.  The value of a fold is     *)
(* what a CHOOSE picks; here it is shown to be the last of a run, which    *)
(* has a state after each character, and a run is reasoned about by        *)
(* induction.  Induct is induction over a set, since the provers cannot    *)
(* instantiate a theorem whose parameter is an operator.                   *)
(***************************************************************************)
EXTENDS Parts, Sequences, WellFoundedInduction, SequenceTheorems, TLAPS

-----------------------------------------------------------------------------
(* Induction, and folds *)

\* A set of numbers has a least one.
LEMMA Least == ASSUME NEW A \in SUBSET Nat, A # {} PROVE \E n \in A : \A m \in A : n <= m
<1> DEFINE R == OpToRel(<, Nat)
<1>1. IsWellFoundedOn(R, Nat) BY NatLessThanWellFounded
<1>2. \E x \in A : \A y \in A : ~(<<y, x>> \in R) 
  <2> HIDE DEF R
  <2> QED BY <1>1, WFMin
<1>3. PICK x \in A : \A y \in A : ~(<<y, x>> \in R) BY <1>2
<1>4. \A y \in A : ~(<<y, x>> \in R) <=> x <= y
  BY DEF OpToRel
<1> QED BY <1>3, <1>4

\* Induction: a set that has 0, and each number's successor, has all numbers.
LEMMA Induct == ASSUME NEW A, 0 \in A, \A n \in Nat : n \in A => n + 1 \in A PROVE \A n \in Nat : n \in A
<1> SUFFICES ASSUME Nat \ A # {} PROVE FALSE OBVIOUS
<1>1. PICK n \in Nat \ A : \A m \in Nat \ A : n <= m BY Least
<1>2. n # 0 BY <1>1
<1>3. n - 1 \in Nat /\ n - 1 \in A BY <1>1, <1>2
<1>4. n - 1 + 1 = n BY <1>1
<1> QED BY <1>3, <1>4

LEMMA LastIsMax ==
    ASSUME NEW n \in Nat, NEW d \in SUBSET (1..n + 1), n + 1 \in d
    PROVE T!Max(d) = n + 1
<1>1. \A x \in d : (\A y \in d : x >= y) <=> x = n + 1 OBVIOUS
<1>2. \A x : (x \in d /\ \A y \in d : x >= y) <=> x = n + 1 BY <1>1
<1>3. T!Max(d) = CHOOSE x : x \in d /\ \A y \in d : x >= y BY Zenon DEF T!Max
<1> QED BY <1>2, <1>3

\* g is what a fold of s chooses from, for each part of the domain.
Folds(g, St, base, step, s) ==
    /\ g \in [SUBSET (1..Len(s)) -> St]
    /\ \A d \in SUBSET (1..Len(s)) :
          g[d] = IF d = {} THEN base ELSE step[g[d \ {T!Max(d)}]][s[T!Max(d)]]

\* What a fold chooses exists: it is built up with the domain.
LEMMA FoldExists ==
    ASSUME NEW St, NEW Ch, NEW base \in St, NEW step \in [St -> [Ch -> St]], NEW s \in Seq(Ch)
    PROVE \E g : Folds(g, St, base, step, s)
<1> DEFINE Upto(g, m) == \A d \in SUBSET (1..m) :
                    g[d] = IF d = {} THEN base
                           ELSE step[g[d \ {T!Max(d)}]][s[T!Max(d)]]
           P(m) == m <= Len(s) => \E g \in [SUBSET (1..m) -> St] : Upto(g, m)
<1>1. P(0)
  <2>1. SUBSET (1..0) = {{}} OBVIOUS
  <2>2. [d \in SUBSET (1..0) |-> base] \in [SUBSET (1..0) -> St] OBVIOUS
  <2>3. Upto([d \in SUBSET (1..0) |-> base], 0) BY <2>1
  <2> QED BY <2>2, <2>3
<1>2. ASSUME NEW n \in Nat, P(n) PROVE P(n + 1)
  <2> SUFFICES ASSUME n + 1 <= Len(s) PROVE \E g \in [SUBSET (1..n + 1) -> St] : Upto(g, n + 1)
    OBVIOUS
  <2>1. PICK g \in [SUBSET (1..n) -> St] : Upto(g, n)
    <3>1. n <= Len(s) OBVIOUS
    <3> HIDE DEF Upto
    <3> QED BY <1>2, <3>1
  <2> DEFINE h == [d \in SUBSET (1..n + 1) |->
                     IF n + 1 \in d THEN step[g[d \ {n + 1}]][s[n + 1]] ELSE g[d]]
  <2>2. \A d \in SUBSET (1..n + 1) : d \ {n + 1} \in SUBSET (1..n)
    <3>1. 1..n + 1 = (1..n) \union {n + 1} OBVIOUS
    <3> QED BY <3>1, Zenon
  <2>3. \A d \in SUBSET (1..n + 1) : n + 1 \notin d => d \in SUBSET (1..n)
    <3>1. 1..n + 1 = (1..n) \union {n + 1} OBVIOUS
    <3> QED BY <3>1, Zenon
  <2>4. s[n + 1] \in Ch
    <3>1. n + 1 \in 1..Len(s) OBVIOUS
    <3> QED BY <3>1
  <2>5. h \in [SUBSET (1..n + 1) -> St]
    <3>1. ASSUME NEW d \in SUBSET (1..n + 1) PROVE h[d] \in St
      <4>1. g[d \ {n + 1}] \in St BY <2>2
      <4>2. step[g[d \ {n + 1}]][s[n + 1]] \in St
        <5> DEFINE x == g[d \ {n + 1}]
                   c == s[n + 1]
        <5>1. x \in St /\ c \in Ch BY <4>1, <2>4
        <5> HIDE DEF x, c, h, P, Upto
        <5>2. step[x] \in [Ch -> St] BY <5>1
        <5>3. step[x][c] \in St BY <5>1, <5>2
        <5> QED BY <5>3 DEF x, c
      <4> QED BY <2>3, <4>2
    <3> QED BY <3>1
  <2>6. ASSUME NEW d \in SUBSET (1..n + 1), n + 1 \in d
        PROVE h[d] = step[h[d \ {T!Max(d)}]][s[T!Max(d)]]
    <3>1. T!Max(d) = n + 1 BY <2>6, LastIsMax
    <3>2. h[d \ {n + 1}] = g[d \ {n + 1}] BY <2>2
    <3> QED BY <3>1, <3>2, <2>6
  <2>7. ASSUME NEW d \in SUBSET (1..n + 1), n + 1 \notin d
        PROVE h[d] = IF d = {} THEN base ELSE step[h[d \ {T!Max(d)}]][s[T!Max(d)]]
    <3>1. d \in SUBSET (1..n) BY <2>3, <2>7
    <3>2. h[d] = g[d] BY <2>7
    <3>3. h[d \ {T!Max(d)}] = g[d \ {T!Max(d)}] BY <2>7
    <3> QED BY <2>1, <3>1, <3>2, <3>3
  <2>8. Upto(h, n + 1) BY <2>6, <2>7
  <2> QED BY <2>5, <2>8
<1>3. \A n \in Nat : P(n)
  <2> HIDE DEF P
  <2> DEFINE A == {n \in Nat : P(n)}
  <2>1. 0 \in A BY <1>1
  <2>2. \A n \in Nat : n \in A => n + 1 \in A BY <1>2
  <2>3. \A n \in Nat : n \in A
    <3> HIDE DEF A
    <3> QED BY <2>1, <2>2, Induct
  <2> QED BY <2>3
<1>4. Len(s) \in Nat /\ DOMAIN s = 1..Len(s) OBVIOUS
<1>5. \E g \in [SUBSET (1..Len(s)) -> St] : Upto(g, Len(s))
  <2>1. P(Len(s)) BY <1>3, <1>4
  <2>2. Len(s) <= Len(s) BY <1>4
  <2> HIDE DEF Upto
  <2> QED BY <2>1, <2>2
<1> QED BY <1>5 DEF Folds

\* A set of positions has a last one.
LEMMA Greatest ==
    ASSUME NEW n \in Nat, NEW d \in SUBSET (1..n), d # {}
    PROVE \E x \in d : \A y \in d : y <= x
<1> DEFINE A == {m \in Nat : n - m \in d}
<1>1. A # {}
  <2>1. PICK x \in d : TRUE OBVIOUS
  <2>2. n - x \in Nat /\ n - (n - x) = x OBVIOUS
  <2> QED BY <2>2
<1>2. PICK m \in A : \A k \in A : m <= k
  <2> HIDE DEF A
  <2>1. A \in SUBSET Nat BY DEF A
  <2> QED BY <1>1, <2>1, Least
<1>3. ASSUME NEW y \in d PROVE y <= n - m
  <2>1. n - y \in Nat /\ n - (n - y) = y OBVIOUS
  <2>2. n - y \in A BY <2>1
  <2>3. m \in Nat /\ m <= n - y BY <1>2, <2>2
  <2> QED BY <2>1, <2>3
<1> QED BY <1>3

LEMMA MaxIn ==
    ASSUME NEW n \in Nat, NEW d \in SUBSET (1..n), d # {}
    PROVE T!Max(d) \in d
<1>1. PICK x \in d : \A y \in d : y <= x BY Greatest
<1>2. \E z \in d : \A y \in d : z >= y
  <2>1. \A y \in d : x >= y BY <1>1
  <2> QED BY <2>1
<1> QED BY <1>2, Zenon DEF T!Max

\* f grows by a step with each character of s.
Unrolls(f, St, step, s) ==
    \A k \in 1..Len(s) : f[1..k - 1] \in St => f[1..k] = step[f[1..k - 1]][s[k]]

\* r is what a fold has after each character of s, and its last what f has.
Runs(r, St, base, step, s, f) ==
    /\ r \in [0..Len(s) -> St]
    /\ r[0] = base /\ r[Len(s)] = f[DOMAIN s]
    /\ \A k \in 1..Len(s) : r[k] = step[r[k - 1]][s[k]]

\* A run starts with the base and takes the step of each character.
LEMMA FoldRun ==
    ASSUME NEW St, NEW Ch, NEW base \in St, NEW step \in [St -> [Ch -> St]], NEW s \in Seq(Ch),
           NEW f, f[{}] = base, Unrolls(f, St, step, s)
    PROVE \E r : Runs(r, St, base, step, s, f)
<1> DEFINE n == Len(s)
           r == [k \in 0..n |-> f[1..k]]
<1>1. n \in Nat /\ DOMAIN s = 1..n /\ \A k \in 1..n : s[k] \in Ch OBVIOUS
<1>2. r[0] = base
  <2>1. 1..0 = {} OBVIOUS
  <2> QED BY <1>1, <2>1
<1>3. r[n] = f[DOMAIN s] BY <1>1
<1>4. ASSUME NEW k \in 1..n, r[k - 1] \in St PROVE r[k] = step[r[k - 1]][s[k]]
  <2>1. k \in 0..n /\ k - 1 \in 0..n BY <1>1
  <2>2. f[1..k - 1] \in St BY <1>4, <2>1
  <2> QED BY <2>1, <2>2 DEF Unrolls
<1> HIDE DEF r
<1>5. \A k \in 0..n : r[k] \in St
  <2> DEFINE A == {k \in Nat : k <= n => r[k] \in St}
  <2>1. 0 \in A BY <1>2
  <2>2. ASSUME NEW k \in Nat, k \in A PROVE k + 1 \in A
    <3>1. CASE k + 1 <= n
      <4>1. k + 1 \in 1..n /\ (k + 1) - 1 = k /\ k <= n
        <5> HIDE DEF n
        <5> QED BY <3>1, <1>1
      <4>2. r[k] \in St BY <2>2, <4>1
      <4>3. r[k + 1] = step[r[k]][s[k + 1]] BY <1>4, <4>1, <4>2
      <4>4. s[k + 1] \in Ch BY <1>1, <4>1
      <4> QED BY <4>2, <4>3, <4>4
    <3> QED BY <3>1
  <2>3. \A k \in Nat : k \in A
    <3> HIDE DEF A
    <3> QED BY <2>1, <2>2, Induct
  <2> QED BY <2>3
<1>6. r \in [0..n -> St] BY <1>5 DEF r
<1>7. \A k \in 1..n : r[k] = step[r[k - 1]][s[k]]
  <2>1. \A k \in 1..n : k - 1 \in 0..n BY <1>1
  <2> QED BY <1>4, <1>5, <2>1
<1> QED BY <1>2, <1>3, <1>6, <1>7 DEF Runs

\* The greatest of the first k positions is the last.
LEMMA UptoIs ==
    ASSUME NEW n \in Nat, NEW k \in 1..n
    PROVE /\ 1..k \in SUBSET (1..n) /\ 1..k # {}
          /\ T!Max(1..k) = k /\ (1..k) \ {k} = 1..k - 1
<1>1. k - 1 \in Nat /\ (k - 1) + 1 = k /\ k \in 1..k /\ k \in Nat OBVIOUS
<1>2. T!Max(1..k) = k BY <1>1, LastIsMax
<1> QED BY <1>1, <1>2

-----------------------------------------------------------------------------
(* unescape() *)

Byte == 0..255
State == [buf : Seq(Byte), octal : 0..3, code : Byte]
Start == [buf |-> <<>>, octal |-> 0, code |-> 0]

\* unescape() keeps a buffer of bytes: an octal number is taken modulo 256.
LEMMA TakeTyped == ASSUME NEW state \in State, NEW c \in Byte PROVE T!Take(state, c) \in State
<1> DEFINE val == (8 * state.code + 256 + c - 48) % 256
<1>1. val \in Byte
  <2>1. state.code \in 0..255 /\ c \in 0..255 BY DEF State, Byte
  <2>2. 8 * state.code + 256 + c - 48 \in Nat BY <2>1
  <2> QED BY <2>2 DEF Byte
<1> HIDE DEF val
<1>2. Append(state.buf, c) \in Seq(Byte) /\ Append(state.buf, val) \in Seq(Byte)
  BY <1>1 DEF State
<1>3. T!Take(state, c) =
        IF state.octal = 0
        THEN IF c = T!Backslash THEN [state EXCEPT !.octal = 1, !.code = 0]
             ELSE [state EXCEPT !.buf = Append(@, c)]
        ELSE IF state.octal < 3 THEN [state EXCEPT !.octal = @ + 1, !.code = val]
             ELSE [state EXCEPT !.octal = 0, !.buf = Append(@, val)]
  BY DEF T!Take, T!Zero, val
<1>4. 0 \in Byte BY DEF Byte
<1>5. state.octal < 3 => state.octal + 1 \in 0..3 BY DEF State
<1>6. \A z \in State, x \in Seq(Byte) : [z EXCEPT !.buf = x] \in State BY DEF State
<1>7. \A z \in State : [z EXCEPT !.octal = 0] \in State /\ [z EXCEPT !.octal = 1] \in State
  BY DEF State
<1>8. \A z \in State, x \in Byte : [z EXCEPT !.code = x] \in State BY DEF State
<1>9. [state EXCEPT !.octal = 1, !.code = 0] \in State BY <1>4, <1>7, <1>8
<1>10. [state EXCEPT !.buf = Append(@, c)] \in State BY <1>2, <1>6
<1>11. state.octal < 3 => [state EXCEPT !.octal = @ + 1, !.code = val] \in State
  <2>1. state.octal < 3 => [state EXCEPT !.octal = @ + 1] \in State BY <1>5 DEF State
  <2> QED BY <1>1, <1>8, <2>1
<1>12. [state EXCEPT !.octal = 0, !.buf = Append(@, val)] \in State
  <2>1. [state EXCEPT !.octal = 0] \in State BY <1>7
  <2>2. [state EXCEPT !.octal = 0].buf = state.buf BY DEF State
  <2> QED BY <1>2, <1>6, <2>1, <2>2
<1> QED BY <1>3, <1>9, <1>10, <1>11, <1>12

\* r is what unescape() has after each character of s.
Unescapes(r, s) ==
    r[0] = Start /\ \A k \in 1..Len(s) : r[k] = T!Take(r[k - 1], s[k])

\* unescape() is a run: one step for each character.
LEMMA UnescapeRun ==
    ASSUME NEW s \in Seq(Byte)
    PROVE \E r \in [0..Len(s) -> State] : Unescapes(r, s) /\ T!unescape(s) = r[Len(s)].buf
<1> DEFINE D == DOMAIN s
           Eq(f) == f = [d \in SUBSET D |-> IF d = {} THEN Start
                           ELSE LET x == T!Max(d) IN T!Take(f[d \ {x}], s[x])]
           step == [state \in State |-> [c \in Byte |-> T!Take(state, c)]]
           n == Len(s)
<1>0. D = 1..n /\ n \in Nat OBVIOUS
<1>1. step \in [State -> [Byte -> State]] BY TakeTyped
<1>2. Start \in State BY DEF Start, State, Byte
<1>3. \E f : Eq(f)
  <2> HIDE DEF step
  <2>1. PICK g : Folds(g, State, Start, step, s)
    <3> HIDE DEF Start
    <3> QED BY <1>1, <1>2, FoldExists
  <2>2. ASSUME NEW d \in SUBSET D, d # {}
        PROVE g[d] = T!Take(g[d \ {T!Max(d)}], s[T!Max(d)])
    <3>1. T!Max(d) \in D BY <1>0, <2>2, MaxIn
    <3>2. s[T!Max(d)] \in Byte BY <3>1
    <3>3. g[d \ {T!Max(d)}] \in State BY <1>0, <2>1 DEF Folds
    <3>4. g[d] = step[g[d \ {T!Max(d)}]][s[T!Max(d)]] BY <1>0, <2>1, <2>2 DEF Folds
    <3> QED BY <3>2, <3>3, <3>4 DEF step
  <2>3. Eq(g) BY <1>0, <2>1, <2>2 DEF Folds
  <2> QED BY <2>3
<1> DEFINE f == CHOOSE f : Eq(f)
<1>4. Eq(f) BY <1>3
<1>5. T!unescape(s) = f[D].buf
  <2>1. T!unescape(s) = T!FoldLeft(T!Take, Start, s).buf BY Zenon DEF T!unescape, Start
  <2>2. T!FoldLeft(T!Take, Start, s) =
        T!MapThenFoldSet(LAMBDA x, y : T!Take(y, x), Start, LAMBDA i : s[i],
                         LAMBDA d : T!Max(d), DOMAIN s)
    BY Zenon DEF T!FoldLeft
  <2>3. T!MapThenFoldSet(LAMBDA x, y : T!Take(y, x), Start, LAMBDA i : s[i],
                         LAMBDA d : T!Max(d), DOMAIN s) = f[D]
    BY Zenon DEF T!MapThenFoldSet
  <2> QED BY <2>1, <2>2, <2>3
<1>6. f[{}] = Start BY <1>4
<1> HIDE DEF f, D
<1>7. ASSUME NEW k \in 1..n, f[1..k - 1] \in State PROVE f[1..k] = step[f[1..k - 1]][s[k]]
  <2>1. 1..k \in SUBSET D /\ 1..k # {} /\ T!Max(1..k) = k /\ (1..k) \ {k} = 1..k - 1
    BY <1>0, UptoIs
  <2>2. f[1..k] = T!Take(f[(1..k) \ {k}], s[k]) BY <1>4, <2>1
  <2>3. s[k] \in Byte BY <1>0
  <2> QED BY <1>7, <2>1, <2>2, <2>3
<1> HIDE DEF step
<1>8. PICK r : Runs(r, State, Start, step, s, f)
  <2>1. Unrolls(f, State, step, s) BY <1>7 DEF Unrolls
  <2> HIDE DEF Start, n
  <2> QED BY <1>1, <1>2, <1>6, <2>1, FoldRun
<1>9. \A k \in 1..n : r[k] = T!Take(r[k - 1], s[k])
  <2> SUFFICES ASSUME NEW k \in 1..n PROVE r[k] = T!Take(r[k - 1], s[k]) OBVIOUS
  <2>1. k - 1 \in 0..n /\ s[k] \in Byte BY <1>0
  <2>2. r[k - 1] \in State BY <1>8, <2>1 DEF Runs
  <2> QED BY <1>8, <2>1, <2>2 DEF Runs, step
<1>10. r \in [0..n -> State] /\ r[0] = Start /\ r[n] = f[D] BY <1>8 DEF Runs, D
<1> QED BY <1>5, <1>9, <1>10 DEF Unescapes

\* r is what split() has after each character of s: the fields before the last
\* and what there is of the last.
Splits(r, s) ==
    r[0] = << <<>> >> /\ \A k \in 1..Len(s) : r[k] = T!Cut(r[k - 1], s[k])

Started == {p \in Seq(Seq(Byte)) : Len(p) # 0}

\* split() has a field of bytes under way at any time.
LEMMA CutTyped == ASSUME NEW p \in Started, NEW c \in Byte PROVE T!Cut(p, c) \in Started
<1>1. Len(p) \in Nat /\ Len(p) \in DOMAIN p /\ p[Len(p)] \in Seq(Byte) /\ p \in Seq(Seq(Byte))
  BY DEF Started
<1>2. Append(p[Len(p)], c) \in Seq(Byte) BY <1>1
<1>3. ASSUME NEW x \in Seq(Byte) PROVE [p EXCEPT ![Len(p)] = x] \in Started
  <2>1. /\ [p EXCEPT ![Len(p)] = x] \in Seq(Seq(Byte))
        /\ Len([p EXCEPT ![Len(p)] = x]) = Len(p)
    BY <1>1, ExceptSeq
  <2> QED BY <2>1 DEF Started
<1>4. Append(p, <<>>) \in Started
  <2>1. <<>> \in Seq(Byte) OBVIOUS
  <2>2. Append(p, <<>>) \in Seq(Seq(Byte)) /\ Len(Append(p, <<>>)) = Len(p) + 1 BY <1>1, <2>1
  <2> QED BY <1>1, <2>2 DEF Started
<1> QED BY <1>2, <1>3, <1>4 DEF T!Cut, T!Last

\* split() is a run: one step for each character.
LEMMA SplitRun ==
    ASSUME NEW s \in Seq(Byte)
    PROVE \E r \in [0..Len(s) -> Started] : Splits(r, s) /\ T!Split(s) = r[Len(s)]
<1> DEFINE D == DOMAIN s
           First == << <<>> >>
           Eq(f) == f = [d \in SUBSET D |-> IF d = {} THEN First
                           ELSE LET x == T!Max(d) IN T!Cut(f[d \ {x}], s[x])]
           step == [p \in Started |-> [c \in Byte |-> T!Cut(p, c)]]
           n == Len(s)
<1>0. D = 1..n /\ n \in Nat OBVIOUS
<1>1. step \in [Started -> [Byte -> Started]] BY CutTyped
<1>2. First \in Started
  <2>1. <<>> \in Seq(Byte) OBVIOUS
  <2> QED BY <2>1 DEF Started
<1>3. \E f : Eq(f)
  <2> HIDE DEF step
  <2>1. PICK g : Folds(g, Started, First, step, s)
    <3> HIDE DEF First
    <3> QED BY <1>1, <1>2, FoldExists
  <2>2. ASSUME NEW d \in SUBSET D, d # {}
        PROVE g[d] = T!Cut(g[d \ {T!Max(d)}], s[T!Max(d)])
    <3>1. T!Max(d) \in D BY <1>0, <2>2, MaxIn
    <3>2. s[T!Max(d)] \in Byte BY <3>1
    <3>3. g[d \ {T!Max(d)}] \in Started BY <1>0, <2>1 DEF Folds
    <3>4. g[d] = step[g[d \ {T!Max(d)}]][s[T!Max(d)]] BY <1>0, <2>1, <2>2 DEF Folds
    <3> QED BY <3>2, <3>3, <3>4 DEF step
  <2>3. Eq(g) BY <1>0, <2>1, <2>2 DEF Folds
  <2> QED BY <2>3
<1> DEFINE f == CHOOSE f : Eq(f)
<1>4. Eq(f) BY <1>3
<1>5. T!Split(s) = f[D]
  <2>1. T!Split(s) = T!FoldLeft(T!Cut, First, s) BY ZenonT(30) DEF T!Split
  <2>2. T!FoldLeft(T!Cut, First, s) =
        T!MapThenFoldSet(LAMBDA x, y : T!Cut(y, x), First, LAMBDA i : s[i],
                         LAMBDA d : T!Max(d), DOMAIN s)
    BY Zenon DEF T!FoldLeft
  <2>3. T!MapThenFoldSet(LAMBDA x, y : T!Cut(y, x), First, LAMBDA i : s[i],
                         LAMBDA d : T!Max(d), DOMAIN s) = f[D]
    BY Zenon DEF T!MapThenFoldSet
  <2> QED BY <2>1, <2>2, <2>3
<1>6. f[{}] = First BY <1>4
<1> HIDE DEF f, D
<1>7. ASSUME NEW k \in 1..n, f[1..k - 1] \in Started PROVE f[1..k] = step[f[1..k - 1]][s[k]]
  <2>1. 1..k \in SUBSET D /\ 1..k # {} /\ T!Max(1..k) = k /\ (1..k) \ {k} = 1..k - 1
    BY <1>0, UptoIs
  <2>2. f[1..k] = T!Cut(f[(1..k) \ {k}], s[k]) BY <1>4, <2>1
  <2>3. s[k] \in Byte BY <1>0
  <2> QED BY <1>7, <2>1, <2>2, <2>3
<1> HIDE DEF step
<1>8. PICK r : Runs(r, Started, First, step, s, f)
  <2>1. Unrolls(f, Started, step, s) BY <1>7 DEF Unrolls
  <2> HIDE DEF First, n
  <2> QED BY <1>1, <1>2, <1>6, <2>1, FoldRun
<1>9. \A k \in 1..n : r[k] = T!Cut(r[k - 1], s[k])
  <2> SUFFICES ASSUME NEW k \in 1..n PROVE r[k] = T!Cut(r[k - 1], s[k]) OBVIOUS
  <2>1. k - 1 \in 0..n /\ s[k] \in Byte BY <1>0
  <2>2. r[k - 1] \in Started BY <1>8, <2>1 DEF Runs
  <2> QED BY <1>8, <2>1, <2>2 DEF Runs, step
<1>10. r \in [0..n -> Started] /\ r[0] = First /\ r[n] = f[D] BY <1>8 DEF Runs, D
<1> QED BY <1>5, <1>9, <1>10 DEF Splits

-----------------------------------------------------------------------------
(* FlattenSeq *)

\* r is the sequences of ps joined, one more at each step.
Joins(r, ps) ==
    r[0] = <<>> /\ \A k \in 1..Len(ps) : r[k] = r[k - 1] \o ps[k]

\* FlattenSeq's function exists, for any number of parts.
LEMMA JoinExists ==
    ASSUME NEW ps \in Seq(Seq(Byte))
    PROVE \E r \in [0..Len(ps) -> Seq(Byte)] : Joins(r, ps)
<1> DEFINE Upto(r, m) == r[0] = <<>> /\ \A k \in 1..m : r[k] = r[k - 1] \o ps[k]
           P(m) == m <= Len(ps) => \E r \in [0..m -> Seq(Byte)] : Upto(r, m)
<1>1. P(0)
  <2> DEFINE r == [k \in 0..0 |-> <<>>]
  <2>1. <<>> \in Seq(Byte) OBVIOUS
  <2>2. r \in [0..0 -> Seq(Byte)] BY <2>1
  <2>3. Upto(r, 0) OBVIOUS
  <2> QED BY <2>2, <2>3
<1>2. ASSUME NEW n \in Nat, P(n) PROVE P(n + 1)
  <2> SUFFICES ASSUME n + 1 <= Len(ps) PROVE \E r \in [0..n + 1 -> Seq(Byte)] : Upto(r, n + 1)
    OBVIOUS
  <2>1. PICK g \in [0..n -> Seq(Byte)] : Upto(g, n)
    <3>1. n <= Len(ps) OBVIOUS
    <3> HIDE DEF Upto
    <3> QED BY <1>2, <3>1
  <2> DEFINE x == g[n] \o ps[n + 1]
             r == [k \in 0..n + 1 |-> IF k = n + 1 THEN x ELSE g[k]]
  <2>2. x \in Seq(Byte)
    <3>1. n + 1 \in 1..Len(ps) /\ n \in 0..n OBVIOUS
    <3>2. ps[n + 1] \in Seq(Byte) /\ g[n] \in Seq(Byte) BY <3>1
    <3> QED BY <3>2, ConcatProperties
  <2> HIDE DEF x
  <2>3. r \in [0..n + 1 -> Seq(Byte)]
    <3>1. \A k \in 0..n + 1 : k # n + 1 => k \in 0..n OBVIOUS
    <3> QED BY <2>2, <3>1
  <2>4. r[0] = <<>> BY <2>1
  <2>5. ASSUME NEW k \in 1..n + 1 PROVE r[k] = r[k - 1] \o ps[k]
    <3>1. k - 1 \in 0..n /\ k - 1 \in 0..n + 1 /\ k - 1 # n + 1 /\ k \in 0..n + 1 OBVIOUS
    <3>2. r[k - 1] = g[k - 1] BY <3>1
    <3>3. CASE k = n + 1 BY <3>1, <3>2, <3>3 DEF x
    <3>4. CASE k # n + 1
      <4>1. k \in 1..n BY <3>4
      <4>2. r[k] = g[k] BY <3>1, <3>4
      <4> QED BY <2>1, <3>2, <4>1, <4>2
    <3> QED BY <3>3, <3>4
  <2> QED BY <2>3, <2>4, <2>5
<1>3. \A n \in Nat : P(n)
  <2> HIDE DEF P
  <2> DEFINE A == {n \in Nat : P(n)}
  <2>1. 0 \in A BY <1>1
  <2>2. \A n \in Nat : n \in A => n + 1 \in A BY <1>2
  <2>3. \A n \in Nat : n \in A
    <3> HIDE DEF A
    <3> QED BY <2>1, <2>2, Induct
  <2> QED BY <2>3
<1>4. Len(ps) \in Nat /\ Len(ps) <= Len(ps) OBVIOUS
<1>5. P(Len(ps)) BY <1>3, <1>4
<1>6. \E r \in [0..Len(ps) -> Seq(Byte)] : Upto(r, Len(ps))
  <2> HIDE DEF Upto
  <2> QED BY <1>4, <1>5
<1> QED BY <1>6 DEF Joins

\* FlattenSeq is a run: one part after the other.
LEMMA FlattenRun ==
    ASSUME NEW ps \in Seq(Seq(Byte))
    PROVE \E r \in [0..Len(ps) -> Seq(Byte)] : Joins(r, ps) /\ T!FlattenSeq(ps) = r[Len(ps)]
<1> DEFINE n == Len(ps)
           Eq(f) == f = [i \in 1..n |-> IF i = 1 THEN ps[i] ELSE f[i - 1] \o ps[i]]
<1>0. n \in Nat OBVIOUS
<1>1. PICK r \in [0..n -> Seq(Byte)] : Joins(r, ps) BY JoinExists
<1>2. CASE n = 0
  <2>1. T!FlattenSeq(ps) = ps BY <1>2 DEF T!FlattenSeq
  <2>2. ps = <<>> BY <1>2
  <2> QED BY <1>1, <1>2, <2>1, <2>2 DEF Joins
<1>3. CASE n # 0
  <2>1. \A k \in 1..n : ps[k] \in Seq(Byte) /\ (k - 1) \in 0..n /\ k \in 0..n OBVIOUS
  <2>2. 1 \in 1..n /\ r[1] = ps[1]
    <3>1. 1 \in 1..n /\ ps[1] \in Seq(Byte) BY <1>3, <2>1
    <3>2. r[1] = r[1 - 1] \o ps[1] BY <1>1, <3>1 DEF Joins
    <3>3. r[1 - 1] = <<>> BY <1>1 DEF Joins
    <3> QED BY <3>1, <3>2, <3>3, ConcatEmptySeq
  <2>3. Eq([i \in 1..n |-> r[i]])
    <3> DEFINE g == [i \in 1..n |-> r[i]]
    <3>1. ASSUME NEW i \in 1..n PROVE g[i] = IF i = 1 THEN ps[i] ELSE g[i - 1] \o ps[i]
      <4>1. r[i] = r[i - 1] \o ps[i] BY <1>1 DEF Joins
      <4>2. i # 1 => g[i - 1] = r[i - 1] OBVIOUS
      <4> QED BY <2>2, <4>1, <4>2
    <3> QED BY <3>1
  <2> DEFINE f == CHOOSE f : Eq(f)
  <2>4. Eq(f) BY <2>3
  <2>5. T!FlattenSeq(ps) = f[n] BY <1>3, Zenon DEF T!FlattenSeq
  <2> HIDE DEF f
  <2> DEFINE A == {k \in Nat : k + 1 <= n => f[k + 1] = r[k + 1]}
  <2>6. 0 \in A BY <2>2, <2>4
  <2>7. ASSUME NEW k \in Nat, k \in A PROVE k + 1 \in A
    <3>1. CASE k + 2 <= n
      <4>1. k + 1 <= n /\ k + 2 \in 1..n /\ (k + 2) - 1 = k + 1 /\ (k + 1) + 1 = k + 2 /\ k + 2 # 1
        BY <3>1, <1>0
      <4>2. f[k + 1] = r[k + 1] BY <2>7, <4>1
      <4>3. f[k + 2] = f[(k + 2) - 1] \o ps[k + 2] BY <2>4, <4>1
      <4>4. r[k + 2] = r[(k + 2) - 1] \o ps[k + 2] BY <1>1, <4>1 DEF Joins
      <4>5. f[(k + 2) - 1] = r[(k + 2) - 1] BY <4>1, <4>2
      <4>6. f[k + 2] = r[k + 2] BY <4>3, <4>4, <4>5
      <4> QED BY <4>1, <4>6
    <3> QED BY <3>1
  <2>8. n - 1 \in A
    <3>1. n - 1 \in Nat BY <1>0, <1>3
    <3> HIDE DEF A
    <3> QED BY <2>6, <2>7, <3>1, Induct
  <2>9. f[n] = r[n]
    <3>1. (n - 1) + 1 = n BY <1>0
    <3> QED BY <1>0, <2>8, <3>1
  <2> QED BY <1>1, <2>5, <2>9
<1> QED BY <1>2, <1>3

-----------------------------------------------------------------------------
(* escape() *)

\* What escape() makes of a character.
Piece(c) == IF c \in T!Special THEN T!Octal(c) ELSE <<c>>

LEMMA SpecialAre == T!Special = {32, 9, 10, 92}
BY DEF T!Special, T!Space, T!Tab, T!NewLine, T!Backslash

\* The digits of each character that escape() writes as a number.
LEMMA OctalsAre ==
    /\ T!Octal(32) = <<92, 48, 52, 48>> /\ T!Octal(9) = <<92, 48, 49, 49>>
    /\ T!Octal(10) = <<92, 48, 49, 50>> /\ T!Octal(92) = <<92, 49, 51, 52>>
<1>1. /\ 32 \div 64 = 0 /\ (32 \div 8) % 8 = 4 /\ 32 % 8 = 0
      /\ 9 \div 64 = 0 /\ (9 \div 8) % 8 = 1 /\ 9 % 8 = 1
      /\ 10 \div 64 = 0 /\ (10 \div 8) % 8 = 1 /\ 10 % 8 = 2
      /\ 92 \div 64 = 1 /\ (92 \div 8) % 8 = 3 /\ 92 % 8 = 4
  OBVIOUS
<1> QED BY <1>1 DEF T!Octal, T!Backslash, T!Zero

\* What escape() makes of a character is bytes, and no blank is among them.
LEMMA PieceFacts ==
    ASSUME NEW c \in Byte
    PROVE /\ Piece(c) \in Seq(Byte) /\ Len(Piece(c)) # 0
          /\ Piece(c)[1] = IF c \in T!Special THEN 92 ELSE c
          /\ \A k \in 1..Len(Piece(c)) : Piece(c)[k] \notin {32, 9, 10}
<1>1. CASE c \in T!Special
  <2>1. {92, 48, 49, 50, 51, 52} \subseteq Byte BY DEF Byte
  <2>2. \E a, b, d \in {48, 49, 50, 51, 52} : Piece(c) = <<92, a, b, d>>
    BY <1>1, SpecialAre, OctalsAre DEF Piece
  <2>3. PICK a, b, d \in {48, 49, 50, 51, 52} : Piece(c) = <<92, a, b, d>> BY <2>2
  <2>4. <<92, a, b, d>> \in Seq(Byte) /\ Len(<<92, a, b, d>>) = 4 BY <2>1
  <2>5. \A k \in 1..4 : <<92, a, b, d>>[k] \in {92, a, b, d} OBVIOUS
  <2> QED BY <1>1, <2>3, <2>4, <2>5
<1>2. CASE c \notin T!Special
  <2>1. Piece(c) = <<c>> /\ <<c>> \in Seq(Byte) /\ Len(<<c>>) = 1 /\ <<c>>[1] = c BY <1>2 DEF Piece
  <2> QED BY <1>2, <2>1, SpecialAre
<1> QED BY <1>1, <1>2

\* r is what escape() has written after each character of field.
Escapes(r, field) ==
    r[0] = <<>> /\ \A k \in 1..Len(field) : r[k] = r[k - 1] \o Piece(field[k])

\* escape() is a run: one piece for each character.
LEMMA EscapeRun ==
    ASSUME NEW field \in Seq(Byte)
    PROVE \E r \in [0..Len(field) -> Seq(Byte)] :
             Escapes(r, field) /\ T!escape(field) = r[Len(field)]
<1> DEFINE ps == [k \in DOMAIN field |-> Piece(field[k])]
<1>1. DOMAIN field = 1..Len(field) /\ Len(field) \in Nat OBVIOUS
<1>2. \A k \in 1..Len(field) : ps[k] \in Seq(Byte) /\ ps[k] = Piece(field[k])
  BY <1>1, PieceFacts
<1>3. ps \in Seq(Seq(Byte)) /\ Len(ps) = Len(field) BY <1>1, <1>2
<1>4. T!escape(field) = T!FlattenSeq(ps) BY Zenon DEF T!escape, Piece
<1> HIDE DEF ps
<1>5. PICK r \in [0..Len(field) -> Seq(Byte)] : Joins(r, ps) /\ T!FlattenSeq(ps) = r[Len(ps)]
  BY <1>3, FlattenRun
<1> QED BY <1>2, <1>3, <1>4, <1>5 DEF Joins, Escapes

\* What has been written has no blank, and begins as the first character does.
LEMMA EscapeFacts ==
    ASSUME NEW field \in Seq(Byte)
    PROVE /\ T!escape(field) \in Seq(Byte)
          /\ \A j \in 1..Len(T!escape(field)) : T!escape(field)[j] \notin {32, 9, 10}
          /\ field # <<>> => /\ Len(T!escape(field)) # 0
                             /\ T!escape(field)[1] = IF field[1] \in T!Special THEN 92 ELSE field[1]
<1> DEFINE n == Len(field)
<1>1. n \in Nat OBVIOUS
<1>2. PICK r \in [0..n -> Seq(Byte)] : Escapes(r, field) /\ T!escape(field) = r[n]
  BY EscapeRun
<1> DEFINE P(k) == k <= n =>
              /\ \A j \in 1..Len(r[k]) : r[k][j] \notin {32, 9, 10}
              /\ k # 0 => Len(r[k]) # 0 /\ r[k][1] = Piece(field[1])[1]
<1>3. P(0)
  <2>1. r[0] = <<>> BY <1>2 DEF Escapes
  <2> QED BY <2>1
<1>4. ASSUME NEW k \in Nat, P(k), k + 1 <= n PROVE P(k + 1)
  <2>1. k + 1 \in 1..n /\ (k + 1) - 1 = k /\ k \in 0..n /\ k + 1 \in 0..n /\ k <= n BY <1>1, <1>4
  <2> DEFINE p == Piece(field[k + 1])
  <2>2. field[k + 1] \in Byte BY <2>1
  <2>3. p \in Seq(Byte) /\ Len(p) # 0 /\ \A j \in 1..Len(p) : p[j] \notin {32, 9, 10}
    BY <2>2, PieceFacts
  <2>4. r[k + 1] = r[k] \o p BY <1>2, <2>1 DEF Escapes
  <2>5. r[k] \in Seq(Byte) BY <2>1
  <2> HIDE DEF p
  <2>6. /\ Len(r[k + 1]) = Len(r[k]) + Len(p)
        /\ \A j \in 1..Len(r[k]) + Len(p) :
              r[k + 1][j] = IF j <= Len(r[k]) THEN r[k][j] ELSE p[j - Len(r[k])]
    BY <2>3, <2>4, <2>5, ConcatProperties
  <2>7. ASSUME NEW j \in 1..Len(r[k + 1]) PROVE r[k + 1][j] \notin {32, 9, 10}
    <3>1. CASE j <= Len(r[k])
      <4>1. j \in 1..Len(r[k]) BY <2>3, <2>5, <2>6, <3>1
      <4> QED BY <1>4, <2>1, <2>6, <3>1, <4>1
    <3>2. CASE ~(j <= Len(r[k]))
      <4>1. j - Len(r[k]) \in 1..Len(p) BY <2>3, <2>5, <2>6, <3>2
      <4> QED BY <2>3, <2>6, <3>2, <4>1
    <3> QED BY <3>1, <3>2
  <2>8. Len(r[k + 1]) # 0 BY <2>3, <2>5, <2>6
  <2>9. r[k + 1][1] = Piece(field[1])[1]
    <3>1. CASE k = 0
      <4>1. r[0] = <<>> BY <1>2 DEF Escapes
      <4>2. Len(r[k]) = 0 /\ k + 1 = 1 BY <3>1, <4>1
      <4>3. r[k + 1][1] = p[1] BY <2>3, <2>6, <4>2
      <4> QED BY <4>2, <4>3 DEF p
    <3>2. CASE k # 0
      <4>1. Len(r[k]) # 0 /\ r[k][1] = Piece(field[1])[1] BY <1>4, <2>1, <3>2
      <4>2. Len(r[k]) \in Nat /\ Len(p) \in Nat BY <2>3, <2>5
      <4>3. 1 \in 1..Len(r[k]) + Len(p) /\ 1 <= Len(r[k]) BY <4>1, <4>2
      <4>4. r[k + 1][1] = r[k][1] BY <2>6, <4>3
      <4> QED BY <4>1, <4>4
    <3> QED BY <3>1, <3>2
  <2> QED BY <2>7, <2>8, <2>9
<1>5. P(n)
  <2> HIDE DEF P
  <2> DEFINE A == {k \in Nat : k <= n => P(k)}
  <2>1. 0 \in A BY <1>3
  <2>2. ASSUME NEW k \in Nat, k \in A PROVE k + 1 \in A
    <3>1. k + 1 <= n => k <= n BY <1>1
    <3> QED BY <1>4, <2>2, <3>1
  <2>3. \A k \in Nat : k \in A
    <3> HIDE DEF A
    <3> QED BY <2>1, <2>2, Induct
  <2> QED BY <1>1, <2>3
<1>6. n \in 0..n /\ r[n] \in Seq(Byte) BY <1>1
<1>7. ASSUME field # <<>> PROVE n # 0 /\ field[1] \in Byte
  BY <1>7
<1> QED BY <1>1, <1>2, <1>5, <1>6, <1>7, PieceFacts, SMTT(30)

-----------------------------------------------------------------------------
(* unescape() undoes escape() *)

\* A character that is not special is taken as it is.
LEMMA TakePlain ==
    ASSUME NEW z \in State, z.octal = 0, NEW c \in Byte, c # 92
    PROVE T!Take(z, c).octal = 0 /\ T!Take(z, c).buf = Append(z.buf, c)
BY DEF State, T!Take, T!Backslash

\* A backslash begins a number.
LEMMA TakeBackslash ==
    ASSUME NEW z \in State, z.octal = 0
    PROVE T!Take(z, 92).octal = 1 /\ T!Take(z, 92).code = 0 /\ T!Take(z, 92).buf = z.buf
BY DEF State, T!Take, T!Backslash

\* A digit goes on with it, and the third one ends it.
LEMMA TakeDigit ==
    ASSUME NEW z \in State, z.octal # 0, NEW c \in Byte
    PROVE /\ z.octal < 3 => /\ T!Take(z, c).octal = z.octal + 1 /\ T!Take(z, c).buf = z.buf
                            /\ T!Take(z, c).code = (8 * z.code + 256 + c - 48) % 256
          /\ ~(z.octal < 3) => /\ T!Take(z, c).octal = 0
                               /\ T!Take(z, c).buf = Append(z.buf, (8 * z.code + 256 + c - 48) % 256)
<1> DEFINE code == (8 * z.code + 256 + c - 48) % 256
<1>1. T!Take(z, c) = IF z.octal < 3 THEN [z EXCEPT !.octal = @ + 1, !.code = code]
                     ELSE [z EXCEPT !.octal = 0, !.buf = Append(@, code)]
  BY DEF T!Take, T!Zero
<1> HIDE DEF code
<1>2. [z EXCEPT !.octal = @ + 1, !.code = code].octal = z.octal + 1
  BY DEF State
<1>3. [z EXCEPT !.octal = @ + 1, !.code = code].code = code
  BY DEF State
<1>4. [z EXCEPT !.octal = @ + 1, !.code = code].buf = z.buf
  BY DEF State
<1>5. [z EXCEPT !.octal = 0, !.buf = Append(@, code)].octal = 0
  BY DEF State
<1>6. [z EXCEPT !.octal = 0, !.buf = Append(@, code)].buf = Append(z.buf, code)
  BY DEF State
<1>7. z.octal < 3 => /\ T!Take(z, c).octal = z.octal + 1 /\ T!Take(z, c).code = code
                     /\ T!Take(z, c).buf = z.buf
  BY <1>1, <1>2, <1>3, <1>4
<1>8. ~(z.octal < 3) => T!Take(z, c).octal = 0 /\ T!Take(z, c).buf = Append(z.buf, code)
  BY <1>1, <1>5, <1>6
<1> QED BY <1>7, <1>8 DEF code

\* The characters of a special one are taken one after the other.
Taken(z, p) == T!Take(T!Take(T!Take(T!Take(z, p[1]), p[2]), p[3]), p[4])

\* They give it back.
LEMMA TakeOctal ==
    ASSUME NEW z \in State, z.octal = 0, NEW c \in T!Special
    PROVE /\ Taken(z, T!Octal(c)) \in State /\ Taken(z, T!Octal(c)).octal = 0
          /\ Taken(z, T!Octal(c)).buf = Append(z.buf, c)
<1>0. PICK a \in {48, 49}, b \in {48, 49, 50, 51, 52}, d \in {48, 49, 50, 51, 52} :
           T!Octal(c) = <<92, a, b, d>> /\ c = 64 * (a - 48) + 8 * (b - 48) + (d - 48)
  <2>1. c \in {32, 9, 10, 92} BY SpecialAre
  <2>2. CASE c = 32 BY <2>2, OctalsAre
  <2>3. CASE c = 9 BY <2>3, OctalsAre
  <2>4. CASE c = 10 BY <2>4, OctalsAre
  <2>5. CASE c = 92 BY <2>5, OctalsAre
  <2> QED BY <2>1, <2>2, <2>3, <2>4, <2>5
<1> DEFINE y1 == T!Take(z, 92)
           y2 == T!Take(y1, a)
           y3 == T!Take(y2, b)
           y4 == T!Take(y3, d)
<1>1. {92, a, b, d} \subseteq Byte BY DEF Byte
<1>2. y1 \in State BY <1>1, TakeTyped
<1>3. y2 \in State BY <1>1, <1>2, TakeTyped
<1>4. y3 \in State BY <1>1, <1>3, TakeTyped
<1>5. y4 \in State BY <1>1, <1>4, TakeTyped
<1>6. y1.octal = 1 /\ y1.code = 0 /\ y1.buf = z.buf BY TakeBackslash
<1> HIDE DEF y1
<1>7. y2.octal = 2 /\ y2.code = a - 48 /\ y2.buf = z.buf
  <2>1. y1.octal # 0 /\ y1.octal < 3 /\ y1.octal + 1 = 2 BY <1>6
  <2>2. a \in Byte BY <1>1
  <2>3. /\ y2.octal = y1.octal + 1 /\ y2.buf = y1.buf
        /\ y2.code = (8 * y1.code + 256 + a - 48) % 256
    BY <1>2, <2>1, <2>2, TakeDigit
  <2>4. (8 * 0 + 256 + a - 48) % 256 = a - 48 OBVIOUS
  <2> QED BY <1>6, <2>1, <2>3, <2>4
<1> HIDE DEF y2
<1>9. y3.octal = 3 /\ y3.code = 8 * (a - 48) + (b - 48) /\ y3.buf = z.buf
  <2>1. y2.octal # 0 /\ y2.octal < 3 /\ y2.octal + 1 = 3 BY <1>7
  <2>2. b \in Byte BY <1>1
  <2>3. /\ y3.octal = y2.octal + 1 /\ y3.buf = y2.buf
        /\ y3.code = (8 * y2.code + 256 + b - 48) % 256
    BY <1>3, <2>1, <2>2, TakeDigit
  <2>4. (8 * (a - 48) + 256 + b - 48) % 256 = 8 * (a - 48) + (b - 48) OBVIOUS
  <2> QED BY <1>7, <2>1, <2>3, <2>4
<1> HIDE DEF y3
<1>11. y4.octal = 0 /\ y4.buf = Append(z.buf, (8 * (8 * (a - 48) + (b - 48)) + 256 + d - 48) % 256)
  <2>1. y3.octal # 0 /\ ~(y3.octal < 3) BY <1>9
  <2>2. d \in Byte BY <1>1
  <2>3. y4.octal = 0 /\ y4.buf = Append(y3.buf, (8 * y3.code + 256 + d - 48) % 256)
    BY <1>4, <2>1, <2>2, TakeDigit, SMTT(30)
  <2> QED BY <1>9, <2>3
<1>12. (8 * (8 * (a - 48) + (b - 48)) + 256 + d - 48) % 256 = 64 * (a - 48) + 8 * (b - 48) + (d - 48)
  OBVIOUS
<1>13. y4.buf = Append(z.buf, c) BY <1>0, <1>11, <1>12
<1>14. Taken(z, T!Octal(c)) = y4 BY <1>0 DEF Taken, y1, y2, y3
<1> QED BY <1>5, <1>11, <1>13, <1>14

\* unescape() on what escape() writes for a character.
LEMMA TakePiece ==
    ASSUME NEW c \in Byte, NEW u, NEW n \in Nat, u[n] \in State, u[n].octal = 0,
           \A j \in 1..Len(Piece(c)) : u[n + j] = T!Take(u[n + j - 1], Piece(c)[j])
    PROVE /\ u[n + Len(Piece(c))] \in State /\ u[n + Len(Piece(c))].octal = 0
          /\ u[n + Len(Piece(c))].buf = Append(u[n].buf, c)
<1>1. CASE c \notin T!Special
  <2>1. Piece(c) = <<c>> /\ c # 92 BY <1>1, SpecialAre DEF Piece
  <2>2. Len(Piece(c)) = 1 /\ Piece(c)[1] = c BY <2>1
  <2>3. u[n + 1] = T!Take(u[n + 1 - 1], c) BY <2>2
  <2>4. n + 1 - 1 = n OBVIOUS
  <2>5. u[n + 1] = T!Take(u[n], c) BY <2>3, <2>4
  <2>6. u[n + 1] \in State BY <2>5, TakeTyped
  <2>7. u[n + 1].octal = 0 /\ u[n + 1].buf = Append(u[n].buf, c) BY <2>1, <2>5, TakePlain
  <2> QED BY <2>2, <2>6, <2>7
<1>2. CASE c \in T!Special
  <2>1. Piece(c) = T!Octal(c) BY <1>2 DEF Piece
  <2> DEFINE p == Piece(c)
  <2>2. Len(p) = 4 BY <1>2, <2>1, SpecialAre, OctalsAre
  <2> HIDE DEF p
  <2>3. n + 1 - 1 = n /\ n + 2 - 1 = n + 1 /\ n + 3 - 1 = n + 2 /\ n + 4 - 1 = n + 3 OBVIOUS
  <2>4. \A j \in 1..4 : u[n + j] = T!Take(u[n + j - 1], p[j]) BY <2>2 DEF p
  <2>5. u[n + 1] = T!Take(u[n + 1 - 1], p[1]) BY <2>4
  <2>6. u[n + 2] = T!Take(u[n + 2 - 1], p[2]) BY <2>4
  <2>7. u[n + 3] = T!Take(u[n + 3 - 1], p[3]) BY <2>4
  <2>8. u[n + 4] = T!Take(u[n + 4 - 1], p[4]) BY <2>4
  <2>9. u[n + 4] = Taken(u[n], p) BY <2>3, <2>5, <2>6, <2>7, <2>8 DEF Taken
  <2>10. u[n + 4] \in State /\ u[n + 4].octal = 0 /\ u[n + 4].buf = Append(u[n].buf, c)
    BY <1>2, <2>1, <2>9, TakeOctal, SMTT(30) DEF p
  <2>11. n + Len(Piece(c)) = n + 4 BY <2>2 DEF p
  <2> QED BY <2>10, <2>11
<1> QED BY <1>1, <1>2

\* unescape() undoes escape().
LEMMA EscapeReturns ==
    ASSUME NEW field \in Seq(Byte) PROVE T!unescape(T!escape(field)) = field
<1> DEFINE n == Len(field)
<1>0. n \in Nat OBVIOUS
<1>1. PICK r \in [0..n -> Seq(Byte)] : Escapes(r, field) /\ T!escape(field) = r[n]
  BY EscapeRun
<1>2. PICK u \in [0..Len(r[n]) -> State] :
         Unescapes(u, r[n]) /\ T!unescape(r[n]) = u[Len(r[n])].buf
  <2>1. n \in 0..n BY <1>0
  <2>2. r[n] \in Seq(Byte) BY <2>1
  <2> QED BY <2>2, UnescapeRun
<1> DEFINE P(k) == Unescapes(u, r[k]) =>
                      LET z == u[Len(r[k])]
                      IN  z \in State /\ z.octal = 0 /\ z.buf = SubSeq(field, 1, k)
<1>3. P(0)
  <2>1. r[0] = <<>> /\ Len(<<>>) = 0 BY <1>1 DEF Escapes
  <2>2. SubSeq(field, 1, 0) = <<>> OBVIOUS
  <2>3. Start \in State /\ Start.octal = 0 /\ Start.buf = <<>> BY DEF Start, State, Byte
  <2> QED BY <2>1, <2>2, <2>3 DEF Unescapes
<1>4. ASSUME NEW k \in Nat, P(k), k + 1 <= n PROVE P(k + 1)
  <2> SUFFICES ASSUME Unescapes(u, r[k + 1])
               PROVE LET z == u[Len(r[k + 1])]
                     IN  z \in State /\ z.octal = 0 /\ z.buf = SubSeq(field, 1, k + 1)
    OBVIOUS
  <2>1. k + 1 \in 1..n /\ (k + 1) - 1 = k /\ k \in 0..n /\ k + 1 \in 0..n /\ k <= n BY <1>0, <1>4
  <2> DEFINE p == Piece(field[k + 1])
             m == Len(r[k])
  <2>2. field[k + 1] \in Byte BY <2>1
  <2>3. p \in Seq(Byte) BY <2>2, PieceFacts
  <2>4. r[k + 1] = r[k] \o p BY <1>1, <2>1 DEF Escapes
  <2>5. r[k] \in Seq(Byte) BY <2>1
  <2> HIDE DEF p
  <2>6. /\ Len(r[k + 1]) = m + Len(p)
        /\ \A j \in 1..m + Len(p) :
              r[k + 1][j] = IF j <= m THEN r[k][j] ELSE p[j - m]
    BY <2>3, <2>4, <2>5, ConcatProperties
  <2>7. m \in Nat /\ Len(p) \in Nat BY <2>3, <2>5
  <2>8. Unescapes(u, r[k])
    <3>1. \A j \in 1..m : j \in 1..m + Len(p) /\ j <= m BY <2>7
    <3>2. \A j \in 1..m : r[k + 1][j] = r[k][j] BY <2>6, <3>1
    <3> QED BY <2>6, <3>1, <3>2 DEF Unescapes
  <2>9. u[m] \in State /\ u[m].octal = 0 /\ u[m].buf = SubSeq(field, 1, k) BY <1>4, <2>8
  <2>10. \A j \in 1..Len(p) : u[m + j] = T!Take(u[m + j - 1], p[j])
    <3> SUFFICES ASSUME NEW j \in 1..Len(p) PROVE u[m + j] = T!Take(u[m + j - 1], p[j]) OBVIOUS
    <3>1. PICK i \in 1..m + Len(p) : i = m + j /\ ~(i <= m) /\ i - m = j
      <4>1. m + j \in 1..m + Len(p) /\ ~(m + j <= m) /\ m + j - m = j BY <2>7
      <4> QED BY <4>1
    <3>2. r[k + 1][i] = p[j] BY <2>6, <3>1
    <3>3. u[i] = T!Take(u[i - 1], p[j]) BY <2>6, <3>2 DEF Unescapes
    <3> QED BY <3>1, <3>3
  <2>11. /\ u[m + Len(p)] \in State /\ u[m + Len(p)].octal = 0
         /\ u[m + Len(p)].buf = Append(u[m].buf, field[k + 1])
    <3> HIDE DEF m
    <3> QED BY <2>2, <2>7, <2>9, <2>10, TakePiece, ZenonT(60) DEF p
  <2>12. Append(SubSeq(field, 1, k), field[k + 1]) = SubSeq(field, 1, k + 1)
    <3>1. SubSeq(field, 1, k + 1) = SubSeq(field, 1, (k + 1) - 1) \o <<field[k + 1]>>
      BY <2>1, SubSeqRecursiveSecond
    <3>2. SubSeq(field, 1, k) \in Seq(Byte)
      <4>1. \A j \in 1..k : field[j] \in Byte BY <2>1
      <4> QED BY <4>1, SubSeqProperties
    <3>3. Append(SubSeq(field, 1, k), field[k + 1]) = SubSeq(field, 1, k) \o <<field[k + 1]>>
      BY <2>2, <3>2, AppendIsConcat
    <3> QED BY <2>1, <3>1, <3>3
  <2> QED BY <2>6, <2>9, <2>11, <2>12
<1>5. P(n)
  <2> HIDE DEF P
  <2> DEFINE A == {k \in Nat : k <= n => P(k)}
  <2>1. 0 \in A BY <1>3
  <2>2. ASSUME NEW k \in Nat, k \in A PROVE k + 1 \in A
    <3>1. k + 1 <= n => k <= n BY <1>0
    <3> QED BY <1>4, <2>2, <3>1
  <2>3. \A k \in Nat : k \in A
    <3> HIDE DEF A
    <3> QED BY <2>1, <2>2, Induct
  <2> QED BY <1>0, <2>3
<1>6. SubSeq(field, 1, n) = field BY SubSeqFull
<1> QED BY <1>1, <1>2, <1>5, <1>6

-----------------------------------------------------------------------------
(* split() of a text *)

\* One more character is one more step of split().
LEMMA SplitSnoc ==
    ASSUME NEW s \in Seq(Byte), NEW c \in Byte
    PROVE /\ T!Split(s) \in Started /\ T!Split(s \o <<c>>) = T!Cut(T!Split(s), c)
<1> DEFINE n == Len(s)
           x == s \o <<c>>
<1>1. n \in Nat /\ x \in Seq(Byte) /\ Len(x) = n + 1 /\ x[n + 1] = c
      /\ \A k \in 1..n : x[k] = s[k]
  <2>1. <<c>> \in Seq(Byte) /\ Len(<<c>>) = 1 /\ <<c>>[1] = c /\ n \in Nat OBVIOUS
  <2>2. /\ x \in Seq(Byte) /\ Len(x) = n + 1
        /\ \A k \in 1..n + 1 : x[k] = IF k <= n THEN s[k] ELSE <<c>>[k - n]
    BY <2>1, ConcatProperties
  <2>3. n + 1 \in 1..n + 1 /\ ~(n + 1 <= n) /\ n + 1 - n = 1 BY <2>1
  <2>4. \A k \in 1..n : k \in 1..n + 1 /\ k <= n BY <2>1
  <2> HIDE DEF x
  <2> QED BY <2>1, <2>2, <2>3, <2>4
<1> HIDE DEF x
<1>2. PICK r \in [0..n -> Started] : Splits(r, s) /\ T!Split(s) = r[n] BY SplitRun
<1>3. PICK q \in [0..n + 1 -> Started] : Splits(q, x) /\ T!Split(x) = q[n + 1] BY <1>1, SplitRun
<1> DEFINE A == {k \in Nat : k <= n => q[k] = r[k]}
<1>4. 0 \in A BY <1>2, <1>3 DEF Splits
<1>5. ASSUME NEW k \in Nat, k \in A PROVE k + 1 \in A
  <2>1. CASE k + 1 <= n
    <3>1. k + 1 \in 1..n /\ k + 1 \in 1..n + 1 /\ (k + 1) - 1 = k /\ k <= n BY <1>1, <2>1
    <3>2. q[k + 1] = T!Cut(q[(k + 1) - 1], x[k + 1]) BY <1>1, <1>3, <3>1 DEF Splits
    <3>3. r[k + 1] = T!Cut(r[(k + 1) - 1], s[k + 1]) BY <1>2, <3>1 DEF Splits
    <3> QED BY <1>1, <1>5, <3>1, <3>2, <3>3
  <2> QED BY <2>1
<1>6. n \in A
  <2> HIDE DEF A
  <2> QED BY <1>1, <1>4, <1>5, Induct
<1>7. q[n + 1] = T!Cut(q[(n + 1) - 1], x[n + 1]) /\ (n + 1) - 1 = n
  <2>1. n + 1 \in 1..n + 1 BY <1>1
  <2> QED BY <1>1, <1>3, <2>1 DEF Splits
<1>8. q[n] = r[n] BY <1>1, <1>6
<1>9. r[n] \in Started BY <1>1, <1>2
<1> QED BY <1>1, <1>2, <1>3, <1>7, <1>8, <1>9 DEF x

LEMMA SplitEmpty == T!Split(<<>>) = << <<>> >>
<1>1. <<>> \in Seq(Byte) /\ Len(<<>>) = 0 OBVIOUS
<1>2. PICK r \in [0..0 -> Started] : Splits(r, <<>>) /\ T!Split(<<>>) = r[0] BY <1>1, SplitRun
<1> QED BY <1>2 DEF Splits

\* A text of fields and what there is of the next one.
LEMMA CutWord ==
    ASSUME NEW ps \in Seq(Seq(Byte)), NEW w \in Seq(Byte), NEW c \in Byte
    PROVE /\ c \notin {32, 9} => T!Cut(Append(ps, w), c) = Append(ps, w \o <<c>>)
          /\ c = 32 /\ w # <<>> => T!Cut(Append(ps, w), c) = Append(Append(ps, w), <<>>)
<1> DEFINE p == Append(ps, w)
           m == Len(ps)
<1>1. m \in Nat /\ Len(p) = m + 1 /\ p[m + 1] = w /\ p \in Seq(Seq(Byte))
      /\ \A k \in 1..m : p[k] = ps[k]
  OBVIOUS
<1>2. T!Last(p) = w BY <1>1 DEF T!Last
<1>3. [p EXCEPT ![Len(p)] = Append(@, c)] = Append(ps, w \o <<c>>)
  <2>1. Append(w, c) = w \o <<c>> /\ w \o <<c>> \in Seq(Byte) BY AppendIsConcat, ConcatProperties
  <2> DEFINE v == w \o <<c>>
             y == [p EXCEPT ![Len(p)] = Append(@, c)]
             z == Append(ps, v)
  <2>2. y = [p EXCEPT ![m + 1] = v]
    <3>1. m + 1 \in DOMAIN p BY <1>1
    <3> QED BY <1>1, <2>1, <3>1
  <2> HIDE DEF v, y
  <2>3. z \in Seq(Seq(Byte)) /\ Len(z) = m + 1 /\ z[m + 1] = v /\ \A k \in 1..m : z[k] = ps[k]
    BY <1>1, <2>1 DEF v
  <2>4. y \in Seq(Seq(Byte)) /\ Len(y) = m + 1 /\ y[m + 1] = v /\ \A k \in 1..m : y[k] = p[k]
    <3> HIDE DEF p, m
    <3>1. m + 1 \in 1..Len(p) BY <1>1
    <3>2. v \in Seq(Byte) BY <2>1 DEF v
    <3>3. \A k \in 1..m : k # m + 1 /\ k \in 1..m + 1 BY <1>1
    <3>4. /\ y \in Seq(Seq(Byte)) /\ Len(y) = Len(p)
          /\ \A k \in 1..Len(p) : y[k] = IF k = m + 1 THEN v ELSE p[k]
      BY <1>1, <2>2, <3>1, <3>2, ExceptSeq
    <3> QED BY <1>1, <3>1, <3>3, <3>4
  <2> HIDE DEF z, p, m
  <2>5. \A k \in 1..m + 1 : y[k] = z[k]
    <3>1. \A k \in 1..m + 1 : k \in 1..m \/ k = m + 1 BY <1>1
    <3> QED BY <1>1, <2>3, <2>4, <3>1
  <2>6. y = z BY <2>3, <2>4, <2>5, SeqEqual
  <2> QED BY <2>6 DEF y, z, v
<1> HIDE DEF p, m
<1>4. T!Cut(p, c) = IF c \notin {32, 9} THEN [p EXCEPT ![Len(p)] = Append(@, c)]
                    ELSE IF T!Last(p) = <<>> THEN p ELSE Append(p, <<>>)
  BY DEF T!Cut, T!Space, T!Tab
<1> QED BY <1>2, <1>3, <1>4 DEF p

\* A word goes to the last field.
LEMMA SplitWord ==
    ASSUME NEW s \in Seq(Byte), NEW ps \in Seq(Seq(Byte)), T!Split(s) = Append(ps, <<>>),
           NEW w \in Seq(Byte), \A j \in 1..Len(w) : w[j] \notin {32, 9}
    PROVE s \o w \in Seq(Byte) /\ T!Split(s \o w) = Append(ps, w)
<1> DEFINE n == Len(w)
           P(k) == k <= n => T!Split(s \o SubSeq(w, 1, k)) = Append(ps, SubSeq(w, 1, k))
<1>1. n \in Nat OBVIOUS
<1>2. P(0)
  <2>1. SubSeq(w, 1, 0) = <<>> /\ s \o <<>> = s OBVIOUS
  <2> QED BY <2>1
<1>3. ASSUME NEW k \in Nat, P(k) PROVE P(k + 1)
  <2> SUFFICES ASSUME k + 1 <= n
               PROVE T!Split(s \o SubSeq(w, 1, k + 1)) = Append(ps, SubSeq(w, 1, k + 1))
    OBVIOUS
  <2>1. k + 1 \in 1..n /\ (k + 1) - 1 = k /\ k <= n BY <1>1
  <2> DEFINE v == SubSeq(w, 1, k)
  <2>2. SubSeq(w, 1, k + 1) = v \o <<w[k + 1]>>
    <3>1. SubSeq(w, 1, k + 1) = SubSeq(w, 1, (k + 1) - 1) \o <<w[k + 1]>>
      BY <2>1, SubSeqRecursiveSecond
    <3> QED BY <2>1, <3>1
  <2>3. v \in Seq(Byte)
    <3>1. \A j \in 1..k : w[j] \in Byte BY <2>1
    <3> QED BY <3>1, SubSeqProperties
  <2>4. w[k + 1] \in Byte /\ w[k + 1] \notin {32, 9} BY <2>1
  <2>5. T!Split(s \o v) = Append(ps, v) BY <1>3, <2>1
  <2> HIDE DEF v
  <2>6. s \o v \in Seq(Byte) BY <2>3, ConcatProperties
  <2>7. s \o (v \o <<w[k + 1]>>) = (s \o v) \o <<w[k + 1]>>
    <3>1. <<w[k + 1]>> \in Seq(Byte) BY <2>4
    <3> QED BY <2>3, <3>1, ConcatAssociative, SMTT(30)
  <2>8. T!Split((s \o v) \o <<w[k + 1]>>) = T!Cut(Append(ps, v), w[k + 1])
    BY <2>4, <2>5, <2>6, SplitSnoc
  <2>9. T!Cut(Append(ps, v), w[k + 1]) = Append(ps, v \o <<w[k + 1]>>)
    BY <2>3, <2>4, CutWord
  <2> QED BY <2>2, <2>7, <2>8, <2>9
<1>4. P(n)
  <2> HIDE DEF P
  <2> DEFINE A == {k \in Nat : P(k)}
  <2>1. 0 \in A BY <1>2
  <2>2. \A k \in Nat : k \in A => k + 1 \in A BY <1>3
  <2>3. \A k \in Nat : k \in A
    <3> HIDE DEF A
    <3> QED BY <2>1, <2>2, Induct
  <2> QED BY <1>1, <2>3
<1>5. SubSeq(w, 1, n) = w BY SubSeqFull
<1>6. s \o w \in Seq(Byte) BY ConcatProperties
<1>7. T!Split(s \o SubSeq(w, 1, n)) = Append(ps, SubSeq(w, 1, n)) BY <1>1, <1>4
<1> HIDE DEF n
<1> QED BY <1>5, <1>6, <1>7, Zenon

\* The ends of two texts that are joined.
LEMMA Ends ==
    ASSUME NEW s \in Seq(Byte), NEW v \in Seq(Byte)
    PROVE /\ s \o v \in Seq(Byte) /\ Len(s \o v) = Len(s) + Len(v)
          /\ Len(s) # 0 => (s \o v)[1] = s[1]
          /\ Len(v) # 0 => (s \o v)[Len(s \o v)] = v[Len(v)]
<1> DEFINE x == s \o v
<1>1. Len(s) \in Nat /\ Len(v) \in Nat OBVIOUS
<1>2. /\ x \in Seq(Byte) /\ Len(x) = Len(s) + Len(v)
      /\ \A i \in 1..Len(s) + Len(v) : x[i] = IF i <= Len(s) THEN s[i] ELSE v[i - Len(s)]
  BY ConcatProperties
<1> HIDE DEF x
<1>3. Len(s) # 0 => x[1] = s[1] BY <1>1, <1>2
<1>4. Len(v) # 0 => x[Len(x)] = v[Len(v)]
  <2> SUFFICES ASSUME Len(v) # 0 PROVE x[Len(x)] = v[Len(v)] OBVIOUS
  <2> DEFINE i == Len(s) + Len(v)
  <2>1. i \in 1..Len(s) + Len(v) /\ ~(i <= Len(s)) /\ i - Len(s) = Len(v) BY <1>1
  <2> HIDE DEF i
  <2>2. x[i] = v[Len(v)] BY <1>2, <2>1
  <2> QED BY <1>2, <2>2 DEF i
<1> QED BY <1>2, <1>3, <1>4 DEF x

\* The first and last character of a text with one more.
LEMMA LastIs ==
    ASSUME NEW s \in Seq(Byte), NEW c \in Byte
    PROVE /\ s \o <<c>> \in Seq(Byte) /\ Len(s \o <<c>>) # 0
          /\ (s \o <<c>>)[Len(s \o <<c>>)] = c
          /\ Len(s) # 0 => (s \o <<c>>)[1] = s[1]
<1> DEFINE one == <<c>>
<1>1. one \in Seq(Byte) /\ Len(one) = 1 /\ one[1] = c /\ Len(s) \in Nat OBVIOUS
<1> HIDE DEF one
<1> QED BY <1>1, Ends DEF one

\* A word and a blank are one more field.
LEMMA SplitField ==
    ASSUME NEW s \in Seq(Byte), NEW ps \in Seq(Seq(Byte)), T!Split(s) = Append(ps, <<>>),
           NEW w \in Seq(Byte), Len(w) # 0, \A j \in 1..Len(w) : w[j] \notin {32, 9}
    PROVE /\ s \o (w \o <<32>>) \in Seq(Byte)
          /\ T!Split(s \o (w \o <<32>>)) = Append(Append(ps, w), <<>>)
          /\ Len(s \o (w \o <<32>>)) # 0
          /\ (s \o (w \o <<32>>))[1] = IF Len(s) = 0 THEN w[1] ELSE s[1]
<1>1. 32 \in Byte /\ <<32>> \in Seq(Byte) BY DEF Byte
<1>2. s \o w \in Seq(Byte) /\ T!Split(s \o w) = Append(ps, w) BY SplitWord
<1>3. s \o (w \o <<32>>) = (s \o w) \o <<32>> BY <1>1, ConcatAssociative
<1>4. (s \o w) \o <<32>> \in Seq(Byte) BY <1>1, <1>2, ConcatProperties
<1>5. T!Split((s \o w) \o <<32>>) = T!Cut(Append(ps, w), 32) BY <1>1, <1>2, SplitSnoc
<1>6. T!Cut(Append(ps, w), 32) = Append(Append(ps, w), <<>>)
  <2>1. w # <<>> OBVIOUS
  <2> QED BY <1>1, <2>1, CutWord
<1>7. /\ Len((s \o w) \o <<32>>) # 0
      /\ ((s \o w) \o <<32>>)[1] = IF Len(s) = 0 THEN w[1] ELSE s[1]
  <2>1. Len(s \o w) # 0 /\ (Len(s) # 0 => (s \o w)[1] = s[1])
    <3>1. Len(s) \in Nat /\ Len(w) \in Nat OBVIOUS
    <3> QED BY <3>1, Ends
  <2>2. Len(s) = 0 => s \o w = w BY ConcatEmptySeq
  <2>3. /\ Len((s \o w) \o <<32>>) # 0 /\ ((s \o w) \o <<32>>)[1] = (s \o w)[1]
    BY <1>1, <1>2, <2>1, LastIs
  <2> QED BY <2>1, <2>2, <2>3
<1> QED BY <1>3, <1>4, <1>5, <1>6, <1>7

-----------------------------------------------------------------------------
(* trim_copy() *)

Around == {<<>>, <<9>>, <<10>>}

\* The white space around a line, of at most one character.
LEMMA AroundIs ==
    ASSUME NEW a \in Around
    PROVE a \in Seq(Byte) /\ Len(a) \in 0..1 /\ \A k \in 1..Len(a) : a[k] \in {9, 10}
<1>1. CASE a = <<>> BY <1>1
<1>2. ASSUME NEW c \in {9, 10}, a = <<c>> PROVE Len(a) = 1 /\ a[1] = c /\ a \in Seq(Byte)
  <2>1. c \in Byte BY DEF Byte
  <2> QED BY <1>2, <2>1
<1> QED BY <1>1, <1>2 DEF Around

\* White space around a text that neither begins nor ends with any is cut off.
LEMMA TrimText ==
    ASSUME NEW s \in Seq(Byte), Len(s) # 0, s[1] \notin T!White, s[Len(s)] \notin T!White,
           NEW a \in Around
    PROVE a \o s \o a \in Seq(Byte) /\ T!Trim(a \o s \o a) = s
<1> DEFINE n == Len(s)
           m == Len(a)
           line == a \o s \o a
           black == {k \in DOMAIN line : line[k] \notin T!White}
           first == CHOOSE k \in black : \A j \in black : k <= j
           last == CHOOSE k \in black : \A j \in black : j <= k
<1>0. T!White = {32, 9, 10, 11, 12, 13}
  BY DEF T!White, T!Space, T!Tab, T!NewLine, T!VerticalTab, T!FormFeed, T!Return
<1>1. n \in Nat /\ n # 0 OBVIOUS
<1>2. a \in Seq(Byte) /\ m \in 0..1 /\ \A k \in 1..m : a[k] \in {9, 10} BY AroundIs
<1>3. a \o s \in Seq(Byte) /\ Len(a \o s) = m + n
      /\ \A k \in 1..m + n : (a \o s)[k] = IF k <= m THEN a[k] ELSE s[k - m]
  BY <1>2, ConcatProperties
<1>4. line \in Seq(Byte) /\ Len(line) = m + n + m
      /\ \A k \in 1..m + n + m : line[k] = IF k <= m + n THEN (a \o s)[k] ELSE a[k - (m + n)]
  <2> HIDE DEF m, n
  <2> DEFINE h == a \o s
  <2>1. h \in Seq(Byte) /\ Len(h) = m + n BY <1>3
  <2> HIDE DEF h
  <2>2. /\ h \o a \in Seq(Byte) /\ Len(h \o a) = Len(h) + Len(a)
        /\ \A k \in 1..Len(h) + Len(a) :
              (h \o a)[k] = IF k <= Len(h) THEN h[k] ELSE a[k - Len(h)]
    BY <1>2, <2>1, ConcatProperties
  <2>3. (h \o a) = line BY DEF h
  <2>4. Len(a) = m BY DEF m
  <2> HIDE DEF line
  <2> QED BY <2>1, <2>2, <2>3, <2>4 DEF h
<1> HIDE DEF line, m, n
<1>5. \A k \in 1..m : line[k] \in T!White
  <2>1. \A k \in 1..m : k \in 1..m + n + m /\ k \in 1..m + n /\ k <= m + n /\ k <= m BY <1>1, <1>2
  <2>2. \A k \in 1..m : line[k] = a[k] BY <1>3, <1>4, <2>1
  <2> QED BY <1>0, <1>2, <2>2
<1>6. \A k \in 1..m + n + m : k > m + n => line[k] \in T!White
  <2> SUFFICES ASSUME NEW k \in 1..m + n + m, k > m + n PROVE line[k] \in T!White OBVIOUS
  <2>1. ~(k <= m + n) /\ k - (m + n) \in 1..m BY <1>1, <1>2
  <2>2. line[k] = a[k - (m + n)] BY <1>4, <2>1
  <2> QED BY <1>0, <1>2, <2>1, <2>2
<1>7. \A k \in 1..n : line[m + k] = s[k]
  <2> SUFFICES ASSUME NEW k \in 1..n PROVE line[m + k] = s[k] OBVIOUS
  <2> DEFINE i == m + k
  <2>1. i \in 1..m + n /\ ~(i <= m) /\ i - m = k BY <1>1, <1>2
  <2> HIDE DEF i
  <2>2. i \in 1..m + n + m /\ i <= m + n BY <1>1, <1>2, <2>1
  <2>3. line[i] = (a \o s)[i] BY <1>4, <2>2
  <2>4. (a \o s)[i] = s[k] BY <1>3, <2>1
  <2> QED BY <2>3, <2>4 DEF i
<1>8. DOMAIN line = 1..m + n + m BY <1>4
<1>9. m + 1 \in black /\ m + n \in black
  <2>1. 1 \in 1..n /\ n \in 1..n /\ m + 1 \in 1..m + n + m /\ m + n \in 1..m + n + m BY <1>1, <1>2
  <2>2. line[m + 1] = s[1] /\ line[m + n] = s[n] BY <1>7, <2>1
  <2>3. s[1] \notin T!White /\ s[n] \notin T!White BY DEF n
  <2> QED BY <1>8, <2>1, <2>2, <2>3
<1>10. \A k \in black : k \in Nat /\ m + 1 <= k /\ k <= m + n
  <2> SUFFICES ASSUME NEW k \in black PROVE k \in Nat /\ m + 1 <= k /\ k <= m + n OBVIOUS
  <2>1. k \in 1..m + n + m /\ line[k] \notin T!White BY <1>8
  <2>2. ~(k \in 1..m) /\ ~(k > m + n) BY <1>5, <1>6, <2>1
  <2> QED BY <1>1, <1>2, <2>1, <2>2
<1>11. T!Trim(line) = IF black = {} THEN <<>> ELSE SubSeq(line, first, last)
  BY Zenon DEF T!Trim
<1> HIDE DEF black
<1>12. first = m + 1
  <2>1. \A k \in black : (\A j \in black : k <= j) <=> k = m + 1 BY <1>1, <1>2, <1>9, <1>10
  <2> QED BY <1>9, <2>1
<1>13. last = m + n
  <2>1. \A k \in black : (\A j \in black : j <= k) <=> k = m + n BY <1>1, <1>2, <1>9, <1>10
  <2> QED BY <1>9, <2>1
<1> HIDE DEF first, last
<1>14. SubSeq(line, m + 1, m + n) = s
  <2> DEFINE i == m + 1
             j == m + n
             t == SubSeq(line, i, j)
  <2>1. i \in Int /\ j \in Int /\ j - i + 1 = n /\ i <= j /\ \A k \in 1..n : i + k - 1 = m + k
    BY <1>1, <1>2
  <2>2. \A k \in i..j : line[k] \in Byte
    <3>1. \A k \in i..j : k \in 1..m + n + m BY <1>1, <1>2
    <3> QED BY <1>4, <3>1
  <2> HIDE DEF i, j
  <2>3. /\ t \in Seq(Byte) /\ Len(t) = (IF i <= j THEN j - i + 1 ELSE 0)
        /\ \A k \in 1..j - i + 1 : t[k] = line[i + k - 1]
    BY <2>1, <2>2, SubSeqProperties
  <2> HIDE DEF t
  <2>4. Len(t) = n /\ \A k \in 1..n : t[k] = s[k] BY <1>7, <2>1, <2>3
  <2>5. t = s BY <2>3, <2>4, SeqEqual DEF n
  <2> QED BY <2>5 DEF t, i, j
<1> QED BY <1>4, <1>9, <1>11, <1>12, <1>13, <1>14 DEF line

-----------------------------------------------------------------------------
(* A line *)

\* A text of three characters.
LEMMA ThreeBytes ==
    ASSUME NEW d \in Byte, NEW c \in Byte, NEW g \in Byte
    PROVE <<d, c, g>> = (<<d>> \o <<c>>) \o <<g>>
<1> DEFINE u == <<d>> \o <<c>>
           v == u \o <<g>>
           t == <<d, c, g>>
<1>1. \A x \in Byte : <<x>> \in Seq(Byte) /\ Len(<<x>>) = 1 /\ <<x>>[1] = x OBVIOUS
<1>2. u \in Seq(Byte) /\ Len(u) = 2 /\ u[1] = d /\ u[2] = c
  <2> DEFINE a == <<d>>
             b == <<c>>
  <2>1. a \in Seq(Byte) /\ b \in Seq(Byte) /\ Len(a) = 1 /\ Len(b) = 1 /\ a[1] = d /\ b[1] = c BY <1>1
  <2>2. u = a \o b OBVIOUS
  <2> HIDE DEF a, b, u
  <2>3. u \in Seq(Byte) /\ Len(u) = Len(a) + Len(b)
        /\ \A i \in 1..Len(a) + Len(b) : u[i] = IF i <= Len(a) THEN a[i] ELSE b[i - Len(a)]
    BY <2>1, <2>2, ConcatProperties
  <2> QED BY <2>1, <2>3
<1> HIDE DEF u
<1>3. v \in Seq(Byte) /\ Len(v) = 3 /\ v[1] = d /\ v[2] = c /\ v[3] = g
  <2> DEFINE b == <<g>>
  <2>1. b \in Seq(Byte) /\ Len(b) = 1 /\ b[1] = g BY <1>1
  <2>2. v = u \o b OBVIOUS
  <2> HIDE DEF b, v
  <2>3. v \in Seq(Byte) /\ Len(v) = Len(u) + Len(b)
        /\ \A i \in 1..Len(u) + Len(b) : v[i] = IF i <= Len(u) THEN u[i] ELSE b[i - Len(u)]
    BY <1>2, <2>1, <2>2, ConcatProperties
  <2> QED BY <1>2, <2>1, <2>3
<1>4. t \in Seq(Byte) /\ Len(t) = 3 /\ t[1] = d /\ t[2] = c /\ t[3] = g OBVIOUS
<1> HIDE DEF t, v
<1>5. \A i \in 1..3 : t[i] = v[i]
  <2>1. \A i \in 1..3 : i = 1 \/ i = 2 \/ i = 3 OBVIOUS
  <2> QED BY <1>3, <1>4, <2>1
<1> QED BY <1>3, <1>4, <1>5, SeqEqual DEF t, v, u

\* To append three characters is to append two and then one.
LEMMA JoinThree ==
    ASSUME NEW s \in Seq(Byte), NEW d \in Byte, NEW c \in Byte, NEW g \in Byte
    PROVE s \o <<d, c, g>> = (s \o (<<d>> \o <<c>>)) \o <<g>>
<1> DEFINE two == <<d>> \o <<c>>
           last == <<g>>
<1>1. <<d>> \in Seq(Byte) /\ <<c>> \in Seq(Byte) /\ last \in Seq(Byte) OBVIOUS
<1>2. two \in Seq(Byte) BY <1>1, ConcatProperties
<1>3. <<d, c, g>> = two \o last BY ThreeBytes
<1> HIDE DEF two, last
<1>4. (s \o two) \o last = s \o (two \o last) BY <1>1, <1>2, ConcatAssociative
<1> QED BY <1>3, <1>4 DEF two, last

\* Four words and two digits; and what there is to know of such a line.
LineOf(w, d, g) == T!FlattenSeq([k \in 1..4 |-> w[k] \o <<32>>]) \o <<d, 32, g>>
Words(w) ==
    /\ w \in [1..4 -> Seq(Byte)]
    /\ \A k \in 1..4 : Len(w[k]) # 0 /\ \A j \in 1..Len(w[k]) : w[k][j] \notin {32, 9}
Reads(s, w, d, g) ==
    /\ s \in Seq(Byte) /\ Len(s) # 0 /\ s[1] = w[1][1] /\ s[Len(s)] = g
    /\ T!Split(s) \in Seq(Seq(Byte)) /\ Len(T!Split(s)) = 6
    /\ \A k \in 1..4 : T!Split(s)[k] = w[k]
    /\ T!Split(s)[5] = <<d>> /\ T!Split(s)[6] = <<g>>

\* split() finds the fields of a line.
LEMMA SplitLine ==
    ASSUME NEW w, Words(w), NEW d \in Byte \ {32, 9}, NEW g \in Byte \ {32, 9}
    PROVE Reads(LineOf(w, d, g), w, d, g)
<1> DEFINE s == LineOf(w, d, g)
<1>0. /\ w \in [1..4 -> Seq(Byte)]
      /\ \A k \in 1..4 : Len(w[k]) # 0 /\ \A j \in 1..Len(w[k]) : w[k][j] \notin {32, 9}
      /\ s = T!FlattenSeq([k \in 1..4 |-> w[k] \o <<32>>]) \o <<d, 32, g>>
  BY DEF Words, LineOf
<1> HIDE DEF s
<1> DEFINE ps == [k \in 1..4 |-> w[k] \o <<32>>]
<1>1. 32 \in Byte /\ <<32>> \in Seq(Byte) BY DEF Byte
<1>2. \A k \in 1..4 : ps[k] \in Seq(Byte)
  <2> SUFFICES ASSUME NEW k \in 1..4 PROVE w[k] \o <<32>> \in Seq(Byte) OBVIOUS
  <2>1. w[k] \in Seq(Byte) BY <1>0
  <2> QED BY <1>1, <2>1, ConcatProperties
<1>3. ps \in Seq(Seq(Byte)) /\ Len(ps) = 4 BY <1>2
<1>4. \A k \in 1..4 : ps[k] = w[k] \o <<32>> OBVIOUS
<1> HIDE DEF ps
<1>5. PICK r \in [0..4 -> Seq(Byte)] : Joins(r, ps) /\ T!FlattenSeq(ps) = r[4]
  BY <1>3, FlattenRun
<1>6. r[0] = <<>> /\ \A k \in 1..4 : r[k] = r[k - 1] \o (w[k] \o <<32>>)
  BY <1>3, <1>4, <1>5, ZenonT(60) DEF Joins
<1>7. ASSUME NEW k \in 1..4, NEW qs \in Seq(Seq(Byte)), r[k - 1] \in Seq(Byte),
             T!Split(r[k - 1]) = Append(qs, <<>>)
      PROVE /\ r[k] \in Seq(Byte) /\ T!Split(r[k]) = Append(Append(qs, w[k]), <<>>)
            /\ Len(r[k]) # 0 /\ r[k][1] = IF Len(r[k - 1]) = 0 THEN w[k][1] ELSE r[k - 1][1]
  <2> DEFINE v == w[k]
             u == r[k - 1]
  <2>1. v \in Seq(Byte) /\ Len(v) # 0 /\ \A j \in 1..Len(v) : v[j] \notin {32, 9} BY <1>0
  <2>2. u \in Seq(Byte) /\ T!Split(u) = Append(qs, <<>>) BY <1>7
  <2>3. r[k] = u \o (v \o <<32>>) BY <1>6
  <2> HIDE DEF u, v
  <2> DEFINE y == u \o (v \o <<32>>)
  <2>4. /\ y \in Seq(Byte) /\ T!Split(y) = Append(Append(qs, v), <<>>)
        /\ Len(y) # 0 /\ y[1] = IF Len(u) = 0 THEN v[1] ELSE u[1]
    BY <2>1, <2>2, SplitField, ZenonT(60)
  <2>5. r[k] = y BY <2>3
  <2> HIDE DEF y
  <2>6. /\ r[k] \in Seq(Byte) /\ T!Split(r[k]) = Append(Append(qs, v), <<>>)
        /\ Len(r[k]) # 0 /\ r[k][1] = IF Len(u) = 0 THEN v[1] ELSE u[1]
    BY <2>4, <2>5
  <2> QED BY <2>6 DEF u, v
<1>8. \A k \in 1..4 : w[k] \in Seq(Byte) BY <1>0
<1> DEFINE d1 == <<d>>
           g1 == <<g>>
           q0 == <<>>
           q1 == Append(q0, w[1])
           q2 == Append(q1, w[2])
           q3 == Append(q2, w[3])
           q4 == Append(q3, w[4])
           q5 == Append(q4, d1)
           q6 == Append(q5, g1)
<1>9. q0 \in Seq(Seq(Byte)) /\ Len(q0) = 0 OBVIOUS
<1>10. \A q \in Seq(Seq(Byte)), v \in Seq(Byte) :
         /\ Append(q, v) \in Seq(Seq(Byte)) /\ Len(Append(q, v)) = Len(q) + 1
         /\ Append(q, v)[Len(q) + 1] = v /\ \A k \in 1..Len(q) : Append(q, v)[k] = q[k]
  BY AppendProperties
<1> HIDE DEF q0
<1>11. q1 \in Seq(Seq(Byte)) /\ Len(q1) = 1 /\ q1[1] = w[1]
  <2>1. q1 = Append(q0, w[1]) /\ w[1] \in Seq(Byte) /\ q0 \in Seq(Seq(Byte)) BY <1>8, <1>9
  <2> HIDE DEF q1
  <2>2. /\ q1 \in Seq(Seq(Byte)) /\ Len(q1) = Len(q0) + 1 /\ q1[Len(q0) + 1] = w[1]
        /\ \A k \in 1..Len(q0) : q1[k] = q0[k]
    BY <1>10, <2>1
  <2> QED BY <2>2, <1>9
<1> HIDE DEF q1
<1>12. q2 \in Seq(Seq(Byte)) /\ Len(q2) = 2 /\ q2[1] = w[1] /\ q2[2] = w[2]
  <2>1. q2 = Append(q1, w[2]) /\ w[2] \in Seq(Byte) /\ q1 \in Seq(Seq(Byte)) BY <1>8, <1>11
  <2> HIDE DEF q2
  <2>2. /\ q2 \in Seq(Seq(Byte)) /\ Len(q2) = Len(q1) + 1 /\ q2[Len(q1) + 1] = w[2]
        /\ \A k \in 1..Len(q1) : q2[k] = q1[k]
    BY <1>10, <2>1
  <2> QED BY <2>2, <1>11
<1> HIDE DEF q2
<1>13. q3 \in Seq(Seq(Byte)) /\ Len(q3) = 3 /\ q3[1] = w[1] /\ q3[2] = w[2] /\ q3[3] = w[3]
  <2>1. q3 = Append(q2, w[3]) /\ w[3] \in Seq(Byte) /\ q2 \in Seq(Seq(Byte)) BY <1>8, <1>12
  <2> HIDE DEF q3
  <2>2. /\ q3 \in Seq(Seq(Byte)) /\ Len(q3) = Len(q2) + 1 /\ q3[Len(q2) + 1] = w[3]
        /\ \A k \in 1..Len(q2) : q3[k] = q2[k]
    BY <1>10, <2>1
  <2> QED BY <2>2, <1>12
<1> HIDE DEF q3
<1>14. q4 \in Seq(Seq(Byte)) /\ Len(q4) = 4 /\ \A k \in 1..4 : q4[k] = w[k]
  <2>1. q4 = Append(q3, w[4]) /\ w[4] \in Seq(Byte) /\ q3 \in Seq(Seq(Byte)) BY <1>8, <1>13
  <2> HIDE DEF q4
  <2>2. /\ q4 \in Seq(Seq(Byte)) /\ Len(q4) = Len(q3) + 1 /\ q4[Len(q3) + 1] = w[4]
        /\ \A k \in 1..Len(q3) : q4[k] = q3[k]
    BY <1>10, <2>1
  <2> QED BY <2>2, <1>13
<1> HIDE DEF q4
<1>15. /\ d1 \in Seq(Byte) /\ Len(d1) = 1 /\ d1[1] = d /\ g1 \in Seq(Byte) /\ Len(g1) = 1 /\ g1[1] = g
       /\ <<>> \in Seq(Byte)
  OBVIOUS
<1> HIDE DEF d1, g1
<1>16. q5 \in Seq(Seq(Byte)) /\ Len(q5) = 5 /\ q5[5] = d1 /\ \A k \in 1..4 : q5[k] = w[k]
  <2>1. q5 = Append(q4, d1) /\ d1 \in Seq(Byte) /\ q4 \in Seq(Seq(Byte)) BY <1>15, <1>14
  <2> HIDE DEF q5
  <2>2. /\ q5 \in Seq(Seq(Byte)) /\ Len(q5) = Len(q4) + 1 /\ q5[Len(q4) + 1] = d1
        /\ \A k \in 1..Len(q4) : q5[k] = q4[k]
    BY <1>10, <2>1
  <2> QED BY <2>2, <1>14
<1> HIDE DEF q5
<1>17. q6 \in Seq(Seq(Byte)) /\ Len(q6) = 6 /\ q6[5] = d1 /\ q6[6] = g1
       /\ \A k \in 1..4 : q6[k] = w[k]
  <2>1. q6 = Append(q5, g1) /\ g1 \in Seq(Byte) /\ q5 \in Seq(Seq(Byte)) BY <1>15, <1>16
  <2> HIDE DEF q6
  <2>2. /\ q6 \in Seq(Seq(Byte)) /\ Len(q6) = Len(q5) + 1 /\ q6[Len(q5) + 1] = g1
        /\ \A k \in 1..Len(q5) : q6[k] = q5[k]
    BY <1>10, <2>1
  <2> QED BY <2>2, <1>16
<1> HIDE DEF q6
<1>18. T!Split(r[0]) = Append(q0, <<>>) /\ r[0] \in Seq(Byte) /\ Len(r[0]) = 0 BY <1>6, SplitEmpty DEF q0
<1>19. /\ r[1] \in Seq(Byte) /\ T!Split(r[1]) = Append(q1, <<>>)
       /\ Len(r[1]) # 0 /\ r[1][1] = w[1][1]
  <2>1. 1 - 1 = 0 /\ 1 \in 1..4 OBVIOUS
  <2>2. /\ r[1 - 1] \in Seq(Byte) /\ Len(r[1 - 1]) = 0
        /\ T!Split(r[1 - 1]) = Append(q0, <<>>)
    BY <1>18, <2>1
  <2> QED BY <1>7, <1>9, <2>1, <2>2 DEF q1
<1>20. /\ r[2] \in Seq(Byte) /\ T!Split(r[2]) = Append(q2, <<>>)
       /\ Len(r[2]) # 0 /\ r[2][1] = w[1][1]
  <2>1. 2 - 1 = 1 /\ 2 \in 1..4 OBVIOUS
  <2> QED BY <1>7, <1>11, <1>19, <2>1 DEF q2
<1>21. /\ r[3] \in Seq(Byte) /\ T!Split(r[3]) = Append(q3, <<>>)
       /\ Len(r[3]) # 0 /\ r[3][1] = w[1][1]
  <2>1. 3 - 1 = 2 /\ 3 \in 1..4 OBVIOUS
  <2> QED BY <1>7, <1>12, <1>20, <2>1 DEF q3
<1>22. /\ r[4] \in Seq(Byte) /\ T!Split(r[4]) = Append(q4, <<>>)
       /\ Len(r[4]) # 0 /\ r[4][1] = w[1][1]
  <2>1. 4 - 1 = 3 /\ 4 \in 1..4 OBVIOUS
  <2> QED BY <1>7, <1>13, <1>21, <2>1 DEF q4
<1> DEFINE x == r[4] \o (d1 \o <<32>>)
<1>23. x \in Seq(Byte) /\ T!Split(x) = Append(q5, <<>>) /\ Len(x) # 0 /\ x[1] = w[1][1]
  <2> DEFINE v == d1
             u == r[4]
  <2>1. v \in Seq(Byte) /\ Len(v) # 0 /\ \A j \in 1..Len(v) : v[j] \notin {32, 9} BY <1>15
  <2>2. u \in Seq(Byte) /\ T!Split(u) = Append(q4, <<>>) /\ Len(u) # 0 /\ u[1] = w[1][1] BY <1>22
  <2> HIDE DEF u, v
  <2>3. /\ u \o (v \o <<32>>) \in Seq(Byte)
        /\ T!Split(u \o (v \o <<32>>)) = Append(Append(q4, v), <<>>)
        /\ Len(u \o (v \o <<32>>)) # 0
        /\ (u \o (v \o <<32>>))[1] = IF Len(u) = 0 THEN v[1] ELSE u[1]
    BY <1>14, <2>1, <2>2, SplitField
  <2> QED BY <2>2, <2>3 DEF q5, u, v
<1>24. x \o g1 \in Seq(Byte) /\ T!Split(x \o g1) = q6
  <2> DEFINE v == g1
  <2>1. v \in Seq(Byte) /\ \A j \in 1..Len(v) : v[j] \notin {32, 9} BY <1>15
  <2> HIDE DEF x, v
  <2>2. x \o v \in Seq(Byte) /\ T!Split(x \o v) = Append(q5, v) BY <1>16, <1>23, <2>1, SplitWord
  <2> QED BY <2>2 DEF v, q6
<1>25. s = x \o g1
  <2>1. s = r[4] \o <<d, 32, g>> BY <1>0, <1>5 DEF ps
  <2> DEFINE head == r[4]
  <2>2. head \in Seq(Byte) BY <1>22
  <2> HIDE DEF head
  <2>3. head \o <<d, 32, g>> = (head \o (<<d>> \o <<32>>)) \o <<g>> BY <1>1, <2>2, JoinThree, ZenonT(60)
  <2> QED BY <2>1, <2>3 DEF head, d1, g1
<1> HIDE DEF x
<1>26. s \in Seq(Byte) /\ T!Split(s) = q6 BY <1>24, <1>25
<1>27. q6[5] = <<d>> /\ q6[6] = <<g>> BY <1>17 DEF d1, g1
<1>28. Len(s) # 0 /\ s[Len(s)] = g /\ s[1] = w[1][1]
  <2>1. x \o <<g>> = s BY <1>25 DEF g1
  <2>2. x \in Seq(Byte) /\ g \in Byte /\ Len(x) # 0 /\ x[1] = w[1][1] BY <1>23
  <2>3. /\ Len(x \o <<g>>) # 0 /\ (x \o <<g>>)[Len(x \o <<g>>)] = g
        /\ (x \o <<g>>)[1] = w[1][1]
    BY <2>2, LastIs
  <2> QED BY <2>1, <2>3
<1>29. Reads(s, w, d, g) BY <1>17, <1>26, <1>27, <1>28 DEF Reads
<1> QED BY <1>29 DEF s

-----------------------------------------------------------------------------
(* An entry and its line *)

Texts(e) == \A k \in 1..4 : T!Fields(e)[k] \in Seq(Byte)
\* An entry that the program makes: four texts and two digits.
Made(e) ==
    /\ e = [fsname |-> e.fsname, dir |-> e.dir, type |-> e.type, opts |-> e.opts,
            freq |-> e.freq, passno |-> e.passno]
    /\ Texts(e) /\ e.freq \in 0..9 /\ e.passno \in 0..9

LEMMA FieldsAre ==
    ASSUME NEW e
    PROVE /\ T!Fields(e)[1] = e.fsname /\ T!Fields(e)[2] = e.dir
          /\ T!Fields(e)[3] = e.type /\ T!Fields(e)[4] = e.opts
BY DEF T!Fields

\* The text of an entry: four words and two digits, with no white space at the ends.
LEMMA TextIs ==
    ASSUME NEW e, Made(e), T!Complete(e)
    PROVE LET s == T!ToText(e)
          IN  /\ s \in Seq(Byte) /\ Len(s) # 0 /\ s[Len(s)] \notin T!White
              /\ s[1] = (IF e.fsname[1] \in T!Special THEN 92 ELSE e.fsname[1])
              /\ T!Split(s) \in Seq(Seq(Byte)) /\ Len(T!Split(s)) = 6
              /\ \A k \in 1..4 : T!Split(s)[k] = T!escape(T!Fields(e)[k])
              /\ T!Split(s)[5] = <<48 + e.freq>> /\ T!Split(s)[6] = <<48 + e.passno>>
<1> DEFINE w == [k \in 1..4 |-> T!escape(T!Fields(e)[k])]
           d == 48 + e.freq
           g == 48 + e.passno
           s == LineOf(w, d, g)
<1>1. \A k \in 1..4 : T!Fields(e)[k] \in Seq(Byte) /\ T!Fields(e)[k] # <<>>
  BY DEF Made, Texts, T!Complete
<1>2. ASSUME NEW k \in 1..4
      PROVE /\ w[k] \in Seq(Byte) /\ Len(w[k]) # 0 /\ w[k] = T!escape(T!Fields(e)[k])
            /\ \A j \in 1..Len(w[k]) : w[k][j] \notin {32, 9}
            /\ w[k][1] = IF T!Fields(e)[k][1] \in T!Special THEN 92 ELSE T!Fields(e)[k][1]
  <2> DEFINE f == T!Fields(e)[k]
  <2>1. f \in Seq(Byte) /\ f # <<>> BY <1>1
  <2>2. w[k] = T!escape(f) OBVIOUS
  <2> HIDE DEF f, w
  <2>3. /\ T!escape(f) \in Seq(Byte) /\ Len(T!escape(f)) # 0
        /\ \A j \in 1..Len(T!escape(f)) : T!escape(f)[j] \notin {32, 9}
        /\ T!escape(f)[1] = IF f[1] \in T!Special THEN 92 ELSE f[1]
    BY <2>1, EscapeFacts
  <2> QED BY <2>2, <2>3 DEF f
<1>3. w \in [1..4 -> Seq(Byte)]
  <2>1. w = [k \in 1..4 |-> w[k]] OBVIOUS
  <2> HIDE DEF w
  <2> QED BY <1>2, <2>1
<1>4. d \in Byte \ {32, 9} /\ g \in Byte \ {32, 9} /\ g \notin T!White
  BY DEF Made, Byte, T!White, T!Space, T!Tab, T!NewLine, T!VerticalTab, T!FormFeed, T!Return
<1>5. T!ToText(e) = s
  <2>1. T!ToText(e) = T!FlattenSeq([k \in 1..4 |-> T!escape(T!Fields(e)[k]) \o <<T!Space>>])
                        \o <<T!Zero + e.freq, T!Space, T!Zero + e.passno>>
    BY Zenon DEF T!ToText
  <2>2. T!Space = 32 /\ T!Zero = 48 BY DEF T!Space, T!Zero
  <2>3. [k \in 1..4 |-> T!escape(T!Fields(e)[k]) \o <<T!Space>>] = [k \in 1..4 |-> w[k] \o <<32>>]
    BY <2>2
  <2> QED BY <2>1, <2>2, <2>3 DEF LineOf
<1> HIDE DEF w, d, g
<1>6. /\ s \in Seq(Byte) /\ Len(s) # 0 /\ s[1] = w[1][1] /\ s[Len(s)] = g
      /\ T!Split(s) \in Seq(Seq(Byte)) /\ Len(T!Split(s)) = 6
      /\ \A k \in 1..4 : T!Split(s)[k] = w[k]
      /\ T!Split(s)[5] = <<d>> /\ T!Split(s)[6] = <<g>>
  <2>1. Words(w) BY <1>2, <1>3 DEF Words
  <2>2. Reads(s, w, d, g) BY <1>4, <2>1, SplitLine
  <2> QED BY <2>2 DEF Reads
<1> HIDE DEF s
<1>7. w[1][1] = IF e.fsname[1] \in T!Special THEN 92 ELSE e.fsname[1]
  <2>1. 1 \in 1..4 OBVIOUS
  <2>2. T!Fields(e)[1] = e.fsname BY FieldsAre
  <2>3. w[1][1] = IF T!Fields(e)[1][1] \in T!Special THEN 92 ELSE T!Fields(e)[1][1] BY <1>2, <2>1
  <2> QED BY <2>2, <2>3
<1>8. T!Split(s)[5] = <<48 + e.freq>> /\ T!Split(s)[6] = <<48 + e.passno>> BY <1>6 DEF d, g
<1>9. \A k \in 1..4 : T!Split(s)[k] = T!escape(T!Fields(e)[k]) BY <1>2, <1>6
<1> QED BY <1>4, <1>5, <1>6, <1>7, <1>8, <1>9

\* A field of a line is what unescape() makes of a part of it.
LEMMA ReadIs ==
    ASSUME NEW line
    PROVE LET p == T!Split(T!Trim(line))
          IN  T!FromText(line) =
                IF Len(p) = 6 /\ T!IsNumber(p[5]) /\ T!IsNumber(p[6])
                THEN [fsname |-> [k \in DOMAIN p |-> T!unescape(p[k])][1],
                      dir |-> [k \in DOMAIN p |-> T!unescape(p[k])][2],
                      type |-> [k \in DOMAIN p |-> T!unescape(p[k])][3],
                      opts |-> [k \in DOMAIN p |-> T!unescape(p[k])][4],
                      freq |-> p[5][1] - T!Zero, passno |-> p[6][1] - T!Zero]
                ELSE None
BY Zenon DEF T!FromText

\* The text of an entry gives the entry back.
LEMMA EntryReturns ==
    ASSUME NEW e, Made(e), T!Complete(e), e.fsname[1] \notin T!White \ T!Special, NEW a \in Around
    PROVE T!FromText(a \o T!ToText(e) \o a) = e
<1> DEFINE s == T!ToText(e)
           p == T!Split(s)
           f == [k \in DOMAIN p |-> T!unescape(p[k])]
<1>1. /\ s \in Seq(Byte) /\ Len(s) # 0 /\ s[Len(s)] \notin T!White
      /\ s[1] = (IF e.fsname[1] \in T!Special THEN 92 ELSE e.fsname[1])
      /\ p \in Seq(Seq(Byte)) /\ Len(p) = 6
      /\ \A k \in 1..4 : p[k] = T!escape(T!Fields(e)[k])
      /\ p[5] = <<48 + e.freq>> /\ p[6] = <<48 + e.passno>>
  BY TextIs
<1>2. s[1] \notin T!White
  <2>1. T!White = {32, 9, 10, 11, 12, 13}
    BY DEF T!White, T!Space, T!Tab, T!NewLine, T!VerticalTab, T!FormFeed, T!Return
  <2> QED BY <1>1, <2>1
<1> HIDE DEF s
<1>3. T!Trim(a \o s \o a) = s BY <1>1, <1>2, TrimText
<1> HIDE DEF p
<1>4. T!FromText(a \o s \o a) =
        IF Len(p) = 6 /\ T!IsNumber(p[5]) /\ T!IsNumber(p[6])
        THEN [fsname |-> f[1], dir |-> f[2], type |-> f[3], opts |-> f[4],
              freq |-> p[5][1] - T!Zero, passno |-> p[6][1] - T!Zero]
        ELSE None
  BY <1>3, ReadIs DEF p
<1>5. ASSUME NEW k \in 1..4 PROVE f[k] = T!Fields(e)[k]
  <2>1. k \in DOMAIN p BY <1>1
  <2>2. f[k] = T!unescape(T!escape(T!Fields(e)[k])) BY <1>1, <2>1
  <2>3. T!Fields(e)[k] \in Seq(Byte) BY DEF Made, Texts
  <2> QED BY <2>2, <2>3, EscapeReturns
<1>6. \A x \in 0..9 : T!IsNumber(<<48 + x>>) /\ <<48 + x>>[1] - T!Zero = x
  BY DEF T!IsNumber, T!Zero
<1>7. e.freq \in 0..9 /\ e.passno \in 0..9 BY DEF Made
<1>8. /\ T!IsNumber(p[5]) /\ T!IsNumber(p[6])
      /\ p[5][1] - T!Zero = e.freq /\ p[6][1] - T!Zero = e.passno
  <2>1. T!IsNumber(<<48 + e.freq>>) /\ <<48 + e.freq>>[1] - T!Zero = e.freq BY <1>6, <1>7
  <2>2. T!IsNumber(<<48 + e.passno>>) /\ <<48 + e.passno>>[1] - T!Zero = e.passno BY <1>6, <1>7
  <2>3. p[5] = <<48 + e.freq>> /\ p[6] = <<48 + e.passno>> BY <1>1
  <2> QED BY <2>1, <2>2, <2>3
<1>9. f[1] = e.fsname /\ f[2] = e.dir /\ f[3] = e.type /\ f[4] = e.opts
  <2>1. {1, 2, 3, 4} \subseteq 1..4 OBVIOUS
  <2> HIDE DEF f
  <2> QED BY <1>5, <2>1, FieldsAre
<1> HIDE DEF f
<1>10. T!FromText(a \o s \o a) =
         [fsname |-> f[1], dir |-> f[2], type |-> f[3], opts |-> f[4],
          freq |-> p[5][1] - T!Zero, passno |-> p[6][1] - T!Zero]
  BY <1>1, <1>4, <1>8
<1>11. e = [fsname |-> e.fsname, dir |-> e.dir, type |-> e.type, opts |-> e.opts,
            freq |-> e.freq, passno |-> e.passno]
  BY DEF Made
<1>12. T!FromText(a \o s \o a) = e BY <1>8, <1>9, <1>10, <1>11, Zenon
<1> QED BY <1>12 DEF s

\* Whatever a line is, an entry read from it has four texts.
LEMMA ReadTyped ==
    ASSUME NEW line, T!Trim(line) \in Seq(Byte)
    PROVE T!FromText(line) = None \/ Texts(T!FromText(line))
<1> DEFINE p == T!Split(T!Trim(line))
           f == [k \in DOMAIN p |-> T!unescape(p[k])]
<1>1. p \in Seq(Seq(Byte))
  <2>1. PICK r \in [0..Len(T!Trim(line)) -> Started] : p = r[Len(T!Trim(line))] BY SplitRun
  <2>2. p \in Started BY <2>1
  <2> QED BY <2>2 DEF Started
<1>2. ASSUME NEW k \in DOMAIN p PROVE f[k] \in Seq(Byte)
  <2> HIDE DEF p
  <2>1. p[k] \in Seq(Byte) BY <1>1
  <2>2. PICK r \in [0..Len(p[k]) -> State] : T!unescape(p[k]) = r[Len(p[k])].buf
    BY <2>1, UnescapeRun
  <2>3. r[Len(p[k])] \in State
    <3>1. Len(p[k]) \in 0..Len(p[k]) BY <2>1
    <3> QED BY <3>1
  <2> QED BY <2>2, <2>3 DEF State
<1>3. T!FromText(line) =
        IF Len(p) = 6 /\ T!IsNumber(p[5]) /\ T!IsNumber(p[6])
        THEN [fsname |-> f[1], dir |-> f[2], type |-> f[3], opts |-> f[4],
              freq |-> p[5][1] - T!Zero, passno |-> p[6][1] - T!Zero]
        ELSE None
  BY ReadIs
<1> HIDE DEF p, f
<1>4. CASE Len(p) = 6 /\ T!IsNumber(p[5]) /\ T!IsNumber(p[6])
  <2> DEFINE e == T!FromText(line)
  <2>1. e.fsname = f[1] /\ e.dir = f[2] /\ e.type = f[3] /\ e.opts = f[4] BY <1>3, <1>4
  <2>2. {1, 2, 3, 4} \subseteq DOMAIN p BY <1>1, <1>4
  <2>3. {f[1], f[2], f[3], f[4]} \subseteq Seq(Byte) BY <1>2, <2>2
  <2> HIDE DEF e
  <2>4. {T!Fields(e)[1], T!Fields(e)[2], T!Fields(e)[3], T!Fields(e)[4]} \subseteq Seq(Byte)
    BY <2>1, <2>3, FieldsAre
  <2>5. Texts(e)
    <3>1. \A k \in 1..4 : k = 1 \/ k = 2 \/ k = 3 \/ k = 4 OBVIOUS
    <3> QED BY <2>4, <3>1 DEF Texts
  <2> QED BY <2>5 DEF e
<1> QED BY <1>3, <1>4

\* What is left of a line is some of it.
LEMMA TrimTyped == ASSUME NEW line \in Seq(Byte) PROVE T!Trim(line) \in Seq(Byte)
<1> DEFINE black == {k \in DOMAIN line : line[k] \notin T!White}
           first == CHOOSE k \in black : \A m \in black : k <= m
           last == CHOOSE k \in black : \A m \in black : m <= k
           n == Len(line)
<1>1. DOMAIN line = 1..n /\ n \in Nat /\ \A k \in 1..n : line[k] \in Byte OBVIOUS
<1>2. black \subseteq 1..n BY <1>1
<1>3. T!Trim(line) = IF black = {} THEN <<>> ELSE SubSeq(line, first, last) BY Zenon DEF T!Trim
<1> HIDE DEF black
<1>4. CASE black = {}
  <2>1. <<>> \in Seq(Byte) OBVIOUS
  <2> QED BY <1>3, <1>4, <2>1
<1>5. CASE black # {}
  <2>1. \E k \in black : \A m \in black : k <= m
    <3>1. black \in SUBSET Nat BY <1>1, <1>2
    <3> QED BY <1>5, <3>1, Least
  <2>2. \E k \in black : \A m \in black : m <= k BY <1>1, <1>2, <1>5, Greatest
  <2>3. first \in black /\ last \in black BY <2>1, <2>2
  <2> HIDE DEF first, last
  <2>4. first \in 1..n /\ last \in 1..n BY <1>2, <2>3
  <2>5. \A k \in first..last : line[k] \in Byte
    <3>1. \A k \in first..last : k \in 1..n BY <1>1, <2>4
    <3> QED BY <1>1, <3>1
  <2>6. first \in Int /\ last \in Int BY <1>1, <2>4
  <2>7. SubSeq(line, first, last) \in Seq(Byte) BY <2>5, <2>6, SubSeqProperties
  <2> QED BY <1>3, <1>5, <2>7
<1> QED BY <1>4, <1>5

-----------------------------------------------------------------------------
(* What the program converts *)

\* An entry is made of names, written, and read back.
ConvInv ==
    /\ parsed \in BOOLEAN
    /\ entry # None /\ ~parsed => Made(entry)
    /\ text # None => text = T!ToText(was) /\ Made(was) /\ T!Complete(was)
    /\ parsed => text # None /\ \E a \in Around : entry = T!FromText(a \o text \o a)

\* Names are texts.
LEMMA NamesTyped == ASSUME NEW name \in T!Name PROVE name \in Seq(Byte)
<1>1. PICK n \in 0..MaxLength : name \in [1..n -> Char] BY DEF T!Name
<1>2. n \in Nat BY <1>1, TextAssumption
<1>3. \A k \in 1..n : name[k] \in Byte BY <1>1, TextAssumption DEF Byte
<1>4. name = [k \in 1..n |-> name[k]] BY <1>1
<1> QED BY <1>2, <1>3, <1>4

\* An entry of four texts with a number set is one that the program may make.
LEMMA GivenIsMade ==
    ASSUME NEW e, NEW passno \in 0..9,
           NEW s1 \in Seq(Byte), NEW s2 \in Seq(Byte), NEW s3 \in Seq(Byte), NEW s4 \in Seq(Byte),
           e = [fsname |-> s1, dir |-> s2, type |-> s3, opts |-> s4, freq |-> 0, passno |-> 0]
    PROVE Made([e EXCEPT !.passno = passno])
<1> DEFINE m == [e EXCEPT !.passno = passno]
<1>1. m = [fsname |-> s1, dir |-> s2, type |-> s3, opts |-> s4, freq |-> 0, passno |-> passno]
  BY SMTT(30)
<1>2. /\ m.fsname = s1 /\ m.dir = s2 /\ m.type = s3 /\ m.opts = s4 /\ m.freq = 0
      /\ m.passno = passno
  BY <1>1
<1>3. m = [fsname |-> m.fsname, dir |-> m.dir, type |-> m.type, opts |-> m.opts,
           freq |-> m.freq, passno |-> m.passno]
  BY <1>1, <1>2
<1> HIDE DEF m
<1>4. Texts(m)
  <2>1. \A k \in 1..4 : k = 1 \/ k = 2 \/ k = 3 \/ k = 4 OBVIOUS
  <2> QED BY <1>2, <2>1, FieldsAre DEF Texts
<1>5. Made(m) BY <1>2, <1>3, <1>4 DEF Made
<1> QED BY <1>5 DEF m

\* So is an entry for a bind mount.
LEMMA BindIsMade ==
    ASSUME NEW device \in T!Name, NEW place \in T!Name, NEW opts \in {<<>>, T!Ro}
    PROVE Made([T!BindEntry(device, place, opts) EXCEPT !.passno = 1])
<1> DEFINE e == T!BindEntry(device, place, opts)
           o == IF opts = <<>> THEN T!Bind ELSE T!Bind \o <<T!Comma>> \o opts
<1>1. e = [fsname |-> device, dir |-> place, type |-> T!NoType, opts |-> o, freq |-> 0, passno |-> 0]
  BY Zenon DEF T!BindEntry
<1>2. {98, 44, 110, 114} \subseteq Byte BY DEF Byte
<1>3. T!NoType \in Seq(Byte) /\ T!Bind \in Seq(Byte) /\ T!Ro \in Seq(Byte) /\ <<T!Comma>> \in Seq(Byte)
  BY <1>2 DEF T!NoType, T!Bind, T!Ro, T!Comma
<1>4. o \in Seq(Byte)
  <2> DEFINE bind == T!Bind
             comma == <<T!Comma>>
             ro == T!Ro
  <2>1. bind \in Seq(Byte) /\ comma \in Seq(Byte) /\ ro \in Seq(Byte) BY <1>3
  <2> HIDE DEF bind, comma, ro
  <2>2. bind \o comma \in Seq(Byte) BY <2>1, ConcatProperties
  <2>3. (bind \o comma) \o ro \in Seq(Byte) BY <2>1, <2>2, ConcatProperties
  <2> QED BY <1>3, <2>3 DEF bind, comma, ro
<1>5. device \in Seq(Byte) /\ place \in Seq(Byte) BY NamesTyped
<1>6. 1 \in 0..9 OBVIOUS
<1> HIDE DEF e, o
<1>7. Made([e EXCEPT !.passno = 1]) BY <1>1, <1>3, <1>4, <1>5, <1>6, GivenIsMade
<1> QED BY <1>7 DEF e

LEMMA ProcIsMade == Made([T!ProcEntry EXCEPT !.passno = 0])
<1> DEFINE e == T!ProcEntry
<1>1. e = [fsname |-> T!Proc, dir |-> T!Proc, type |-> T!Proc, opts |-> T!Defaults,
           freq |-> 0, passno |-> 0]
  BY Zenon DEF T!ProcEntry
<1>2. {112, 100} \subseteq Byte BY DEF Byte
<1>3. T!Proc \in Seq(Byte) /\ T!Defaults \in Seq(Byte) BY <1>2 DEF T!Proc, T!Defaults
<1>4. 0 \in 0..9 OBVIOUS
<1> HIDE DEF e
<1>5. Made([e EXCEPT !.passno = 0]) BY <1>1, <1>3, <1>4, GivenIsMade
<1> QED BY <1>5 DEF e

LEMMA ConvInit == ASSUME T!Init PROVE ConvInv
BY DEF T!Init, ConvInv

LEMMA ConvertKeeps == ASSUME ConvInv, T!Convert PROVE ConvInv'
<1>1. /\ entry # None /\ ~parsed /\ text' = T!ToText(entry) /\ was' = entry
      /\ entry' = entry /\ parsed' = parsed
  BY DEF T!Convert
<1>2. text' # None => T!Complete(entry) BY <1>1 DEF T!ToText
<1>3. Made(entry) BY <1>1 DEF ConvInv
<1> QED BY <1>1, <1>2, <1>3 DEF ConvInv

LEMMA ParseKeeps == ASSUME ConvInv, NEW a \in Around, T!Parse(a) PROVE ConvInv'
<1>1. /\ text # None /\ entry' = T!FromText(a \o text \o a) /\ parsed' = TRUE
      /\ text' = text /\ was' = was
  BY DEF T!Parse
<1> QED BY <1>1 DEF ConvInv

LEMMA MakeKeeps ==
    ASSUME ConvInv, NEW e, NEW passno, Made([e EXCEPT !.passno = passno]), T!Make(e, passno)
    PROVE ConvInv'
BY DEF T!Make, ConvInv

LEMMA ConvNext == ASSUME ConvInv, [T!Next]_tv PROVE ConvInv'
<1>1. CASE UNCHANGED tv BY <1>1 DEF tv, ConvInv
<1>2. ASSUME NEW device \in T!Name, NEW place \in T!Name, NEW opts \in {<<>>, T!Ro},
             T!Make(T!BindEntry(device, place, opts), 1)
      PROVE ConvInv'
  BY <1>2, BindIsMade, MakeKeeps
<1>3. CASE T!Make(T!ProcEntry, 0) BY <1>3, ProcIsMade, MakeKeeps
<1>4. ASSUME NEW e, NEW passno, T!Push(e, passno) PROVE ConvInv'
  BY <1>4 DEF T!Push, T!conversion, ConvInv
<1>5. CASE T!Save BY <1>5 DEF T!Save, T!conversion, ConvInv
<1>6. CASE T!Load BY <1>6 DEF T!Load, T!conversion, ConvInv
<1>7. ASSUME NEW around \in {<<>>, <<T!Tab>>, <<T!NewLine>>}, T!Parse(around) PROVE ConvInv'
  <2>1. around \in Around BY DEF Around, T!Tab, T!NewLine
  <2> QED BY <1>7, <2>1, ParseKeeps
<1> QED BY <1>1, <1>2, <1>3, <1>4, <1>5, <1>6, <1>7, ConvertKeeps DEF T!Next

\* The entry that was read is the entry that was written.
LEMMA EntriesReturn == ASSUME ConvInv PROVE T!EntryComesBack
<1> SUFFICES ASSUME parsed, Head(was.fsname) \notin T!White \ T!Special PROVE entry = was
  BY DEF T!EntryComesBack
<1>1. text = T!ToText(was) /\ Made(was) /\ T!Complete(was) BY DEF ConvInv
<1>2. PICK a \in Around : entry = T!FromText(a \o T!ToText(was) \o a) BY <1>1 DEF ConvInv
<1>3. Head(was.fsname) = was.fsname[1]
  <2>1. T!Fields(was)[1] \in Seq(Byte) /\ T!Fields(was)[1] # <<>> BY <1>1 DEF Made, Texts, T!Complete
  <2>2. was.fsname \in Seq(Byte) /\ was.fsname # <<>> BY <2>1, FieldsAre
  <2> QED BY <2>2
<1> QED BY <1>1, <1>2, <1>3, EntryReturns

\* Everything that was read or written is bytes.
LEMMA ConvTyped ==
    ASSUME ConvInv
    PROVE /\ entry = None \/ \A k \in 1..4 : T!Fields(entry)[k] \in Seq(0..255)
          /\ text = None \/ text \in Seq(0..255)
<1>1. text # None => text \in Seq(Byte)
  <2> SUFFICES ASSUME text # None PROVE text \in Seq(Byte) OBVIOUS
  <2>1. text = T!ToText(was) /\ Made(was) /\ T!Complete(was) BY DEF ConvInv
  <2> QED BY <2>1, TextIs
<1>2. entry = None \/ Texts(entry)
  <2>1. CASE entry # None /\ ~parsed BY <2>1 DEF ConvInv, Made
  <2>2. CASE parsed
    <3>1. PICK a \in Around : entry = T!FromText(a \o text \o a) BY <2>2 DEF ConvInv
    <3>2. text \in Seq(Byte) BY <1>1, <2>2 DEF ConvInv
    <3>3. a \in Seq(Byte) BY AroundIs
    <3>4. a \o text \in Seq(Byte) BY <3>2, <3>3, ConcatProperties
    <3>5. (a \o text) \o a \in Seq(Byte) BY <3>3, <3>4, ConcatProperties
    <3> QED BY <3>1, <3>5, TrimTyped, ReadTyped
  <2> QED BY <2>1, <2>2 DEF ConvInv
<1> QED BY <1>1, <1>2 DEF Texts, Byte

-----------------------------------------------------------------------------
(* The words of a line *)

\* The line of a file, as getmntent_r() takes it apart.
Lines == Seq(Seq(Byte))

\* Words() is a run: one step for each text.
LEMMA WordsRun ==
    ASSUME NEW s \in Lines
    PROVE \E r \in [0..Len(s) -> Lines] :
            /\ r[0] = <<>> /\ \A k \in 1..Len(s) : r[k] = T!AddWord(r[k - 1], s[k])
            /\ T!Words(s) = r[Len(s)]
<1> DEFINE D == DOMAIN s
           First == <<>>
           Eq(f) == f = [d \in SUBSET D |-> IF d = {} THEN First
                           ELSE LET x == T!Max(d) IN T!AddWord(f[d \ {x}], s[x])]
           step == [p \in Lines |-> [c \in Seq(Byte) |-> T!AddWord(p, c)]]
           n == Len(s)
<1>0. D = 1..n /\ n \in Nat /\ s \in Seq(Seq(Byte)) BY DEF Lines
<1>1. step \in [Lines -> [Seq(Byte) -> Lines]]
  <2>1. ASSUME NEW p \in Lines, NEW c \in Seq(Byte) PROVE T!AddWord(p, c) \in Lines
    <3>1. Append(p, c) \in Seq(Seq(Byte)) BY DEF Lines
    <3> QED BY <3>1 DEF T!AddWord, Lines
  <2> QED BY <2>1
<1>2. First \in Lines BY DEF Lines
<1>3. \E f : Eq(f)
  <2> HIDE DEF step
  <2>1. PICK g : Folds(g, Lines, First, step, s)
    <3> HIDE DEF First
    <3> QED BY <1>0, <1>1, <1>2, FoldExists
  <2>2. ASSUME NEW d \in SUBSET D, d # {}
        PROVE g[d] = T!AddWord(g[d \ {T!Max(d)}], s[T!Max(d)])
    <3>1. T!Max(d) \in D BY <1>0, <2>2, MaxIn
    <3>2. s[T!Max(d)] \in Seq(Byte) BY <1>0, <3>1
    <3>3. g[d \ {T!Max(d)}] \in Lines BY <1>0, <2>1 DEF Folds
    <3>4. g[d] = step[g[d \ {T!Max(d)}]][s[T!Max(d)]] BY <1>0, <2>1, <2>2 DEF Folds
    <3> QED BY <3>2, <3>3, <3>4 DEF step
  <2>3. Eq(g) BY <1>0, <2>1, <2>2 DEF Folds
  <2> QED BY <2>3
<1> DEFINE f == CHOOSE f : Eq(f)
<1>4. Eq(f) BY <1>3
<1>5. T!Words(s) = f[D]
  <2>1. T!Words(s) = T!FoldLeft(T!AddWord, First, s) BY ZenonT(30) DEF T!Words
  <2>2. T!FoldLeft(T!AddWord, First, s) =
        T!MapThenFoldSet(LAMBDA x, y : T!AddWord(y, x), First, LAMBDA i : s[i],
                         LAMBDA d : T!Max(d), DOMAIN s)
    BY Zenon DEF T!FoldLeft
  <2>3. T!MapThenFoldSet(LAMBDA x, y : T!AddWord(y, x), First, LAMBDA i : s[i],
                         LAMBDA d : T!Max(d), DOMAIN s) = f[D]
    BY Zenon DEF T!MapThenFoldSet
  <2> QED BY <2>1, <2>2, <2>3, Zenon
<1>6. f[{}] = First BY <1>4
<1> HIDE DEF f, D
<1>7. ASSUME NEW k \in 1..n, f[1..k - 1] \in Lines PROVE f[1..k] = step[f[1..k - 1]][s[k]]
  <2>1. 1..k \in SUBSET D /\ 1..k # {} /\ T!Max(1..k) = k /\ (1..k) \ {k} = 1..k - 1
    BY <1>0, UptoIs
  <2>2. f[1..k] = T!AddWord(f[(1..k) \ {k}], s[k]) BY <1>4, <2>1
  <2>3. s[k] \in Seq(Byte) BY <1>0
  <2> QED BY <1>7, <2>1, <2>2, <2>3
<1> HIDE DEF step
<1>8. PICK r : Runs(r, Lines, First, step, s, f)
  <2>1. Unrolls(f, Lines, step, s) BY <1>7 DEF Unrolls
  <2> HIDE DEF First, n
  <2> QED BY <1>0, <1>1, <1>2, <1>6, <2>1, FoldRun
<1>9. \A k \in 1..n : r[k] = T!AddWord(r[k - 1], s[k])
  <2> SUFFICES ASSUME NEW k \in 1..n PROVE r[k] = T!AddWord(r[k - 1], s[k]) OBVIOUS
  <2>1. k - 1 \in 0..n /\ s[k] \in Seq(Byte) BY <1>0
  <2>2. r[k - 1] \in Lines BY <1>8, <2>1 DEF Runs
  <2> QED BY <1>8, <2>1, <2>2 DEF Runs, step
<1>10. r \in [0..n -> Lines] /\ r[0] = First /\ r[n] = f[D] BY <1>8 DEF Runs, D
<1> QED BY <1>5, <1>9, <1>10

LEMMA WordsTyped == ASSUME NEW line \in Lines PROVE T!Words(line) \in Lines
<1>1. PICK r \in [0..Len(line) -> Lines] : T!Words(line) = r[Len(line)] BY WordsRun
<1>2. Len(line) \in 0..Len(line) BY DEF Lines
<1> QED BY <1>1, <1>2

\* A line without an empty text is its words.
LEMMA WordsWhole ==
    ASSUME NEW line \in Lines, \A k \in 1..Len(line) : line[k] # <<>>
    PROVE T!Words(line) = line
<1> DEFINE n == Len(line)
<1>0. n \in Nat /\ line \in Seq(Seq(Byte)) BY DEF Lines
<1>1. PICK r \in [0..n -> Lines] :
        /\ r[0] = <<>> /\ \A k \in 1..n : r[k] = T!AddWord(r[k - 1], line[k])
        /\ T!Words(line) = r[n]
  BY WordsRun
<1> DEFINE Same(k) == Len(r[k]) = k /\ \A j \in 1..k : r[k][j] = line[j]
           A == {k \in Nat : k <= n => Same(k)}
<1>2. 0 \in A
  <2>1. Len(r[0]) = 0 /\ \A j \in 1..0 : FALSE BY <1>1
  <2> QED BY <2>1
<1>3. ASSUME NEW k \in Nat, k \in A PROVE k + 1 \in A
  <2>1. CASE k + 1 <= n
    <3>1. k + 1 \in 1..n /\ (k + 1) - 1 = k /\ k \in 0..n /\ k <= n BY <1>0, <2>1
    <3>2. Same(k) BY <1>3, <3>1
    <3>3. r[k] \in Lines /\ line[k + 1] \in Seq(Byte) /\ line[k + 1] # <<>>
      <4> DEFINE i == k + 1
      <4>1. i \in 1..n BY <3>1
      <4>2. r[k] \in Lines BY <1>1, <3>1
      <4> HIDE DEF i
      <4>3. line[i] \in Seq(Byte) /\ line[i] # <<>> BY <1>0, <4>1
      <4> QED BY <4>2, <4>3 DEF i
    <3>4. r[k + 1] = Append(r[k], line[k + 1]) BY <1>1, <3>1, <3>3 DEF T!AddWord
    <3>5. \A x \in Lines, w \in Seq(Byte) :
            /\ Len(Append(x, w)) = Len(x) + 1 /\ Append(x, w)[Len(x) + 1] = w
            /\ \A j \in 1..Len(x) : Append(x, w)[j] = x[j]
      BY AppendProperties DEF Lines
    <3>6. /\ Len(r[k + 1]) = Len(r[k]) + 1 /\ r[k + 1][Len(r[k]) + 1] = line[k + 1]
          /\ \A j \in 1..Len(r[k]) : r[k + 1][j] = r[k][j]
      BY <3>3, <3>4, <3>5
    <3>7. Len(r[k + 1]) = k + 1 BY <3>2, <3>6
    <3>8. \A j \in 1..k + 1 : j \in 1..k \/ j = k + 1 OBVIOUS
    <3>9. \A j \in 1..k + 1 : r[k + 1][j] = line[j] BY <3>2, <3>6, <3>8
    <3>10. Same(k + 1) BY <3>7, <3>9
    <3> HIDE DEF Same
    <3> QED BY <3>10
  <2> QED BY <2>1
<1>4. \A k \in Nat : k \in A
  <2> HIDE DEF A
  <2> QED BY <1>2, <1>3, Induct
<1>5. Same(n)
  <2>1. n \in A /\ n <= n BY <1>0, <1>4
  <2> QED BY <2>1
<1>6. r[n] \in Seq(Seq(Byte)) BY <1>0, <1>1 DEF Lines
<1>7. r[n] = line BY <1>0, <1>5, <1>6, SeqEqual
<1> QED BY <1>1, <1>7

-----------------------------------------------------------------------------
(* A list and its file *)

Row == [fsname : Seq(Byte), dir : Seq(Byte), type : Seq(Byte), opts : Seq(Byte),
        freq : 0..9, passno : 0..9]

\* A text of a line is bytes and a number a digit, there or not.
LEMMA WordTyped ==
    ASSUME NEW line \in Lines, NEW k \in Nat \ {0}
    PROVE T!Word(line, k) \in Seq(Byte) /\ T!Digit(line, k) \in 0..9
<1>1. T!Words(line) \in Seq(Seq(Byte)) BY WordsTyped DEF Lines
<1>2. T!Word(line, k) \in Seq(Byte)
  <2>1. CASE k <= Len(T!Words(line))
    <3> DEFINE w == T!Words(line)
    <3>1. w \in Seq(Seq(Byte)) /\ k <= Len(w) BY <1>1, <2>1
    <3>2. T!Word(line, k) = w[k] BY <2>1 DEF T!Word
    <3> HIDE DEF w
    <3>3. k \in 1..Len(w) BY <3>1
    <3>4. w[k] \in Seq(Byte) BY <3>1, <3>3
    <3> QED BY <3>2, <3>4
  <2>2. CASE ~(k <= Len(T!Words(line))) BY <2>2 DEF T!Word
  <2> QED BY <2>1, <2>2
<1>3. T!Digit(line, k) \in 0..9
  <2>1. CASE T!IsNumber(T!Word(line, k))
    <3>1. T!Word(line, k)[1] \in 48..57 BY <2>1 DEF T!IsNumber, T!Zero
    <3>2. T!Word(line, k)[1] - 48 \in 0..9 BY <3>1
    <3> QED BY <2>1, <3>2 DEF T!Digit, T!Zero
  <2>2. CASE ~T!IsNumber(T!Word(line, k)) BY <2>2 DEF T!Digit
  <2> QED BY <2>1, <2>2
<1> QED BY <1>2, <1>3

\* A line adds one entry to the list at most.
LEMMA ReadLineTyped ==
    ASSUME NEW list \in Seq(Row), NEW line \in Lines
    PROVE T!ReadLine(list, line) \in Seq(Row) /\ Len(T!ReadLine(list, line)) <= Len(list) + 1
<1> DEFINE row == [fsname |-> T!Word(line, 1), dir |-> T!Word(line, 2), type |-> T!Word(line, 3),
                   opts |-> T!Word(line, 4), freq |-> T!Digit(line, 5), passno |-> T!Digit(line, 6)]
<1>1. row \in Row
  <2>1. {1, 2, 3, 4, 5, 6} \subseteq Nat \ {0} OBVIOUS
  <2> QED BY <2>1, WordTyped DEF Row
<1>2. T!ReadLine(list, line) = IF T!Skipped(line) THEN list ELSE Append(list, row)
  BY DEF T!ReadLine
<1> HIDE DEF row
<1>3. Append(list, row) \in Seq(Row) /\ Len(Append(list, row)) = Len(list) + 1 BY <1>1
<1>4. Len(list) \in Nat OBVIOUS
<1> QED BY <1>2, <1>3, <1>4

\* The list new is another with one more entry, which has the numbers.
Adds(new, list, f, p) ==
    /\ Len(new) = Len(list) + 1 /\ \A j \in 1..Len(list) : new[j] = list[j]
    /\ new[Len(list) + 1].freq = f /\ new[Len(list) + 1].passno = p

\* A line whose texts are read as they were written adds an entry with its numbers.
LEMMA PlainIsRead ==
    ASSUME NEW list \in Seq(Row), NEW line \in Lines, T!Plain(line), NEW f \in 0..9, NEW p \in 0..9,
           line[5] = <<48 + f>>, line[6] = <<48 + p>>
    PROVE Adds(T!ReadLine(list, line), list, f, p)
<1>1. T!Words(line) = line
  <2>1. Len(line) = 6 /\ \A k \in 1..6 : line[k] # <<>> BY DEF T!Plain
  <2> QED BY <2>1, WordsWhole
<1>2. ~T!Skipped(line)
  <2>1. line # <<>>
    <3>1. Len(line) = 6 BY DEF T!Plain
    <3> QED BY <3>1
  <2> QED BY <1>1, <2>1 DEF T!Skipped, T!Plain
<1>3. \A x \in 0..9 : T!IsNumber(<<48 + x>>) /\ <<48 + x>>[1] - T!Zero = x
  BY DEF T!IsNumber, T!Zero
<1>4. T!Word(line, 5) = <<48 + f>> /\ T!Word(line, 6) = <<48 + p>>
  <2>1. Len(T!Words(line)) = 6 BY <1>1 DEF T!Plain
  <2>2. 5 <= Len(T!Words(line)) /\ 6 <= Len(T!Words(line)) BY <2>1
  <2>3. T!Word(line, 5) = T!Words(line)[5] /\ T!Word(line, 6) = T!Words(line)[6]
    BY <2>2, Zenon DEF T!Word
  <2> QED BY <1>1, <2>3
<1>5. T!Digit(line, 5) = f /\ T!Digit(line, 6) = p BY <1>3, <1>4, Zenon DEF T!Digit
<1> DEFINE row == [fsname |-> T!Word(line, 1), dir |-> T!Word(line, 2), type |-> T!Word(line, 3),
                   opts |-> T!Word(line, 4), freq |-> T!Digit(line, 5), passno |-> T!Digit(line, 6)]
<1>6. T!ReadLine(list, line) = Append(list, row) BY <1>2 DEF T!ReadLine
<1>7. row.freq = f /\ row.passno = p /\ row \in Row
  <2>1. {1, 2, 3, 4, 5, 6} \subseteq Nat \ {0} OBVIOUS
  <2> QED BY <1>5, <2>1, WordTyped DEF Row
<1> HIDE DEF row
<1>8. /\ Len(Append(list, row)) = Len(list) + 1 /\ Append(list, row)[Len(list) + 1] = row
      /\ \A j \in 1..Len(list) : Append(list, row)[j] = list[j]
  BY <1>7, AppendProperties
<1> QED BY <1>6, <1>7, <1>8 DEF Adds

\* load() is a run: one step for each line.
LEMMA LoadRun ==
    ASSUME NEW s \in Seq(Lines)
    PROVE \E r \in [0..Len(s) -> Seq(Row)] :
            /\ r[0] = <<>> /\ \A k \in 1..Len(s) : r[k] = T!ReadLine(r[k - 1], s[k])
            /\ T!FoldLeft(T!ReadLine, <<>>, s) = r[Len(s)]
<1> DEFINE D == DOMAIN s
           First == <<>>
           Eq(f) == f = [d \in SUBSET D |-> IF d = {} THEN First
                           ELSE LET x == T!Max(d) IN T!ReadLine(f[d \ {x}], s[x])]
           step == [p \in Seq(Row) |-> [c \in Lines |-> T!ReadLine(p, c)]]
           n == Len(s)
<1>0. D = 1..n /\ n \in Nat OBVIOUS
<1>1. step \in [Seq(Row) -> [Lines -> Seq(Row)]] BY ReadLineTyped
<1>2. First \in Seq(Row) OBVIOUS
<1>3. \E f : Eq(f)
  <2> HIDE DEF step
  <2>1. PICK g : Folds(g, Seq(Row), First, step, s)
    <3> HIDE DEF First
    <3> QED BY <1>1, <1>2, FoldExists
  <2>2. ASSUME NEW d \in SUBSET D, d # {}
        PROVE g[d] = T!ReadLine(g[d \ {T!Max(d)}], s[T!Max(d)])
    <3>1. T!Max(d) \in D BY <1>0, <2>2, MaxIn
    <3>2. s[T!Max(d)] \in Lines BY <3>1
    <3>3. g[d \ {T!Max(d)}] \in Seq(Row) BY <1>0, <2>1 DEF Folds
    <3>4. g[d] = step[g[d \ {T!Max(d)}]][s[T!Max(d)]] BY <1>0, <2>1, <2>2 DEF Folds
    <3> QED BY <3>2, <3>3, <3>4 DEF step
  <2>3. Eq(g) BY <1>0, <2>1, <2>2 DEF Folds
  <2> QED BY <2>3
<1> DEFINE f == CHOOSE f : Eq(f)
<1>4. Eq(f) BY <1>3
<1>5. T!FoldLeft(T!ReadLine, First, s) = f[D]
  <2>1. T!FoldLeft(T!ReadLine, First, s) =
        T!MapThenFoldSet(LAMBDA x, y : T!ReadLine(y, x), First, LAMBDA i : s[i],
                         LAMBDA d : T!Max(d), DOMAIN s)
    BY Zenon DEF T!FoldLeft
  <2>2. T!MapThenFoldSet(LAMBDA x, y : T!ReadLine(y, x), First, LAMBDA i : s[i],
                         LAMBDA d : T!Max(d), DOMAIN s) = f[D]
    BY Zenon DEF T!MapThenFoldSet
  <2> QED BY <2>1, <2>2, Zenon
<1>6. f[{}] = First BY <1>4
<1> HIDE DEF f, D
<1>7. ASSUME NEW k \in 1..n, f[1..k - 1] \in Seq(Row) PROVE f[1..k] = step[f[1..k - 1]][s[k]]
  <2>1. 1..k \in SUBSET D /\ 1..k # {} /\ T!Max(1..k) = k /\ (1..k) \ {k} = 1..k - 1
    BY <1>0, UptoIs
  <2>2. f[1..k] = T!ReadLine(f[(1..k) \ {k}], s[k]) BY <1>4, <2>1
  <2>3. s[k] \in Lines BY <1>0
  <2> QED BY <1>7, <2>1, <2>2, <2>3
<1> HIDE DEF step
<1>8. PICK r : Runs(r, Seq(Row), First, step, s, f)
  <2>1. Unrolls(f, Seq(Row), step, s) BY <1>7 DEF Unrolls
  <2> HIDE DEF First, n
  <2> QED BY <1>1, <1>2, <1>6, <2>1, FoldRun
<1>9. \A k \in 1..n : r[k] = T!ReadLine(r[k - 1], s[k])
  <2> SUFFICES ASSUME NEW k \in 1..n PROVE r[k] = T!ReadLine(r[k - 1], s[k]) OBVIOUS
  <2>1. k - 1 \in 0..n /\ s[k] \in Lines BY <1>0
  <2>2. r[k - 1] \in Seq(Row) BY <1>8, <2>1 DEF Runs
  <2> QED BY <1>8, <2>1, <2>2 DEF Runs, step
<1>10. r \in [0..n -> Seq(Row)] /\ r[0] = First /\ r[n] = f[D] BY <1>8 DEF Runs, D
<1> QED BY <1>5, <1>9, <1>10

\* The k-th line that was written whole has the numbers of the k-th entry.
Holds(lines, rows) ==
    /\ Len(lines) <= Len(rows)
    /\ \A k \in 1..Len(lines) : T!Plain(lines[k]) =>
          lines[k][5] = <<48 + rows[k].freq>> /\ lines[k][6] = <<48 + rows[k].passno>>

ListInv ==
    /\ entries \in Seq(Row) /\ saved \in Seq(Row) /\ file \in Seq(Lines)
    /\ Len(entries) <= MaxEntries /\ Len(saved) <= MaxEntries /\ loaded \in BOOLEAN
    /\ Holds(file, saved)
    /\ T!ListComesBack

LEMMA ListInit == ASSUME T!Init PROVE ListInv
<1>1. entries = <<>> /\ file = <<>> /\ saved = <<>> /\ loaded = FALSE BY DEF T!Init
<1>2. <<>> \in Seq(Row) /\ <<>> \in Seq(Lines) /\ Len(<<>>) = 0 OBVIOUS
<1>3. MaxEntries \in Nat BY TextAssumption
<1>4. 0 <= MaxEntries BY <1>3
<1>5. entries \in Seq(Row) /\ saved \in Seq(Row) /\ file \in Seq(Lines) BY <1>1, <1>2
<1>6. Len(entries) = 0 /\ Len(file) = 0 /\ Len(saved) = 0 BY <1>1, <1>2
<1>7. Holds(file, saved)
  <2>1. \A k \in 1..Len(file) : FALSE BY <1>6
  <2> QED BY <1>6, <2>1 DEF Holds
<1>8. T!ListComesBack BY <1>1 DEF T!ListComesBack
<1>9. loaded \in BOOLEAN BY <1>1
<1> QED BY <1>4, <1>5, <1>6, <1>7, <1>8, <1>9 DEF ListInv

\* What the program adds to a list.
LEMMA GivenIsRow ==
    ASSUME NEW e \in {T!BindRO(T!Bind, T!Proc), [T!ProcEntry EXCEPT !.opts = <<>>]},
           NEW passno \in 0..1
    PROVE [e EXCEPT !.passno = passno] \in Row
<1>1. {98, 44, 110, 114, 112} \subseteq Byte BY DEF Byte
<1>2. /\ T!NoType \in Seq(Byte) /\ T!Bind \in Seq(Byte) /\ T!Ro \in Seq(Byte)
      /\ T!Proc \in Seq(Byte) /\ <<T!Comma>> \in Seq(Byte)
  BY <1>1 DEF T!NoType, T!Bind, T!Ro, T!Proc, T!Comma
<1>3. \A s1, s2, s3, s4 \in Seq(Byte) :
        [[fsname |-> s1, dir |-> s2, type |-> s3, opts |-> s4, freq |-> 0, passno |-> 0]
            EXCEPT !.passno = passno] \in Row
  <2> TAKE s1, s2, s3, s4 \in Seq(Byte)
  <2>1. [[fsname |-> s1, dir |-> s2, type |-> s3, opts |-> s4, freq |-> 0, passno |-> 0]
            EXCEPT !.passno = passno]
        = [fsname |-> s1, dir |-> s2, type |-> s3, opts |-> s4, freq |-> 0, passno |-> passno]
    BY SMTT(30)
  <2>2. 0 \in 0..9 /\ passno \in 0..9 OBVIOUS
  <2>3. [fsname |-> s1, dir |-> s2, type |-> s3, opts |-> s4, freq |-> 0, passno |-> passno] \in Row
    BY <2>2 DEF Row
  <2> QED BY <2>1, <2>3
<1>4. CASE e = T!BindRO(T!Bind, T!Proc)
  <2> DEFINE o == IF T!Ro = <<>> THEN T!Bind ELSE T!Bind \o <<T!Comma>> \o T!Ro
  <2>1. e = [fsname |-> T!Bind, dir |-> T!Proc, type |-> T!NoType, opts |-> o,
             freq |-> 0, passno |-> 0]
    BY <1>4, Zenon DEF T!BindRO, T!BindEntry
  <2>2. o \in Seq(Byte)
    <3> DEFINE bind == T!Bind
               comma == <<T!Comma>>
               ro == T!Ro
    <3>1. bind \in Seq(Byte) /\ comma \in Seq(Byte) /\ ro \in Seq(Byte) BY <1>2
    <3> HIDE DEF bind, comma, ro
    <3>2. bind \o comma \in Seq(Byte) BY <3>1, ConcatProperties
    <3>3. (bind \o comma) \o ro \in Seq(Byte) BY <3>1, <3>2, ConcatProperties
    <3> QED BY <1>2, <3>3 DEF bind, comma, ro
  <2> HIDE DEF o
  <2> QED BY <1>2, <1>3, <2>1, <2>2
<1>5. CASE e = [T!ProcEntry EXCEPT !.opts = <<>>]
  <2>1. T!ProcEntry = [fsname |-> T!Proc, dir |-> T!Proc, type |-> T!Proc, opts |-> T!Defaults,
                       freq |-> 0, passno |-> 0]
    BY Zenon DEF T!ProcEntry
  <2>2. e = [fsname |-> T!Proc, dir |-> T!Proc, type |-> T!Proc, opts |-> <<>>,
             freq |-> 0, passno |-> 0]
    BY <1>5, <2>1
  <2>3. <<>> \in Seq(Byte) OBVIOUS
  <2> QED BY <1>2, <1>3, <2>2, <2>3
<1> QED BY <1>4, <1>5

LEMMA PushKeeps ==
    ASSUME ListInv, NEW e, NEW passno, [e EXCEPT !.passno = passno] \in Row, T!Push(e, passno)
    PROVE ListInv'
<1> DEFINE row == [e EXCEPT !.passno = passno]
<1>1. /\ entries' = Append(entries, row) /\ loaded' = FALSE /\ UNCHANGED <<file, saved>>
      /\ Len(entries) < MaxEntries /\ row \in Row
  BY DEF T!Push
<1> HIDE DEF row
<1>2. entries' \in Seq(Row) /\ Len(entries') = Len(entries) + 1 BY <1>1 DEF ListInv
<1>3. Len(entries') <= MaxEntries
  <2>1. Len(entries) \in Nat /\ MaxEntries \in Nat BY TextAssumption DEF ListInv
  <2> QED BY <1>1, <1>2, <2>1
<1>4. T!ListComesBack' BY <1>1 DEF T!ListComesBack
<1> QED BY <1>1, <1>2, <1>3, <1>4 DEF ListInv, Holds

\* The six texts of a line, the last two of them the numbers.
LEMMA LineTyped ==
    ASSUME NEW row \in Row, NEW garbage \in [1..3 -> Garbage]
    PROVE LET line == T!Line(row, garbage)
          IN  /\ line \in Lines /\ Len(line) = 6
              /\ line[5] = <<48 + row.freq>> /\ line[6] = <<48 + row.passno>>
<1>1. row.opts \in Seq(Byte) /\ row.freq \in 0..9 /\ row.passno \in 0..9 BY DEF Row
<1>2. garbage[1] \in Seq(Byte) /\ garbage[2] \in Seq(Byte) /\ garbage[3] \in Seq(Byte)
  BY TextAssumption DEF Byte
<1>3. \A x \in 0..9 : <<48 + x>> \in Seq(Byte) BY DEF Byte
<1>4. T!Line(row, garbage) = <<row.opts, garbage[1], garbage[2], garbage[3],
                               <<48 + row.freq>>, <<48 + row.passno>>>>
  BY DEF T!Line, T!Zero
<1>5. \A a, b, c, d, e, f \in Seq(Byte) :
        /\ <<a, b, c, d, e, f>> \in Seq(Seq(Byte)) /\ Len(<<a, b, c, d, e, f>>) = 6
        /\ <<a, b, c, d, e, f>>[5] = e /\ <<a, b, c, d, e, f>>[6] = f
  OBVIOUS
<1> DEFINE a == row.opts
           b == garbage[1]
           c == garbage[2]
           d == garbage[3]
           e == <<48 + row.freq>>
           f == <<48 + row.passno>>
<1>6. {a, b, c, d, e, f} \subseteq Seq(Byte) BY <1>1, <1>2, <1>3
<1>7. T!Line(row, garbage) = <<a, b, c, d, e, f>> BY <1>4
<1> HIDE DEF a, b, c, d, e, f
<1>8. /\ <<a, b, c, d, e, f>> \in Seq(Seq(Byte)) /\ Len(<<a, b, c, d, e, f>>) = 6
      /\ <<a, b, c, d, e, f>>[5] = e /\ <<a, b, c, d, e, f>>[6] = f
  BY <1>5, <1>6
<1> QED BY <1>7, <1>8 DEF Lines, e, f

\* A line of which all six texts have arrived is whole, since its last is one digit.
LEMMA ArrivedIs ==
    ASSUME NEW line \in Lines, Len(line) = 6, NEW x, line[6] = <<x>>, NEW last \in T!Arrived(line)
    PROVE last \in Lines /\ (T!Plain(last) => last[5] = line[5] /\ last[6] = line[6])
<1>0. PICK n \in 1..6 : \E start \in T!Prefixes(line[n]) : last = Append(SubSeq(line, 1, n - 1), start)
  BY DEF T!Arrived
<1>1. PICK start \in T!Prefixes(line[n]) : last = Append(SubSeq(line, 1, n - 1), start)
  BY <1>0
<1>2. PICK m \in 0..Len(line[n]) : start = SubSeq(line[n], 1, m) BY <1>1 DEF T!Prefixes
<1>3. line \in Seq(Seq(Byte)) /\ line[n] \in Seq(Byte)
  <2>1. line \in Seq(Seq(Byte)) /\ n \in 1..Len(line) BY <1>0 DEF Lines
  <2>2. line \in [1..Len(line) -> Seq(Byte)] BY <2>1, LenProperties
  <2> QED BY <2>1, <2>2
<1>4. start \in Seq(Byte) /\ Len(start) = m
  <2>1. \A k \in 1..m : line[n][k] \in Byte BY <1>2, <1>3
  <2>2. m \in Nat BY <1>2, <1>3
  <2> QED BY <1>2, <1>3, <2>1, <2>2, SubSeqProperties
<1> DEFINE head == SubSeq(line, 1, n - 1)
<1>5. head \in Seq(Seq(Byte)) /\ Len(head) = n - 1 /\ \A k \in 1..n - 1 : head[k] = line[k]
  <2> DEFINE i == n - 1
  <2>1. i \in 0..5 /\ \A k \in 1..i : line[k] \in Seq(Byte)
    <3>1. i \in 0..5 BY <1>0
    <3>2. \A k \in 1..i : k \in 1..Len(line) BY <3>1
    <3>3. line \in [1..Len(line) -> Seq(Byte)] BY <1>3, LenProperties
    <3> QED BY <3>1, <3>2, <3>3
  <2> HIDE DEF i
  <2>2. /\ SubSeq(line, 1, i) \in Seq(Seq(Byte)) /\ Len(SubSeq(line, 1, i)) = i
        /\ \A k \in 1..i : SubSeq(line, 1, i)[k] = line[k]
    BY <1>3, <2>1, SubSeqProperties
  <2> QED BY <2>2 DEF i
<1> HIDE DEF head
<1>6. /\ last \in Seq(Seq(Byte)) /\ Len(last) = n /\ last[n] = start
      /\ \A k \in 1..n - 1 : last[k] = line[k]
  <2>1. last = Append(head, start) BY <1>1 DEF head
  <2>2. n \in Nat /\ n - 1 + 1 = n BY <1>1
  <2>3. /\ Append(head, start) \in Seq(Seq(Byte)) /\ Len(Append(head, start)) = Len(head) + 1
        /\ Append(head, start)[Len(head) + 1] = start
        /\ \A k \in 1..Len(head) : Append(head, start)[k] = head[k]
    BY <1>4, <1>5, AppendProperties
  <2> QED BY <1>5, <2>1, <2>2, <2>3
<1>7. ASSUME T!Plain(last) PROVE last[5] = line[5] /\ last[6] = line[6]
  <2>1. n = 6 /\ start # <<>> BY <1>6, <1>7 DEF T!Plain
  <2>2. Len(line[6]) = 1 OBVIOUS
  <2>3. m = 1 BY <1>2, <1>4, <2>1, <2>2
  <2>4. start = <<x>>
    <3>1. start = SubSeq(<<x>>, 1, 1) BY <1>2, <2>1, <2>3
    <3>2. <<x>> \in Seq({x}) /\ Len(<<x>>) = 1 OBVIOUS
    <3> DEFINE one == <<x>>
    <3> HIDE DEF one
    <3>3. one \in Seq({x}) /\ Len(one) = 1 BY <3>2 DEF one
    <3>4. SubSeq(one, 1, Len(one)) = one BY <3>3, SubSeqFull
    <3> QED BY <3>1, <3>3, <3>4 DEF one
  <2> QED BY <1>6, <2>1, <2>4
<1> QED BY <1>6, <1>7 DEF Lines

LEMMA SaveKeeps == ASSUME ListInv, T!Save PROVE ListInv'
<1>1. saved' = entries /\ loaded' = FALSE /\ entries' = entries BY DEF T!Save
<1>2. entries \in Seq(Row) /\ Len(entries) \in Nat BY DEF ListInv
<1>3. file' \in Seq(Lines) /\ Holds(file', entries)
  <2>1. CASE file' = <<>>
    <3>1. <<>> \in Seq(Lines) /\ Len(<<>>) = 0 /\ \A k \in 1..0 : FALSE OBVIOUS
    <3> QED BY <1>2, <2>1, <3>1 DEF Holds
  <2>2. ASSUME NEW count \in DOMAIN entries, NEW garbage \in [1..count -> [1..3 -> Garbage]],
               NEW last \in T!Arrived(T!Line(entries[count], garbage[count])),
               file' = Append([k \in 1..count - 1 |-> T!Line(entries[k], garbage[k])], last)
        PROVE file' \in Seq(Lines) /\ Holds(file', entries)
    <3> DEFINE before == [k \in 1..count - 1 |-> T!Line(entries[k], garbage[k])]
    <3>1. count \in Nat /\ count # 0 /\ count - 1 \in Nat /\ count <= Len(entries) BY <1>2
    <3>2. ASSUME NEW k \in 1..count
          PROVE LET line == T!Line(entries[k], garbage[k])
                IN  /\ line \in Lines /\ Len(line) = 6
                    /\ line[5] = <<48 + entries[k].freq>> /\ line[6] = <<48 + entries[k].passno>>
      <4>1. entries[k] \in Row /\ garbage[k] \in [1..3 -> Garbage] BY <1>2, <3>1
      <4> QED BY <4>1, LineTyped
    <3>3. \A k \in 1..count - 1 : k \in 1..count BY <3>1
    <3>4. before \in Seq(Lines) /\ Len(before) = count - 1
      <4> DEFINE i == count - 1
      <4>1. \A k \in 1..i : before[k] \in Lines BY <3>2, <3>3
      <4>2. before = [k \in 1..i |-> before[k]] /\ i \in Nat BY <3>1
      <4> HIDE DEF before, i
      <4>3. [k \in 1..i |-> before[k]] \in Seq(Lines) /\ Len([k \in 1..i |-> before[k]]) = i
        BY <4>1, <4>2
      <4> QED BY <4>2, <4>3 DEF i
    <3>5. /\ last \in Lines
          /\ T!Plain(last) => /\ last[5] = <<48 + entries[count].freq>>
                              /\ last[6] = <<48 + entries[count].passno>>
      <4>1. count \in 1..count BY <3>1
      <4> DEFINE line == T!Line(entries[count], garbage[count])
      <4>2. /\ line \in Lines /\ Len(line) = 6
            /\ line[5] = <<48 + entries[count].freq>> /\ line[6] = <<48 + entries[count].passno>>
        BY <3>2, <4>1
      <4>3. last \in T!Arrived(line) OBVIOUS
      <4> HIDE DEF line
      <4> QED BY <4>2, <4>3, ArrivedIs
    <3>6. \A k \in 1..count - 1 : before[k] = T!Line(entries[k], garbage[k]) OBVIOUS
    <3>7. file' = Append(before, last) BY <2>2
    <3> HIDE DEF before
    <3>8. /\ file' \in Seq(Lines) /\ Len(file') = count /\ file'[count] = last
          /\ \A k \in 1..count - 1 : file'[k] = before[k]
      <4>1. count - 1 + 1 = count BY <3>1
      <4>2. /\ Append(before, last) \in Seq(Lines) /\ Len(Append(before, last)) = Len(before) + 1
            /\ Append(before, last)[Len(before) + 1] = last
            /\ \A k \in 1..Len(before) : Append(before, last)[k] = before[k]
        BY <3>4, <3>5, AppendProperties
      <4> QED BY <3>4, <3>7, <4>1, <4>2
    <3>9. ASSUME NEW k \in 1..count, T!Plain(file'[k])
          PROVE file'[k][5] = <<48 + entries[k].freq>> /\ file'[k][6] = <<48 + entries[k].passno>>
      <4>1. CASE k = count BY <3>5, <3>8, <3>9, <4>1
      <4>2. CASE k # count
        <5>1. k \in 1..count - 1 BY <3>1, <4>2
        <5>2. file'[k] = T!Line(entries[k], garbage[k]) BY <3>6, <3>8, <5>1
        <5> QED BY <3>2, <5>2
      <4> QED BY <4>1, <4>2
    <3> QED BY <3>1, <3>8, <3>9 DEF Holds
  <2> QED BY <2>1, <2>2 DEF T!Save
<1>4. T!ListComesBack' BY <1>1 DEF T!ListComesBack
<1> QED BY <1>1, <1>3, <1>4 DEF ListInv, Holds

\* A file is loaded into at most as many entries as it has lines, and a file of
\* plain lines into one of each, with its numbers.
LEMMA FileLoadKeeps == ASSUME ListInv, T!Load PROVE ListInv'
<1>1. /\ entries' = T!FoldLeft(T!ReadLine, <<>>, file) /\ loaded' = TRUE
      /\ file' = file /\ saved' = saved
  BY DEF T!Load
<1> DEFINE n == Len(file)
<1>2. /\ n \in Nat /\ file \in Seq(Lines) /\ saved \in Seq(Row) /\ Holds(file, saved)
      /\ Len(saved) \in Nat /\ n <= Len(saved) /\ Len(saved) <= MaxEntries /\ MaxEntries \in Nat
  BY TextAssumption DEF ListInv, Holds
<1>3. PICK r \in [0..n -> Seq(Row)] :
        /\ r[0] = <<>> /\ \A k \in 1..n : r[k] = T!ReadLine(r[k - 1], file[k])
        /\ entries' = r[n]
  BY <1>1, <1>2, LoadRun
<1> DEFINE Short == {k \in Nat : k <= n => Len(r[k]) <= k}
           Same(k) == /\ Len(r[k]) = k
                      /\ \A j \in 1..k : r[k][j].freq = saved[j].freq /\ r[k][j].passno = saved[j].passno
           Alike == {k \in Nat : k <= n => Same(k)}
<1> HIDE DEF n
<1>4. ASSUME NEW k \in Nat, k + 1 <= n
      PROVE /\ k \in 0..n /\ k <= n /\ k + 1 \in 1..n /\ r[k] \in Seq(Row) /\ file[k + 1] \in Lines
            /\ r[k + 1] = T!ReadLine(r[k], file[k + 1])
  <2>1. k \in 0..n /\ k <= n /\ k + 1 \in 1..n /\ (k + 1) - 1 = k BY <1>2, <1>4
  <2>2. file[k + 1] \in Lines BY <1>2, <2>1 DEF n
  <2> QED BY <1>3, <2>1, <2>2
<1>5. Len(r[0]) = 0 BY <1>3
<1>6. \A k \in Nat : k \in Short
  <2>1. 0 \in Short BY <1>5
  <2>2. ASSUME NEW k \in Nat, k \in Short PROVE k + 1 \in Short
    <3>1. CASE k + 1 <= n
      <4>1. Len(r[k]) <= k BY <1>4, <2>2, <3>1
      <4>2. Len(r[k + 1]) <= Len(r[k]) + 1 /\ r[k + 1] \in Seq(Row) BY <1>4, <3>1, ReadLineTyped
      <4>3. Len(r[k]) \in Nat /\ Len(r[k + 1]) \in Nat BY <1>4, <3>1, <4>2
      <4> QED BY <4>1, <4>2, <4>3
    <3> QED BY <3>1
  <2> HIDE DEF Short
  <2> QED BY <2>1, <2>2, Induct
<1>7. n \in 0..n /\ n <= n BY <1>2
<1>8. entries' \in Seq(Row) /\ Len(entries') \in Nat /\ Len(entries') <= n BY <1>2, <1>3, <1>6, <1>7
<1>9. ASSUME \A k \in DOMAIN file : T!Plain(file[k])
      PROVE \A j \in DOMAIN entries' : /\ entries'[j].passno = saved[j].passno
                                       /\ entries'[j].freq = saved[j].freq
  <2>1. 0 \in Alike
    <3>1. \A j \in 1..0 : FALSE OBVIOUS
    <3> QED BY <1>5, <3>1
  <2>2. ASSUME NEW k \in Nat, k \in Alike PROVE k + 1 \in Alike
    <3>1. CASE k + 1 <= n
      <4> DEFINE i == k + 1
                 line == file[i]
                 f == saved[i].freq
                 p == saved[i].passno
      <4>1. Same(k) BY <1>4, <2>2, <3>1
      <4>2. i \in 1..n /\ i \in 1..Len(saved) /\ line \in Lines /\ r[k] \in Seq(Row)
            /\ r[i] = T!ReadLine(r[k], line)
        BY <1>2, <1>4, <3>1
      <4>3. saved[i] \in Row BY <1>2, <4>2
      <4>4. f \in 0..9 /\ p \in 0..9 BY <4>3 DEF Row
      <4>5. T!Plain(line)
        <5>1. i \in DOMAIN file BY <1>2, <4>2 DEF n
        <5> QED BY <1>9, <5>1
      <4>6. line[5] = <<48 + f>> /\ line[6] = <<48 + p>> BY <1>2, <4>2, <4>5 DEF Holds, n
      <4> DEFINE list == r[k]
      <4>7. Adds(r[i], r[k], f, p)
        <5>1. list \in Seq(Row) /\ line \in Lines BY <4>2
        <5>2. r[i] = T!ReadLine(list, line) BY <4>2
        <5> HIDE DEF line, f, p, i, list
        <5>3. Adds(T!ReadLine(list, line), list, f, p) BY <4>4, <4>5, <4>6, <5>1, PlainIsRead
        <5> QED BY <5>2, <5>3 DEF list
      <4> HIDE DEF line, f, p, i, list
      <4>8. \A j \in 1..i : j \in 1..k \/ j = i BY DEF i
      <4>9. /\ Len(r[i]) = i
            /\ \A j \in 1..i : r[i][j].freq = saved[j].freq /\ r[i][j].passno = saved[j].passno
        <5>1. Len(r[i]) = i BY <4>1, <4>7 DEF i, Adds
        <5>2. \A j \in 1..k : r[i][j] = r[k][j] BY <4>1, <4>7 DEF Adds
        <5>3. r[i][i].freq = saved[i].freq /\ r[i][i].passno = saved[i].passno
          BY <4>1, <4>7 DEF f, p, i, Adds
        <5> QED BY <4>1, <4>8, <5>1, <5>2, <5>3
      <4>10. Same(i) BY <4>9
      <4> HIDE DEF Same
      <4> QED BY <4>10 DEF i
    <3> QED BY <3>1
  <2>3. \A k \in Nat : k \in Alike
    <3> HIDE DEF Alike
    <3> QED BY <2>1, <2>2, Induct
  <2>4. Same(n) BY <1>2, <1>7, <2>3
  <2>5. DOMAIN entries' = 1..n BY <1>3, <1>8, <2>4
  <2> QED BY <1>3, <2>4, <2>5
<1>10. Len(entries') <= Len(saved) /\ Len(entries') <= MaxEntries BY <1>2, <1>8
<1>11. T!ListComesBack'
  <2>1. (\A k \in DOMAIN file' : T!Plain(file'[k])) =>
          \A j \in DOMAIN entries' : /\ entries'[j].passno = saved'[j].passno
                                     /\ entries'[j].freq = saved'[j].freq
    BY <1>1, <1>9
  <2>2. Len(entries') <= Len(saved') BY <1>1, <1>10
  <2> QED BY <2>1, <2>2 DEF T!ListComesBack, T!Plain, T!Hash
<1> QED BY <1>1, <1>2, <1>8, <1>10, <1>11 DEF ListInv, Holds

LEMMA ListNext == ASSUME ListInv, [T!Next]_tv PROVE ListInv'
<1>1. CASE UNCHANGED tv BY <1>1 DEF tv, ListInv, Holds, T!ListComesBack
<1>2. UNCHANGED T!fstab => ListInv' BY DEF T!fstab, ListInv, Holds, T!ListComesBack
<1>3. ASSUME NEW e, NEW passno, T!Make(e, passno) PROVE ListInv' BY <1>2, <1>3 DEF T!Make
<1>4. CASE T!Convert BY <1>2, <1>4 DEF T!Convert
<1>5. ASSUME NEW around, T!Parse(around) PROVE ListInv' BY <1>2, <1>5 DEF T!Parse
<1>6. ASSUME NEW e \in {T!BindRO(T!Bind, T!Proc), [T!ProcEntry EXCEPT !.opts = <<>>]},
             NEW passno \in 0..1, T!Push(e, passno)
      PROVE ListInv'
  BY <1>6, GivenIsRow, PushKeeps
<1> QED BY <1>1, <1>3, <1>4, <1>5, <1>6, SaveKeeps, FileLoadKeeps DEF T!Next

-----------------------------------------------------------------------------
(* Both *)

LEMMA MountTyped == ASSUME ConvInv, ListInv PROVE T!TypeOK
<1>1. {Len(entries), Len(file), Len(saved)} \subseteq 0..MaxEntries
  <2>1. /\ Len(entries) \in Nat /\ Len(file) \in Nat /\ Len(saved) \in Nat /\ MaxEntries \in Nat
    BY TextAssumption DEF ListInv
  <2> QED BY <2>1 DEF ListInv, Holds
<1>2. parsed \in BOOLEAN /\ loaded \in BOOLEAN BY DEF ConvInv, ListInv
<1> QED BY <1>1, <1>2, ConvTyped DEF T!TypeOK

LEMMA MountReturns == ASSUME ConvInv, ListInv PROVE T!WrittenIsRead
BY EntriesReturn DEF ListInv, T!WrittenIsRead
=============================================================================
