------------------------ MODULE LevelControllerProofs ------------------------
(***************************************************************************)
(* Why the refresh of a live playlist goes on and never doubles, for any   *)
(* streams, any playlists and any failures; why the merge of two playlists *)
(* works with slices of one second and with no others; and where a list    *)
(* says, with those, that its fragments start, and which of them is asked  *)
(* for.                                                                    *)
(***************************************************************************)
EXTENDS LevelController, FiniteSetTheorems, WellFoundedInduction, TLAPS

(***************************************************************************)
(* Numbers.  An induction goes over a set of them, and what a definition   *)
(* computes by counting up is a function that exists and is the only one.  *)
(***************************************************************************)

LEMMA LeastOf ==
    ASSUME NEW T, T \subseteq Nat, T # {}
    PROVE  \E x \in T : \A y \in T : x <= y
<1>. DEFINE R == {q \in Nat \X Nat : q[1] < q[2]}
<1>1. R = OpToRel(<, Nat)
  BY Zenon DEF OpToRel
<1>2. IsWellFoundedOn(R, Nat)
  BY <1>1, NatLessThanWellFounded
<1>3. PICK x \in T : \A y \in T : ~(<<y, x>> \in R)
  <2>. HIDE DEF R
  <2>. QED
    BY <1>2, WFMin
<1>4. ASSUME NEW y \in T PROVE x <= y
  <2>1. ~(y < x)
    BY <1>3
  <2>. QED
    BY <2>1
<1>. QED
  BY <1>4

LEMMA CountUp ==
    ASSUME NEW n \in Nat, NEW T, 0 \in T, \A i \in 1 .. n : i - 1 \in T => i \in T
    PROVE  \A i \in 0 .. n : i \in T
<1>. DEFINE Bad == {i \in Nat : i <= n /\ i \notin T}
<1>1. CASE Bad = {}
  BY <1>1
<1>2. CASE Bad # {}
  <2>1. PICK i \in Bad : \A j \in Bad : i <= j
    <3>1. Bad \subseteq Nat
      OBVIOUS
    <3>. HIDE DEF Bad
    <3>. QED
      BY <1>2, <3>1, LeastOf
  <2>2. i # 0 /\ i \in 1 .. n /\ i - 1 \in Nat /\ i - 1 <= n
    BY <2>1
  <2>3. i - 1 \in T
    BY <2>1, <2>2
  <2>. QED
    BY <2>1, <2>2, <2>3
<1>. QED
  BY <1>1, <1>2

LEMMA MostOf ==
    ASSUME NEW n \in Nat, NEW T, T \subseteq 1 .. n, T # {}
    PROVE  \E x \in T : \A y \in T : y <= x
<1>. DEFINE D == {d \in Nat : n - d \in T}
<1>1. D \subseteq Nat /\ D # {}
  <2>1. PICK x \in T : TRUE
    OBVIOUS
  <2>2. n - x \in Nat /\ n - (n - x) = x
    BY <2>1
  <2>. QED
    BY <2>1, <2>2
<1>2. PICK d \in D : \A e \in D : d <= e
  <2>. HIDE DEF D
  <2>. QED
    BY <1>1, LeastOf
<1>3. ASSUME NEW y \in T PROVE y <= n - d
  <2>1. n - y \in Nat /\ n - (n - y) = y
    BY DEF D
  <2>2. d <= n - y
    BY <1>2, <2>1
  <2>. QED
    BY <2>1, <2>2
<1>. QED
  BY <1>2, <1>3

Iterates(g, step, n) == \A i \in 1 .. n : g[i] = step[<<i, g[i - 1]>>]

LEMMA Iteration ==
    ASSUME NEW S, NEW n \in Nat, NEW a \in S, NEW step \in [(1 .. n) \X S -> S]
    PROVE  \E g \in [0 .. n -> S] : g[0] = a /\ Iterates(g, step, n)
<1>. DEFINE Fits(g, k) == g[0] = a /\ \A i \in 1 .. k : g[i] = step[<<i, g[i - 1]>>]
            T == {k \in 0 .. n : \E g \in [0 .. k -> S] : Fits(g, k)}
<1>1. 0 \in T
  <2>1. PICK g : g = [i \in 0 .. 0 |-> a]
    OBVIOUS
  <2>2. g \in [0 .. 0 -> S] /\ Fits(g, 0)
    BY <2>1
  <2>. QED
    BY <2>2
<1>2. ASSUME NEW k \in 1 .. n, k - 1 \in T PROVE k \in T
  <2>1. PICK g \in [0 .. k - 1 -> S] : Fits(g, k - 1)
    BY <1>2
  <2>2. PICK w \in S : w = g[k - 1]
    BY <2>1
  <2>3. PICK v \in S : v = step[<<k, w>>]
    OBVIOUS
  <2>4. PICK h : h = [i \in 0 .. k |-> IF i = k THEN v ELSE g[i]]
    OBVIOUS
  <2>5. h \in [0 .. k -> S]
    BY <2>1, <2>3, <2>4
  <2>6. ASSUME NEW i \in 1 .. k PROVE h[i] = step[<<i, h[i - 1]>>]
    <3>1. h[i - 1] = g[i - 1]
      BY <2>4
    <3>2. CASE i = k
      <4>1. h[i] = v /\ h[i - 1] = w
        BY <2>2, <2>4, <3>1, <3>2
      <4>. QED
        BY <2>3, <3>2, <4>1
    <3>3. CASE i # k
      <4>1. i \in 1 .. k - 1 /\ h[i] = g[i]
        BY <2>4, <3>3
      <4>. QED
        BY <2>1, <3>1, <4>1
    <3>. QED
      BY <3>2, <3>3
  <2>7. h[0] = a
    BY <2>1, <2>4
  <2>8. Fits(h, k)
    BY <2>6, <2>7
  <2>. QED
    BY <2>5, <2>8
<1>3. n \in T
  <2>. HIDE DEF T
  <2>. QED
    BY <1>1, <1>2, CountUp
<1>. QED
  BY <1>3 DEF Iterates

Alike(f, g, n) == \A i \in 1 .. n : f[i - 1] = g[i - 1] => f[i] = g[i]

\* Two that start alike and step alike are alike.
LEMMA SameIteration ==
    ASSUME NEW n \in Nat, NEW f, NEW g, f[0] = g[0], Alike(f, g, n)
    PROVE  \A i \in 0 .. n : f[i] = g[i]
<1>. DEFINE T == {i \in Nat : f[i] = g[i]}
<1>1. 0 \in T /\ \A i \in 1 .. n : i - 1 \in T => i \in T
  BY DEF Alike
<1>2. \A i \in 0 .. n : i \in T
  <2>. HIDE DEF T
  <2>. QED
    BY <1>1, CountUp
<1>. QED
  BY <1>2

(***************************************************************************)
(* The details of a level.                                                 *)
(***************************************************************************)

Fragments(ls) ==
    [level : ls, sn : Int, slice : Int, start : Int, dur : Int,
     pts : Int, pte : Int]

Lists(ls) == [1 .. Listed -> Fragments(ls)]

Details(d, ls) ==
    d # NoDetails =>
      /\ DOMAIN d = {"startSN", "frags", "known"}
      /\ d.startSN \in Int /\ d.frags \in Lists(ls)

LEMMA ListLen ==
    ASSUME NEW ls, NEW fs \in Lists(ls)
    PROVE  Len(fs) = Listed /\ DOMAIN fs = 1 .. Listed
BY PlaylistAssumption DEF Lists

LEMMA UpdatePTSTyped ==
    ASSUME NEW ls, NEW fs \in Lists(ls), NEW from \in 1 .. Listed, NEW to \in 1 .. Listed
    PROVE  UpdatePTS(fs, from, to) \in Lists(ls)
<1>1. PICK f, t : f = fs[from] /\ t = fs[to]
  OBVIOUS
<1>2. f \in Fragments(ls) /\ t \in Fragments(ls)
  BY <1>1 DEF Lists
<1>3. PICK a \in Int, b \in Int, c \in Int, d \in Int :
         a = t.pts - f.start /\ b = f.start - t.pts /\ c = EndOf(f)
         /\ d = Greater(f.start - t.dur, 0)
  BY <1>2 DEF Fragments, EndOf, Greater
<1>4. /\ [f EXCEPT !.dur = a] \in Fragments(ls) /\ [t EXCEPT !.dur = b] \in Fragments(ls)
      /\ [t EXCEPT !.start = c] \in Fragments(ls) /\ [t EXCEPT !.start = d] \in Fragments(ls)
  BY <1>2 DEF Fragments
<1>5. UpdatePTS(fs, from, to) \in
         {[fs EXCEPT ![from] = [f EXCEPT !.dur = a]], [fs EXCEPT ![to] = [t EXCEPT !.dur = b]],
          [fs EXCEPT ![to] = [t EXCEPT !.start = c]], [fs EXCEPT ![to] = [t EXCEPT !.start = d]]}
  BY <1>1, <1>3 DEF UpdatePTS
<1>6. \A g \in Fragments(ls), i \in 1 .. Listed : [fs EXCEPT ![i] = g] \in Lists(ls)
  BY DEF Lists
<1>. HIDE DEF Lists, Fragments
<1>. QED
  BY <1>4, <1>5, <1>6

\* The two loops of updateFragPTSDTS, step by step.
Downwards(down, fs, k) ==
    down[0] = fs /\ \A i \in 1 .. k - 1 : down[i] = UpdatePTS(down[i - 1], k - i + 1, k - i)

Upwards(up, fs, k) ==
    up[0] = fs /\ \A i \in 1 .. Listed - k : up[i] = UpdatePTS(up[i - 1], k + i - 1, k + i)

LEMMA Loops ==
    ASSUME NEW ls, NEW fs \in Lists(ls), NEW k \in 1 .. Listed
    PROVE  \E down \in [0 .. k - 1 -> Lists(ls)], up \in [0 .. Listed - k -> Lists(ls)] :
             Downwards(down, fs, k) /\ Upwards(up, down[k - 1], k)
<1>. DEFINE S == Lists(ls)
<1>0. Listed \in Nat \ {0} /\ k - 1 \in Nat /\ Listed - k \in Nat
  BY PlaylistAssumption
<1>1. PICK down \in [0 .. k - 1 -> S] : Downwards(down, fs, k)
  <2>1. PICK step : step = [x \in (1 .. k - 1) \X S |-> UpdatePTS(x[2], k - x[1] + 1, k - x[1])]
    OBVIOUS
  <2>2. \A i \in 1 .. k - 1 : k - i + 1 \in 1 .. Listed /\ k - i \in 1 .. Listed
    BY <1>0
  <2>3. step \in [(1 .. k - 1) \X S -> S]
    <3>1. \A i \in 1 .. k - 1, v \in S : UpdatePTS(v, k - i + 1, k - i) \in S
      BY <2>2, UpdatePTSTyped
    <3>. HIDE DEF S
    <3>. QED
      BY <2>1, <3>1
  <2>4. PICK g \in [0 .. k - 1 -> S] :
           g[0] = fs /\ Iterates(g, step, k - 1)
    <3>1. fs \in S
      OBVIOUS
    <3>. HIDE DEF S
    <3>. QED
      BY <1>0, <2>3, <3>1, Iteration
  <2>5. ASSUME NEW i \in 1 .. k - 1 PROVE g[i] = UpdatePTS(g[i - 1], k - i + 1, k - i)
    <3>1. <<i, g[i - 1]>> \in (1 .. k - 1) \X S
      BY <1>0, <2>4
    <3>2. PICK v : v = g[i - 1]
      OBVIOUS
    <3>. QED
      BY <2>1, <2>4, <3>1, <3>2 DEF Iterates
  <2>. QED
    BY <2>4, <2>5 DEF Downwards
<1>2. PICK up \in [0 .. Listed - k -> S] : Upwards(up, down[k - 1], k)
  <2>0. down[k - 1] \in S
    BY <1>0, <1>1
  <2>1. PICK step : step = [x \in (1 .. Listed - k) \X S |-> UpdatePTS(x[2], k + x[1] - 1, k + x[1])]
    OBVIOUS
  <2>2. \A i \in 1 .. Listed - k : k + i - 1 \in 1 .. Listed /\ k + i \in 1 .. Listed
    BY <1>0
  <2>3. step \in [(1 .. Listed - k) \X S -> S]
    <3>1. \A i \in 1 .. Listed - k, v \in S : UpdatePTS(v, k + i - 1, k + i) \in S
      BY <2>2, UpdatePTSTyped
    <3>. HIDE DEF S
    <3>. QED
      BY <2>1, <3>1
  <2>4. PICK g \in [0 .. Listed - k -> S] :
           g[0] = down[k - 1] /\ Iterates(g, step, Listed - k)
    <3>. HIDE DEF S
    <3>. QED
      BY <1>0, <2>0, <2>3, Iteration
  <2>5. ASSUME NEW i \in 1 .. Listed - k PROVE g[i] = UpdatePTS(g[i - 1], k + i - 1, k + i)
    <3>1. <<i, g[i - 1]>> \in (1 .. Listed - k) \X S
      BY <1>0, <2>4
    <3>2. PICK v : v = g[i - 1]
      OBVIOUS
    <3>. QED
      BY <2>1, <2>4, <3>1, <3>2 DEF Iterates
  <2>. QED
    BY <2>4, <2>5 DEF Upwards
<1>. QED
  BY <1>1, <1>2

LEMMA PropagateSteps ==
    ASSUME NEW ls, NEW fs \in Lists(ls), NEW k \in 1 .. Listed
    PROVE  \E down \in [0 .. k - 1 -> Lists(ls)], up \in [0 .. Listed - k -> Lists(ls)] :
             Downwards(down, fs, k) /\ Upwards(up, down[k - 1], k) /\ Propagate(fs, k) = up[Listed - k]
<1>. DEFINE S == Lists(ls)
            D == CHOOSE down : down = [i \in 0 .. k - 1 |->
                    IF i = 0 THEN fs ELSE UpdatePTS(down[i - 1], k - i + 1, k - i)]
            U == CHOOSE up : up = [i \in 0 .. Len(fs) - k |->
                    IF i = 0 THEN D[k - 1] ELSE UpdatePTS(up[i - 1], k + i - 1, k + i)]
<1>0. Listed \in Nat \ {0} /\ k - 1 \in Nat /\ Listed - k \in Nat
  BY PlaylistAssumption
<1>1. PICK down \in [0 .. k - 1 -> S], up \in [0 .. Listed - k -> S] :
         Downwards(down, fs, k) /\ Upwards(up, down[k - 1], k)
  <2>. HIDE DEF D, U
  <2>. QED
    BY Loops
<1>3. \A i \in 0 .. k - 1 : D[i] = down[i]
  <2>1. down = [i \in 0 .. k - 1 |->
                  IF i = 0 THEN fs ELSE UpdatePTS(down[i - 1], k - i + 1, k - i)]
    BY <1>0, <1>1 DEF Downwards
  <2>2. D = [i \in 0 .. k - 1 |-> IF i = 0 THEN fs ELSE UpdatePTS(D[i - 1], k - i + 1, k - i)]
    BY Zenon, <2>1
  <2>. HIDE DEF D, U, S
  <2>3. D[0] = fs /\ \A i \in 1 .. k - 1 : D[i] = UpdatePTS(D[i - 1], k - i + 1, k - i)
    BY <1>0, <2>2
  <2>4. D[0] = down[0] /\ Alike(D, down, k - 1)
    BY <1>1, <2>3 DEF Alike, Downwards
  <2>. QED
    BY <1>0, <2>4, SameIteration
<1>4. \A i \in 0 .. Listed - k : U[i] = up[i]
  <2>0. Len(fs) = Listed
    BY ListLen
  <2>1. up = [i \in 0 .. Listed - k |->
                IF i = 0 THEN D[k - 1] ELSE UpdatePTS(up[i - 1], k + i - 1, k + i)]
    <3>1. D[k - 1] = down[k - 1]
      BY <1>0, <1>3
    <3>. HIDE DEF D, U, S
    <3>. QED
      BY <1>0, <1>1, <3>1 DEF Upwards
  <2>. HIDE DEF D, S
  <2>2. U = [i \in 0 .. Listed - k |->
               IF i = 0 THEN D[k - 1] ELSE UpdatePTS(U[i - 1], k + i - 1, k + i)]
    BY Zenon, <2>0, <2>1
  <2>. HIDE DEF U
  <2>3. U[0] = D[k - 1] /\ \A i \in 1 .. Listed - k : U[i] = UpdatePTS(U[i - 1], k + i - 1, k + i)
    BY <1>0, <2>2
  <2>4. D[k - 1] = down[k - 1]
    BY <1>0, <1>3
  <2>5. U[0] = up[0] /\ Alike(U, up, Listed - k)
    BY <1>1, <2>3, <2>4 DEF Alike, Upwards
  <2>. QED
    BY <1>0, <2>5, SameIteration
<1>5. Propagate(fs, k) = U[Len(fs) - k]
  BY Zenon DEF Propagate
<1>6. Propagate(fs, k) = up[Listed - k]
  <2>1. Len(fs) = Listed
    BY ListLen
  <2>. HIDE DEF U, S
  <2>. QED
    BY <1>0, <1>4, <1>5, <2>1
<1>. QED
  BY <1>1, <1>6

(***************************************************************************)
(* What is done to the details keeps them details: the lists stay as long, *)
(* their fragments stay fragments of a level there is.                     *)
(***************************************************************************)

LEMMA PropagateTyped ==
    ASSUME NEW ls, NEW fs \in Lists(ls), NEW k \in 1 .. Listed
    PROVE  Propagate(fs, k) \in Lists(ls)
<1>1. Listed - k \in 0 .. Listed - k
  BY PlaylistAssumption
<1>2. PICK down \in [0 .. k - 1 -> Lists(ls)], up \in [0 .. Listed - k -> Lists(ls)] :
         Propagate(fs, k) = up[Listed - k]
  BY PropagateSteps
<1>. QED
  BY <1>1, <1>2

Ranges(size) == [lo : 1 .. size + 1, hi : 0 .. size]

\* A binary search ends within the list, on something that does not send it on,
\* and where nothing sends it on it finds something.
LEMMA SearchWithin ==
    ASSUME NEW c, Len(c) \in Nat
    PROVE  /\ Search(c) \in 0 .. Len(c)
           /\ Search(c) # 0 => c[Search(c)] # 1 /\ c[Search(c)] # -1
           /\ Len(c) > 0 /\ (\A i \in 1 .. Len(c) : c[i] = 0) => Search(c) \in 1 .. Len(c)
<1>. DEFINE size == Len(c)
            S == Ranges(size)
            middle(r) == (r.lo + r.hi) \div 2
            narrow(r) ==
              IF r.lo > r.hi THEN r
              ELSE CASE c[middle(r)] = 1  -> [r EXCEPT !.lo = middle(r) + 1]
                     [] c[middle(r)] = -1 -> [r EXCEPT !.hi = middle(r) - 1]
                     [] OTHER -> r
            first == [lo |-> 1, hi |-> size]
            narrowing == [r \in S |-> narrow(r)]
            R == CHOOSE range : range = [i \in 0 .. size |->
                    IF i = 0 THEN [lo |-> 1, hi |-> size] ELSE narrowing[range[i - 1]]]
<1>1. first \in S
  BY DEF Ranges
<1>2. \A r \in S : r.lo <= r.hi => middle(r) \in r.lo .. r.hi
  <2>1. \A a, b \in Nat : a <= b => (a + b) \div 2 \in a .. b
    OBVIOUS
  <2>. QED
    BY <2>1 DEF Ranges
<1>3. \A r \in S : narrow(r) \in S
  <2>1. SUFFICES ASSUME NEW r \in S, r.lo <= r.hi PROVE narrow(r) \in S
    BY DEF Ranges
  <2>2. PICK m \in 1 .. size : m = middle(r)
    BY <1>2, <2>1 DEF Ranges
  <2>3. [r EXCEPT !.lo = m + 1] \in S /\ [r EXCEPT !.hi = m - 1] \in S
    BY DEF Ranges
  <2>4. narrow(r) \in {r, [r EXCEPT !.lo = m + 1], [r EXCEPT !.hi = m - 1]}
    <3>1. CASE c[m] = 1
      BY <2>1, <2>2, <3>1 DEF Ranges
    <3>2. CASE c[m] = -1
      BY <2>1, <2>2, <3>2 DEF Ranges
    <3>3. CASE c[m] # 1 /\ c[m] # -1
      BY <2>1, <2>2, <3>3 DEF Ranges
    <3>. QED
      BY <3>1, <3>2, <3>3
  <2>. HIDE DEF S, narrow
  <2>. QED
    BY <2>3, <2>4
<1>4. PICK step : step = [x \in (1 .. size) \X S |-> narrow(x[2])]
  OBVIOUS
<1>5. \A r \in S : narrowing[r] = narrow(r)
  <2>. HIDE DEF narrow, S
  <2>. QED
    OBVIOUS
<1>. HIDE DEF middle, narrow, narrowing, S, first, R
<1>6. step \in [(1 .. size) \X S -> S]
  BY <1>3, <1>4
<1>7. PICK g \in [0 .. size -> S] : g[0] = first /\ Iterates(g, step, size)
  BY <1>1, <1>6, Iteration
<1>8. ASSUME NEW i \in 1 .. size PROVE g[i - 1] \in S /\ g[i] = narrow(g[i - 1]) /\ g[i] = narrowing[g[i - 1]]
  <2>1. g[i - 1] \in S
    BY <1>7
  <2>2. PICK v \in S : v = g[i - 1]
    BY <2>1
  <2>3. g[i] = step[<<i, v>>]
    BY <1>7, <2>2 DEF Iterates
  <2>. QED
    BY <1>4, <1>5, <2>2, <2>3
<1>9. g = [i \in 0 .. size |-> IF i = 0 THEN first ELSE narrowing[g[i - 1]]]
  BY <1>7, <1>8
<1>10. R = [i \in 0 .. size |-> IF i = 0 THEN first ELSE narrowing[R[i - 1]]]
  BY Zenon, <1>9 DEF R, first
<1>11. \A i \in 0 .. size : R[i] = g[i]
  <2>1. R[0] = first /\ \A i \in 1 .. size : R[i] = narrowing[R[i - 1]]
    <3>1. 0 \in 0 .. size
      OBVIOUS
    <3>2. R[0] = first
      BY Zenon, <1>10, <3>1
    <3>3. ASSUME NEW i \in 1 .. size PROVE R[i] = narrowing[R[i - 1]]
      <4>1. i \in 0 .. size /\ i # 0
        OBVIOUS
      <4>. QED
        BY Zenon, <1>10, <4>1
    <3>. QED
      BY <3>2, <3>3
  <2>2. R[0] = g[0] /\ Alike(R, g, size)
    BY <1>7, <1>8, <2>1 DEF Alike
  <2>. QED
    BY <2>2, SameIteration
<1>12. R[size] = g[size] /\ g[size] \in S
  BY <1>7, <1>11
<1>13. Search(c) = IF R[size].lo > R[size].hi THEN 0 ELSE middle(R[size])
  BY Zenon DEF Search, R, narrowing, narrow, middle, S, Ranges
<1>14. Search(c) \in 0 .. size
  <2>1. PICK r \in S : r = R[size]
    BY <1>12
  <2>2. r.lo \in 1 .. size + 1 /\ r.hi \in 0 .. size
    BY <2>1 DEF S, Ranges
  <2>. QED
    BY <1>2, <1>13, <2>1, <2>2
<1>15. ASSUME size > 0, \A i \in 1 .. size : c[i] = 0 PROVE Search(c) \in 1 .. size
  <2>1. narrow(first) = first
    <3>1. first \in S /\ first.lo = 1 /\ first.hi = size
      BY <1>1 DEF first
    <3>2. middle(first) \in 1 .. size
      BY <1>2, <1>15, <3>1
    <3>3. c[middle(first)] = 0
      BY <1>15, <3>2
    <3>. QED
      BY <1>15, <3>1, <3>3 DEF narrow
  <2>. DEFINE T == {i \in Nat : g[i] = first}
  <2>2. 0 \in T /\ \A i \in 1 .. size : i - 1 \in T => i \in T
    BY <1>7, <1>8, <2>1
  <2>3. size \in T
    <3>1. \A i \in 0 .. size : i \in T
      <4>. HIDE DEF T
      <4>. QED
        BY <2>2, CountUp
    <3>. QED
      BY <3>1
  <2>4. R[size] = first
    BY <1>12, <2>3
  <2>5. middle(first) \in 1 .. size /\ first.lo = 1 /\ first.hi = size
    BY <1>1, <1>2, <1>15 DEF first
  <2>. QED
    BY <1>13, <1>15, <2>4, <2>5
<1>16. ASSUME Search(c) # 0 PROVE c[Search(c)] # 1 /\ c[Search(c)] # -1
  <2>. DEFINE Ended(r) == r.lo > r.hi \/ (c[middle(r)] # 1 /\ c[middle(r)] # -1)
              T == {i \in Nat : Ended(g[i]) \/ g[i].hi - g[i].lo <= size - 1 - i}
  <2>1. 0 \in T
    BY <1>7 DEF first
  <2>2. ASSUME NEW i \in 1 .. size, i - 1 \in T PROVE i \in T
    <3>1. PICK r \in S : r = g[i - 1] /\ g[i] = narrow(r)
      BY <1>8
    <3>2. PICK a \in 1 .. size + 1, b \in 0 .. size : a = r.lo /\ b = r.hi
      BY DEF S, Ranges
    <3>3. CASE Ended(r)
      <4>1. narrow(r) = r
        BY <3>3 DEF narrow
      <4>. QED
        BY <3>1, <3>3, <4>1
    <3>4. CASE ~Ended(r)
      <4>1. b - a <= size - i /\ a <= b
        BY <2>2, <3>1, <3>2, <3>4
      <4>2. PICK m \in a .. b : m = middle(r)
        BY <1>2, <3>2, <4>1
      <4>3. \/ narrow(r) = [r EXCEPT !.lo = m + 1]
            \/ narrow(r) = [r EXCEPT !.hi = m - 1]
        BY <3>2, <3>4, <4>1, <4>2 DEF narrow
      <4>4. \/ g[i].lo = m + 1 /\ g[i].hi = b
            \/ g[i].lo = a /\ g[i].hi = m - 1
        BY <3>1, <3>2, <4>3 DEF S, Ranges
      <4>5. g[i].hi - g[i].lo <= size - 1 - i
        BY <4>1, <4>2, <4>4
      <4>. QED
        BY <4>5
    <3>. QED
      BY <3>3, <3>4
  <2>3. size \in T
    <3>1. \A i \in 0 .. size : i \in T
      <4>. HIDE DEF T
      <4>. QED
        BY <2>1, <2>2, CountUp
    <3>. QED
      BY <3>1
  <2>4. PICK r \in S : r = R[size] /\ r = g[size]
    BY <1>12
  <2>5. r.lo <= r.hi /\ Search(c) = middle(r)
    <3>1. r.lo \in Int /\ r.hi \in Int
      BY DEF S, Ranges
    <3>. QED
      BY <1>13, <1>16, <2>4, <3>1
  <2>6. Ended(r)
    <3>1. Ended(r) \/ r.hi - r.lo <= size - 1 - size
      BY <2>3, <2>4
    <3>2. r.lo \in Int /\ r.hi \in Int
      BY DEF S, Ranges
    <3>. QED
      BY <2>5, <3>1, <3>2
  <2>. QED
    BY <2>5, <2>6 DEF S, Ranges
<1>. QED
  BY <1>14, <1>15, <1>16

LEMMA FragmentTimes ==
    ASSUME NEW ls, NEW f \in Fragments(ls), NEW start \in Int, NEW dur \in Int,
           NEW pts \in Int, NEW pte \in Int
    PROVE  /\ [f EXCEPT !.start = start, !.pts = pts, !.pte = pte, !.dur = dur] \in Fragments(ls)
           /\ [f EXCEPT !.start = start] \in Fragments(ls)
BY DEF Fragments

LEMMA TimedTyped ==
    ASSUME NEW ls, NEW f \in Fragments(ls), NEW pts \in Int, NEW pte \in Int
    PROVE  Timed(f, pts, pte) \in Fragments(ls)
<1>1. PICK s \in Int, e \in Int :
         /\ s = (IF f.pts = NaN THEN pts ELSE Lesser(pts, f.pts))
         /\ e = (IF f.pts = NaN THEN pte ELSE Greater(pte, f.pte))
  BY DEF Fragments, Lesser, Greater
<1>2. Timed(f, pts, pte) = [f EXCEPT !.start = s, !.pts = s, !.pte = e, !.dur = e - s]
  BY <1>1 DEF Timed
<1>3. PICK x \in Int : x = e - s
  OBVIOUS
<1>4. [f EXCEPT !.start = s, !.pts = s, !.pte = e, !.dur = x] \in Fragments(ls)
  BY FragmentTimes
<1>. QED
  BY <1>2, <1>3, <1>4

Parsed(d, ls) ==
    /\ DOMAIN d = {"startSN", "frags", "known"}
    /\ d.startSN \in Int /\ d.frags \in Lists(ls)

LEMMA ParsedIsDetails ==
    ASSUME NEW d, NEW ls, Parsed(d, ls)
    PROVE  d # NoDetails /\ Details(d, ls)
<1>1. Len(d.frags) = Listed
  BY ListLen DEF Parsed
<1>2. Len(NoDetails.frags) = 0
  BY DEF NoDetails
<1>. QED
  BY <1>1, <1>2, PlaylistAssumption DEF Parsed, Details

LEMMA NumberedWithin ==
    ASSUME NEW d, NEW ls, Parsed(d, ls), NEW sn, HasSN(d, sn)
    PROVE  /\ sn - d.startSN + 1 \in 1 .. Listed
           /\ FragOf(d, sn) \in Fragments(ls)
<1>1. Len(d.frags) = Listed
  BY ListLen DEF Parsed
<1>2. d.startSN \in Int /\ d.frags \in Lists(ls)
  BY DEF Parsed
<1>3. sn - d.startSN + 1 \in 1 .. Listed
  BY <1>1, <1>2, PlaylistAssumption DEF HasSN, EndSN
<1>4. d.frags[sn - d.startSN + 1] \in Fragments(ls)
  BY <1>2, <1>3 DEF Lists
<1>. QED
  BY <1>3, <1>4 DEF FragOf

LEMMA UpdateTyped ==
    ASSUME NEW d, NEW ls, Details(d, ls), NEW f \in Fragments(ls), NEW pts \in Int, NEW pte \in Int
    PROVE  /\ Details(UpdateFragPTSDTS(d, f, pts, pte), ls)
           /\ d # NoDetails => Parsed(UpdateFragPTSDTS(d, f, pts, pte), ls)
<1>1. CASE d = NoDetails \/ ~HasSN(d, f.sn)
  BY <1>1 DEF UpdateFragPTSDTS, Details, Parsed
<1>2. CASE d # NoDetails /\ HasSN(d, f.sn)
  <2>1. Parsed(d, ls)
    BY <1>2 DEF Details, Parsed
  <2>2. PICK k \in 1 .. Listed : k = f.sn - d.startSN + 1
    BY <1>2, <2>1, NumberedWithin
  <2>3. [d.frags EXCEPT ![k] = Timed(f, pts, pte)] \in Lists(ls)
    <3>1. PICK g \in Fragments(ls) : g = Timed(f, pts, pte)
      BY TimedTyped
    <3>2. d.frags \in Lists(ls)
      BY <2>1 DEF Parsed
    <3>. QED
      BY <3>1, <3>2 DEF Lists
  <2>4. PICK fs \in Lists(ls) : fs = Propagate([d.frags EXCEPT ![k] = Timed(f, pts, pte)], k)
    BY <2>3, PropagateTyped
  <2>5. UpdateFragPTSDTS(d, f, pts, pte) = [d EXCEPT !.frags = fs, !.known = TRUE]
    BY <1>2, <2>2, <2>4 DEF UpdateFragPTSDTS
  <2>6. Parsed(UpdateFragPTSDTS(d, f, pts, pte), ls)
    BY <2>1, <2>5 DEF Parsed
  <2>. QED
    BY <2>6, ParsedIsDetails
<1>. QED
  BY <1>1, <1>2

LEMMA MergeTyped ==
    ASSUME NEW ls, NEW old, NEW new, Parsed(old, ls), Parsed(new, ls)
    PROVE  Parsed(MergeDetails(old, new), ls)
<1>. DEFINE Shared == {sn \in new.startSN .. EndSN(new) : HasSN(old, sn)}
            Kept0(f) ==
                 IF f.sn \in Shared /\ FragOf(old, f.sn).pts # NaN
                 THEN LET o == FragOf(old, f.sn)
                      IN [f EXCEPT !.start = o.pts, !.pts = o.pts, !.pte = o.pte, !.dur = o.dur]
                 ELSE f
            Frags == [i \in 1 .. Len(new.frags) |-> Kept0(new.frags[i])]
            Timeds == {i \in 1 .. Len(Frags) : Frags[i].pts # NaN}
            latest == CHOOSE i \in Timeds : \A j \in Timeds : j <= i
            Slid == [i \in 1 .. Len(Frags) |->
                 [Frags[i] EXCEPT !.start = @ + FragOf(old, new.startSN).start]]
            Placed0(fs) == [new EXCEPT !.frags = fs, !.known = old.known]
            Retimed == UpdateFragPTSDTS([new EXCEPT !.frags = Frags], Frags[latest],
                                        Frags[latest].pts, Frags[latest].pte)
<1>1. MergeDetails(old, new) =
         IF Shared = {} THEN new
         ELSE IF Timeds # {} THEN Placed0(Retimed.frags)
         ELSE IF HasSN(old, new.startSN) THEN Placed0(Slid) ELSE Placed0(Frags)
  BY Zenon DEF MergeDetails
<1>2. Len(new.frags) = Listed /\ Listed \in Nat /\ new.frags \in Lists(ls)
  BY ListLen, PlaylistAssumption DEF Parsed
<1>3. \A f \in Fragments(ls) : Kept0(f) \in Fragments(ls)
  <2>1. SUFFICES ASSUME NEW f \in Fragments(ls), HasSN(old, f.sn) PROVE Kept0(f) \in Fragments(ls)
    OBVIOUS
  <2>2. PICK o \in Fragments(ls) : o = FragOf(old, f.sn)
    BY <2>1, NumberedWithin
  <2>3. o.pts \in Int /\ o.pte \in Int /\ o.dur \in Int
    BY DEF Fragments
  <2>4. [f EXCEPT !.start = o.pts, !.pts = o.pts, !.pte = o.pte, !.dur = o.dur] \in Fragments(ls)
    BY <2>3, FragmentTimes
  <2>. HIDE DEF Shared
  <2>. QED
    BY <2>2, <2>4
<1>4. Frags \in Lists(ls)
  <2>1. \A i \in 1 .. Listed : new.frags[i] \in Fragments(ls)
    BY <1>2 DEF Lists
  <2>. HIDE DEF Kept0
  <2>. QED
    BY <1>2, <1>3, <2>1 DEF Lists
<1>5. Len(Frags) = Listed
  <2>. HIDE DEF Frags
  <2>. QED
    BY <1>4, ListLen
<1>6. \A fs \in Lists(ls) : Parsed(Placed0(fs), ls)
  <2>. HIDE DEF Frags, Shared
  <2>. QED
    BY DEF Parsed
<1>. HIDE DEF Frags, Shared, Placed0
<1>7. CASE Timeds # {}
  <2>1. Timeds \subseteq 1 .. Listed
    BY <1>5
  <2>2. latest \in Timeds
    <3>1. PICK x \in Timeds : \A y \in Timeds : y <= x
      <4>. HIDE DEF Timeds
      <4>. QED
        BY <1>2, <1>7, <2>1, MostOf
    <3>. HIDE DEF Timeds
    <3>. QED
      BY Zenon, <3>1
  <2>. HIDE DEF latest
  <2>3. PICK g \in Fragments(ls) : g = Frags[latest]
    BY <1>4, <2>1, <2>2 DEF Lists
  <2>4. g.pts \in Int /\ g.pte \in Int
    BY DEF Fragments
  <2>5. Parsed([new EXCEPT !.frags = Frags], ls)
    BY <1>4 DEF Parsed
  <2>6. Parsed(Retimed, ls)
    BY <2>3, <2>4, <2>5, ParsedIsDetails, UpdateTyped
  <2>7. Retimed.frags \in Lists(ls)
    BY <2>6 DEF Parsed
  <2>. HIDE DEF Retimed, Timeds
  <2>. QED
    BY <1>1, <1>6, <1>7, <2>7
<1>8. CASE Timeds = {} /\ HasSN(old, new.startSN)
  <2>1. PICK a \in Int : a = FragOf(old, new.startSN).start
    <3>1. FragOf(old, new.startSN) \in Fragments(ls)
      BY <1>8, NumberedWithin
    <3>. QED
      BY <3>1 DEF Fragments
  <2>2. Slid = [i \in 1 .. Listed |-> [Frags[i] EXCEPT !.start = Frags[i].start + a]]
    BY <1>5, <2>1
  <2>3. \A i \in 1 .. Listed : [Frags[i] EXCEPT !.start = Frags[i].start + a] \in Fragments(ls)
    <3>1. SUFFICES ASSUME NEW f \in Fragments(ls)
                   PROVE  [f EXCEPT !.start = f.start + a] \in Fragments(ls)
      BY <1>4 DEF Lists
    <3>2. f.start + a \in Int
      BY DEF Fragments
    <3>. QED
      BY <3>2 DEF Fragments
  <2>4. Slid \in Lists(ls)
    <3>. HIDE DEF Slid
    <3>. QED
      BY <2>2, <2>3 DEF Lists
  <2>. HIDE DEF Slid, Timeds
  <2>. QED
    BY <1>1, <1>6, <1>8, <2>4
<1>9. CASE Timeds = {} /\ ~HasSN(old, new.startSN)
  <2>. HIDE DEF Timeds
  <2>. QED
    BY <1>1, <1>4, <1>6, <1>9
<1>. QED
  BY <1>7, <1>8, <1>9

LEMMA ParseTyped ==
    ASSUME NEW ls, NEW l \in ls, NEW base \in Int
    PROVE  Parsed(ParseLevelPlaylist(l, base), ls)
<1>1. PICK m \in Int, sd \in Int : m = MediaSequence(base) /\ sd = SliceDuration
  BY PlaylistAssumption DEF MediaSequence
<1>2. \A i \in 1 .. Listed : (i - 1) * sd \in Int
  BY PlaylistAssumption
<1>3. \A i \in 1 .. Listed :
         [level |-> l, sn |-> m + i - 1, slice |-> base + i - 1, start |-> (i - 1) * sd,
          dur |-> sd, pts |-> NaN, pte |-> NaN] \in Fragments(ls)
  BY <1>2 DEF Fragments, NaN
<1>. QED
  BY <1>1, <1>3 DEF ParseLevelPlaylist, Parsed, Lists

\* The fragment that is asked for is one of the list.
Chosen(d) == {d.frags[i] : i \in 1 .. Listed}

LEMMA ChosenTyped ==
    ASSUME NEW d, NEW ls, Parsed(d, ls)
    PROVE  Chosen(d) \subseteq Fragments(ls)
BY DEF Chosen, Parsed, Lists

LEMMA NumberedChosen ==
    ASSUME NEW d, NEW ls, Parsed(d, ls), NEW sn, HasSN(d, sn)
    PROVE  FragOf(d, sn) \in Chosen(d)
BY NumberedWithin DEF FragOf, Chosen

LEMMA GuessTyped ==
    ASSUME NEW d, NEW ls, Parsed(d, ls), NEW prev
    PROVE  Guess(d, prev) \in Chosen(d)
<1>1. Len(d.frags) = Listed /\ Listed \in Nat \ {0} /\ d.frags \in Lists(ls)
  BY ListLen, PlaylistAssumption DEF Parsed
<1>2. CASE prev = NoFrag
  <2>1. Least({Listed, (Listed + 1) \div 2 + 1}) \in 1 .. Listed
    <3>. DEFINE T == {Listed, (Listed + 1) \div 2 + 1}
    <3>1. T \subseteq Nat /\ T # {} /\ \A x \in T : x >= 1
      BY <1>1
    <3>2. PICK x \in T : \A y \in T : x <= y
      <4>. HIDE DEF T
      <4>. QED
        BY <3>1, LeastOf
    <3>3. Least(T) \in T /\ \A y \in T : Least(T) <= y
      <4>. HIDE DEF T
      <4>. QED
        BY Zenon, <3>2 DEF Least
    <3>4. Least(T) <= Listed /\ Least(T) >= 1 /\ Least(T) \in Nat
      BY <3>1, <3>3
    <3>. QED
      BY <1>1, <3>4
  <2>. QED
    BY <1>1, <1>2, <2>1 DEF Guess, Chosen
<1>3. CASE prev # NoFrag /\ HasSN(d, prev.sn + 1)
  BY <1>3, NumberedChosen DEF Guess
<1>4. CASE prev # NoFrag /\ ~HasSN(d, prev.sn + 1)
  <2>. DEFINE c == [i \in 1 .. Len(d.frags) |-> 0]
  <2>1. Len(c) = Listed
    BY <1>1
  <2>2. Search(c) \in 1 .. Listed
    <3>1. \A i \in 1 .. Listed : c[i] = 0
      BY <1>1
    <3>. HIDE DEF c
    <3>. QED
      BY <1>1, <2>1, <3>1, SearchWithin
  <2>3. Guess(d, prev) = d.frags[Search(c)]
    BY <1>4 DEF Guess
  <2>. HIDE DEF c
  <2>. QED
    BY <1>1, <2>2, <2>3 DEF Chosen
<1>. QED
  BY <1>2, <1>3, <1>4

LEMMA FindTyped ==
    ASSUME NEW d, NEW ls, Parsed(d, ls), NEW prev, NEW bufferEnd
    PROVE  FindFragment(d, prev, bufferEnd) \in Chosen(d) \cup {NoFrag}
<1>. DEFINE next == prev.sn + 1
            c == [i \in 1 .. Len(d.frags) |-> Within(d.frags[i], bufferEnd)]
            found == IF bufferEnd >= End(d) THEN Len(d.frags)
                     ELSE IF prev # NoFrag /\ HasSN(d, next) /\ Within(FragOf(d, next), bufferEnd) = 0
                     THEN next - d.startSN + 1
                     ELSE Search(c)
<1>1. Len(d.frags) = Listed /\ Listed \in Nat \ {0} /\ d.frags \in Lists(ls)
  BY ListLen, PlaylistAssumption DEF Parsed
<1>2. FindFragment(d, prev, bufferEnd) =
         IF found = 0 THEN NoFrag
         ELSE IF prev = NoFrag \/ prev.sn # d.frags[found].sn \/ prev.level # d.frags[found].level
         THEN d.frags[found]
         ELSE IF found < Len(d.frags) THEN d.frags[found + 1] ELSE NoFrag
  BY Zenon DEF FindFragment
<1>3. found \in 0 .. Listed
  <2>1. Search(c) \in 0 .. Listed
    <3>1. Len(c) = Listed
      BY <1>1
    <3>. HIDE DEF c
    <3>. QED
      BY <1>1, <3>1, SearchWithin
  <2>2. HasSN(d, next) => next - d.startSN + 1 \in 1 .. Listed
    <3>. HIDE DEF next
    <3>. QED
      BY NumberedWithin
  <2>. HIDE DEF c, next
  <2>. QED
    BY <1>1, <2>1, <2>2
<1>4. \A i \in 1 .. Listed : d.frags[i] \in Chosen(d)
  BY DEF Chosen
<1>. HIDE DEF found
<1>5. PICK k \in 0 .. Listed : k = found
  BY <1>3
<1>. QED
  BY <1>1, <1>2, <1>4, <1>5

(***************************************************************************)
(* The player.                                                             *)
(***************************************************************************)

Keys ==
    {"n", "urls", "first", "startlevel", "level", "manual", "canload", "timer", "orphans",
     "forced", "details", "url", "errors", "req", "state", "slevel", "last", "frag", "prev",
     "freq", "requested", "metadata", "fragErrors", "next", "startpos", "pos", "seeking",
     "buf", "origin", "down", "extra"}

Ranks(s) == 0 .. s.n - 1

\* What kind of thing the player keeps where.
Player(s) ==
    /\ DOMAIN s = Keys
    /\ s.n \in Nat \ {0} /\ Ranks(s) \subseteq Levels
    /\ s.first \in Ranks(s)
    /\ s.startlevel \in Ranks(s) \cup {None} /\ s.level \in Ranks(s) \cup {None}
    /\ s.manual \in Ranks(s) \cup {None} /\ s.forced \in Ranks(s) \cup {None}
    /\ s.timer \in {"none", "armed", "fired"} /\ s.orphans \in Nat /\ s.extra \in Nat
    /\ DOMAIN s.details = Levels /\ \A l \in Levels : Details(s.details[l], Ranks(s))
    /\ s.state \in {"STOPPED", "IDLE", "WAITING_LEVEL", "FRAG_LOADING", "PARSING",
                    "FRAG_LOADING_WAITING_RETRY", "ERROR"}
    /\ s.origin \in Int
    /\ s.frag # NoFrag => s.frag \in Fragments(Ranks(s))
    /\ s.freq # NoFrag => s.freq = s.frag

Busy(s) == s.req.type # "none"
Ticks(s) == s.timer = "armed" \/ s.orphans > 0
Timers(s) == (IF s.timer = "armed" THEN 1 ELSE 0) + s.orphans

\* Whoever waits for a playlist waits for one of the level being refreshed.
Waits(s) ==
    s.state = "WAITING_LEVEL" =>
      /\ s.slevel \in Ranks(s) /\ s.level # None
      /\ s.details[s.slevel] # NoDetails \/ Busy(s) \/ Ticks(s)

\* A fragment being parsed is there, and nothing is asked for meanwhile.
Parses(s) == s.state = "PARSING" => s.freq = NoFrag /\ s.frag # NoFrag

\* The one request is for the level being refreshed.
Asks(s) == Busy(s) => s.req.level = s.level /\ s.level # None

\* Where nothing may be loaded, nothing is.
Stands(s) == ~s.canload => s.state \in {"STOPPED", "ERROR"} /\ s.freq = NoFrag

\* The refresh goes on.
Refreshes(s) ==
    s.canload /\ s.level # None =>
      Busy(s) \/ Ticks(s) \/ s.details[s.level] = NoDetails \/ s.down

\* Timers without a handle come from startLoad alone.
Counts(s) == s.orphans <= s.extra /\ Timers(s) + (IF Busy(s) THEN 1 ELSE 0) <= 1 + s.extra

Good(s) == Player(s) /\ Waits(s) /\ Parses(s) /\ Asks(s) /\ Stands(s) /\ Refreshes(s) /\ Counts(s)

\* Between an answer and the timer that asks for the next one.
Answered(s) ==
    /\ Player(s) /\ Parses(s) /\ Stands(s) /\ s.level # None
    /\ s.state = "WAITING_LEVEL" => s.slevel \in Ranks(s)
    /\ Asks(s) /\ Timers(s) <= s.extra
    /\ Timers(s) + (IF Busy(s) THEN 1 ELSE 0) <= s.extra

\* What a handler leaves alone.
Keeps(s, t, ks) == DOMAIN t = Keys /\ \A k \in Keys \ ks : t[k] = s[k]

LEMMA LoadPlaylistFact ==
    ASSUME NEW s, DOMAIN s = Keys, NEW l
    PROVE  /\ Keeps(s, LoadPlaylist(s, l), {"req", "down"})
           /\ Busy(LoadPlaylist(s, l)) /\ LoadPlaylist(s, l).req.level = l
<1>1. CASE s.req.type # "none" /\ s.req.level = l /\ s.req.url = s.url[l]
  BY <1>1 DEF LoadPlaylist, Keeps, Busy
<1>2. CASE ~(s.req.type # "none" /\ s.req.level = l /\ s.req.url = s.url[l])
  <2>1. PICK r : r = Request(l, s.url[l], 0)
    OBVIOUS
  <2>2. r.type = "level" /\ r.level = l
    BY <2>1 DEF Request
  <2>3. LoadPlaylist(s, l) = [s EXCEPT !.req = r, !.down = FALSE]
    BY Zenon, <1>2, <2>1 DEF LoadPlaylist
  <2>. QED
    BY <2>2, <2>3 DEF Keeps, Busy, Keys
<1>. QED
  BY <1>1, <1>2

LEMMA SetLevelInternalFact ==
    ASSUME NEW s, DOMAIN s = Keys, NEW l
    PROVE  /\ Keeps(s, SetLevelInternal(s, l), {"timer", "level", "req", "down"})
           /\ SetLevelInternal(s, l).timer = "none" /\ SetLevelInternal(s, l).level = l
           /\ Busy(SetLevelInternal(s, l)) /\ SetLevelInternal(s, l).req.level = l
<1>1. PICK t : t = [CleanTimer(s) EXCEPT !.level = l]
  OBVIOUS
<1>2. Keeps(s, t, {"timer", "level"}) /\ t.timer = "none" /\ t.level = l
  BY <1>1 DEF CleanTimer, Keeps, Keys
<1>3. PICK u : u = LoadPlaylist(t, l)
  OBVIOUS
<1>4. Keeps(t, u, {"req", "down"}) /\ Busy(u) /\ u.req.level = l
  BY <1>2, <1>3, LoadPlaylistFact DEF Keeps
<1>5. SetLevelInternal(s, l) = u
  BY <1>1, <1>3 DEF SetLevelInternal
<1>. QED
  BY <1>2, <1>4, <1>5 DEF Keeps, Keys

\* Setting a level leaves the player sound, and the level is asked for where
\* its playlist is not there.
LEMMA SetLevelFact ==
    ASSUME NEW s, Good(s), NEW l \in Ranks(s)
    PROVE  LET t == SetLevel(s, l)
           IN /\ Good(t) /\ Keeps(s, t, {"timer", "level", "req", "down"}) /\ t.level = l
              /\ t.details[l] # NoDetails \/ Busy(t)
<1>1. l < s.n
  BY DEF Ranks, Good, Player
<1>2. CASE s.level = l /\ s.details[l] # NoDetails
  BY <1>1, <1>2 DEF SetLevel, Keeps, Good, Player
<1>3. CASE ~(s.level = l /\ s.details[l] # NoDetails)
  <2>1. PICK t : t = SetLevelInternal(s, l)
    OBVIOUS
  <2>2. SetLevel(s, l) = t
    BY Zenon, <1>1, <1>3, <2>1 DEF SetLevel
  <2>3. /\ Keeps(s, t, {"timer", "level", "req", "down"})
        /\ t.timer = "none" /\ t.level = l /\ Busy(t) /\ t.req.level = l
    BY <2>1, SetLevelInternalFact DEF Good, Player
  <2>4. /\ t.n = s.n /\ t.first = s.first /\ t.startlevel = s.startlevel /\ t.manual = s.manual
        /\ t.forced = s.forced /\ t.orphans = s.orphans /\ t.extra = s.extra
        /\ t.details = s.details /\ t.state = s.state /\ t.origin = s.origin
        /\ t.frag = s.frag /\ t.freq = s.freq /\ t.slevel = s.slevel /\ t.canload = s.canload
    BY <2>3 DEF Keeps, Keys
  <2>5. Player(t)
    BY <2>3, <2>4 DEF Good, Player, Keeps, Ranks
  <2>6. l # None
    BY DEF Ranks, None
  <2>7. Waits(t) /\ Parses(t) /\ Asks(t) /\ Stands(t) /\ Refreshes(t)
    BY <2>3, <2>4, <2>6 DEF Good, Waits, Parses, Asks, Stands, Refreshes, Ranks
  <2>8. Counts(t)
    BY <2>3, <2>4, <2>5 DEF Good, Counts, Timers, Player
  <2>. QED
    BY <2>2, <2>3, <2>5, <2>7, <2>8 DEF Good
<1>. QED
  BY <1>2, <1>3

LEMMA SetNextLoadLevelFact ==
    ASSUME NEW s, Good(s), NEW l \in Ranks(s)
    PROVE  LET t == SetNextLoadLevel(s, l)
           IN /\ Good(t) /\ Keeps(s, t, {"timer", "level", "req", "down", "forced"})
              /\ t.level = l /\ (t.details[l] # NoDetails \/ Busy(t))
<1>1. PICK t : t = SetLevel(s, l)
  OBVIOUS
<1>2. /\ Good(t) /\ Keeps(s, t, {"timer", "level", "req", "down"}) /\ t.level = l
      /\ t.details[l] # NoDetails \/ Busy(t)
  BY <1>1, SetLevelFact
<1>3. CASE t.manual # None
  BY <1>1, <1>2, <1>3 DEF SetNextLoadLevel, Keeps
<1>4. CASE t.manual = None
  <2>1. PICK u : u = [t EXCEPT !.forced = l]
    OBVIOUS
  <2>2. SetNextLoadLevel(s, l) = u
    BY <1>1, <1>4, <2>1 DEF SetNextLoadLevel
  <2>3. Keeps(t, u, {"forced"}) /\ u.forced = l /\ l \in Ranks(t)
    BY <1>2, <2>1 DEF Keeps, Keys, Ranks
  <2>4. /\ u.n = t.n /\ u.first = t.first /\ u.startlevel = t.startlevel /\ u.manual = t.manual
        /\ u.orphans = t.orphans /\ u.extra = t.extra /\ u.timer = t.timer /\ u.level = t.level
        /\ u.details = t.details /\ u.state = t.state /\ u.origin = t.origin /\ u.req = t.req
        /\ u.frag = t.frag /\ u.freq = t.freq /\ u.slevel = t.slevel /\ u.canload = t.canload
        /\ u.down = t.down
    BY <2>3 DEF Keeps, Keys
  <2>5. Player(u)
    BY <1>2, <2>3, <2>4 DEF Good, Player, Keeps, Ranks
  <2>6. Waits(u) /\ Parses(u) /\ Asks(u) /\ Stands(u) /\ Refreshes(u) /\ Counts(u) /\ Busy(t) = Busy(u)
    BY <1>2, <2>4 DEF Good, Waits, Parses, Asks, Stands, Refreshes, Counts, Timers, Busy, Ticks, Ranks
  <2>7. Keeps(s, u, {"timer", "level", "req", "down", "forced"})
    BY <1>2, <2>3 DEF Keeps, Keys
  <2>. QED
    BY <1>2, <2>2, <2>4, <2>5, <2>6, <2>7 DEF Good
<1>. QED
  BY <1>3, <1>4

\* What the refresh does not depend on.
Aside ==
    {"urls", "url", "errors", "last", "prev", "requested", "metadata", "fragErrors", "next",
     "startpos", "pos", "seeking", "buf"}

LEMMA Untouched ==
    ASSUME NEW s, NEW t, Keeps(s, t, Aside)
    PROVE  /\ t.n = s.n /\ t.first = s.first /\ t.startlevel = s.startlevel
           /\ t.manual = s.manual /\ t.forced = s.forced /\ t.level = s.level
           /\ t.orphans = s.orphans /\ t.extra = s.extra /\ t.timer = s.timer
           /\ t.details = s.details /\ t.state = s.state /\ t.origin = s.origin
           /\ t.frag = s.frag /\ t.freq = s.freq /\ t.slevel = s.slevel
           /\ t.canload = s.canload /\ t.down = s.down /\ t.req = s.req
BY DEF Keeps, Keys, Aside

LEMMA UntouchedGood ==
    ASSUME NEW s, NEW t, Good(s), Keeps(s, t, Aside)
    PROVE  Good(t)
<1>1. Player(t)
  BY Untouched DEF Good, Player, Keeps, Ranks
<1>2. Waits(t) /\ Parses(t) /\ Asks(t) /\ Stands(t) /\ Refreshes(t) /\ Counts(t)
  BY Untouched DEF Good, Waits, Parses, Asks, Stands, Refreshes, Counts, Timers, Busy, Ticks, Ranks
<1>. QED
  BY <1>1, <1>2 DEF Good

\* A change of state to one that nothing is known of.
LEMMA IdleGood ==
    ASSUME NEW s, Good(s), s.canload,
           NEW x \in {"IDLE", "FRAG_LOADING", "FRAG_LOADING_WAITING_RETRY", "ERROR"}
    PROVE  Good([s EXCEPT !.state = x]) /\ Keeps(s, [s EXCEPT !.state = x], {"state"})
<1>1. PICK t : t = [s EXCEPT !.state = x]
  OBVIOUS
<1>2. Keeps(s, t, {"state"}) /\ t.state = x
  BY <1>1 DEF Keeps, Keys, Good, Player
<1>3. /\ t.n = s.n /\ t.first = s.first /\ t.startlevel = s.startlevel
      /\ t.manual = s.manual /\ t.forced = s.forced /\ t.level = s.level
      /\ t.orphans = s.orphans /\ t.extra = s.extra /\ t.timer = s.timer
      /\ t.details = s.details /\ t.origin = s.origin
      /\ t.frag = s.frag /\ t.freq = s.freq /\ t.slevel = s.slevel
      /\ t.canload = s.canload /\ t.down = s.down /\ t.req = s.req
  BY <1>2 DEF Keeps, Keys
<1>4. Player(t)
  BY <1>2, <1>3 DEF Good, Player, Keeps, Ranks
<1>5. Waits(t) /\ Parses(t) /\ Asks(t) /\ Stands(t) /\ Refreshes(t) /\ Counts(t)
  BY <1>2, <1>3 DEF Good, Waits, Parses, Asks, Stands, Refreshes, Counts, Timers, Busy, Ticks, Ranks
<1>. QED
  BY <1>1, <1>2, <1>4, <1>5 DEF Good

LEMMA NextLoadLevelFact ==
    ASSUME NEW s, Player(s), abr \in Levels
    PROVE  NextLoadLevel(s) \in Ranks(s)
<1>1. PICK best : best = IF abr >= s.n THEN s.n - 1 ELSE abr
  OBVIOUS
<1>2. abr \in Nat /\ s.n \in Nat \ {0}
  BY DEF Levels, Player
<1>3. best \in Ranks(s)
  BY <1>1, <1>2 DEF Ranks
<1>4. NextAutoLevel(s) \in Ranks(s)
  <2>1. CASE s.forced # None /\ (s.origin = NaN \/ s.forced < best)
    BY <1>1, <2>1 DEF NextAutoLevel, Player
  <2>2. CASE ~(s.forced # None /\ (s.origin = NaN \/ s.forced < best))
    BY <1>1, <1>3, <2>2 DEF NextAutoLevel
  <2>. QED
    BY <2>1, <2>2
<1>. QED
  BY <1>4 DEF NextLoadLevel, Player

LEMMA AskForLevelFact ==
    ASSUME NEW s, Good(s), abr \in Levels
    PROVE  LET t == AskForLevel(s)
           IN /\ Good(t) /\ Keeps(s, t, {"timer", "level", "req", "down", "forced", "slevel"})
              /\ t.slevel \in Ranks(t) /\ t.level = t.slevel
              /\ t.details[t.slevel] # NoDetails \/ Busy(t)
<1>1. PICK l \in Ranks(s) : l = NextLoadLevel(s)
  BY NextLoadLevelFact DEF Good
<1>2. PICK u : u = SetNextLoadLevel(s, l)
  OBVIOUS
<1>3. /\ Good(u) /\ Keeps(s, u, {"timer", "level", "req", "down", "forced"})
      /\ u.level = l /\ (u.details[l] # NoDetails \/ Busy(u))
  BY <1>2, SetNextLoadLevelFact
<1>4. PICK t : t = [u EXCEPT !.slevel = l]
  OBVIOUS
<1>5. AskForLevel(s) = t
  BY <1>1, <1>2, <1>4 DEF AskForLevel
<1>6. Keeps(u, t, {"slevel"}) /\ t.slevel = l
  BY <1>3, <1>4 DEF Keeps, Keys
<1>7. /\ t.n = u.n /\ t.first = u.first /\ t.startlevel = u.startlevel
      /\ t.manual = u.manual /\ t.forced = u.forced /\ t.level = u.level
      /\ t.orphans = u.orphans /\ t.extra = u.extra /\ t.timer = u.timer
      /\ t.details = u.details /\ t.origin = u.origin /\ t.state = u.state
      /\ t.frag = u.frag /\ t.freq = u.freq
      /\ t.canload = u.canload /\ t.down = u.down /\ t.req = u.req
  BY <1>6 DEF Keeps, Keys
<1>8. l \in Ranks(u) /\ l # None /\ u.n = s.n
  BY <1>3 DEF Keeps, Keys, Ranks, None
<1>9. Player(t)
  BY <1>3, <1>6, <1>7, <1>8 DEF Good, Player, Keeps, Ranks
<1>10. Waits(t) /\ Parses(t) /\ Asks(t) /\ Stands(t) /\ Refreshes(t) /\ Counts(t)
  BY <1>3, <1>6, <1>7, <1>8
     DEF Good, Waits, Parses, Asks, Stands, Refreshes, Counts, Timers, Busy, Ticks, Ranks
<1>11. Keeps(s, t, {"timer", "level", "req", "down", "forced", "slevel"})
  BY <1>3, <1>6 DEF Keeps, Keys
<1>12. t.slevel \in Ranks(t) /\ t.level = t.slevel /\ (t.details[t.slevel] # NoDetails \/ Busy(t))
  <2>0. Ranks(t) = Ranks(u) /\ t.level = l /\ t.slevel = l
    BY <1>3, <1>6, <1>7 DEF Ranks
  <2>1. t.slevel \in Ranks(t) /\ t.level = t.slevel
    BY <1>8, <2>0
  <2>2. CASE u.details[l] # NoDetails
    BY <1>6, <1>7, <2>1, <2>2
  <2>3. CASE Busy(u)
    BY <1>7, <2>1, <2>3 DEF Busy
  <2>. QED
    BY <1>3, <2>1, <2>2, <2>3
<1>. QED
  BY <1>5, <1>9, <1>10, <1>11, <1>12 DEF Good

\* A fragment that is asked for.
LEMMA LoadFragmentFact ==
    ASSUME NEW s, DOMAIN s = Keys, NEW f
    PROVE  LET t == LoadFragment(s, f)
           IN /\ Keeps(s, t, {"freq", "frag", "requested", "next", "state"})
              /\ t.freq = f /\ t.frag = f /\ t.state = "FRAG_LOADING"
<1>1. PICK r : r = RequestFragment(s, f)
  OBVIOUS
<1>2. Keeps(s, r, {"freq"}) /\ r.freq = f
  BY <1>1 DEF RequestFragment, Keeps, Keys
<1>3. PICK x : x = IF s.metadata THEN r.next ELSE EndOf(f)
  OBVIOUS
<1>4. PICK t : t = LoadFragment(s, f)
  OBVIOUS
<1>5. t = [r EXCEPT !.frag = f, !.requested = TRUE, !.next = x, !.state = "FRAG_LOADING"]
  BY <1>1, <1>2, <1>3, <1>4 DEF LoadFragment, Keeps, Keys
<1>6. /\ Keeps(r, t, {"frag", "requested", "next", "state"})
      /\ t.freq = r.freq /\ t.frag = f /\ t.state = "FRAG_LOADING"
  BY <1>2, <1>5 DEF Keeps, Keys
<1>7. Keeps(s, t, {"freq", "frag", "requested", "next", "state"})
  BY <1>2, <1>6 DEF Keeps, Keys
<1>. QED
  BY <1>2, <1>4, <1>6, <1>7

LEMMA LoadFragmentGood ==
    ASSUME NEW s, Good(s), s.canload, NEW f \in Fragments(Ranks(s))
    PROVE  Good(LoadFragment(s, f))
<1>1. PICK t : t = LoadFragment(s, f)
  OBVIOUS
<1>4. /\ DOMAIN t = Keys /\ t.freq = f /\ t.frag = f /\ t.state = "FRAG_LOADING"
      /\ t.n = s.n /\ t.first = s.first /\ t.startlevel = s.startlevel
      /\ t.manual = s.manual /\ t.forced = s.forced /\ t.level = s.level
      /\ t.orphans = s.orphans /\ t.extra = s.extra /\ t.timer = s.timer
      /\ t.details = s.details /\ t.origin = s.origin /\ t.slevel = s.slevel
      /\ t.canload = s.canload /\ t.down = s.down /\ t.req = s.req
  <2>1. Keeps(s, t, {"freq", "frag", "requested", "next", "state"})
        /\ t.freq = f /\ t.frag = f /\ t.state = "FRAG_LOADING"
    BY <1>1, LoadFragmentFact DEF Good, Player
  <2>. QED
    BY <2>1 DEF Keeps, Keys
<1>5. Player(t)
  BY <1>4 DEF Good, Player, Ranks
<1>6. Waits(t) /\ Parses(t) /\ Asks(t) /\ Stands(t) /\ Refreshes(t) /\ Counts(t)
  BY <1>4 DEF Good, Waits, Parses, Asks, Stands, Refreshes, Counts, Timers, Busy, Ticks, Ranks
<1>. QED
  BY <1>1, <1>5, <1>6 DEF Good

LEMMA FetchFromGood ==
    ASSUME NEW s, Good(s), s.canload, NEW d, Parsed(d, Ranks(s)), NEW limit, NEW bufferEnd,
           FetchFrom(s, d, limit, bufferEnd)
    PROVE  Good(p')
<1>1. CASE d.known /\ limit > End(d) /\ s.metadata
  BY <1>1 DEF FetchFrom
<1>2. CASE ~(d.known /\ limit > End(d) /\ s.metadata)
  <2>1. PICK f \in {IF s.requested /\ ~d.known THEN Guess(d, s.prev)
                    ELSE FindFragment(d, s.prev, bufferEnd)} :
           p' = IF f = NoFrag THEN s ELSE LoadFragment(s, f)
    BY Zenon, <1>2 DEF FetchFrom
  <2>2. f \in Chosen(d) \cup {NoFrag}
    BY <2>1, GuessTyped, FindTyped
  <2>. QED
    BY <2>1, <2>2, ChosenTyped, LoadFragmentGood
<1>. QED
  BY <1>1, <1>2

LEMMA FetchPayloadGood ==
    ASSUME NEW s, Good(s), s.canload, NEW d, Parsed(d, Ranks(s)), FetchPayload(s, d)
    PROVE  Good(p')
<1>1. PICK bufferEnd, sync :
         IF bufferEnd < Start(d)
         THEN \E t \in {IF s.metadata THEN [s EXCEPT !.seeking = TRUE, !.pos = sync]
                        ELSE [s EXCEPT !.next = sync]} : FetchFrom(t, d, sync, bufferEnd)
         ELSE FetchFrom(s, d, bufferEnd, bufferEnd)
  BY Zenon DEF FetchPayload
<1>2. CASE ~(bufferEnd < Start(d))
  BY <1>1, <1>2, FetchFromGood
<1>3. CASE bufferEnd < Start(d)
  <2>1. PICK t \in {IF s.metadata THEN [s EXCEPT !.seeking = TRUE, !.pos = sync]
                    ELSE [s EXCEPT !.next = sync]} : FetchFrom(t, d, sync, bufferEnd)
    BY Zenon, <1>1, <1>3
  <2>2. Keeps(s, t, Aside)
    <3>1. CASE t = [s EXCEPT !.seeking = TRUE, !.pos = sync]
      BY <3>1 DEF Keeps, Keys, Aside, Good, Player
    <3>2. CASE t = [s EXCEPT !.next = sync]
      BY <3>2 DEF Keeps, Keys, Aside, Good, Player
    <3>. QED
      BY <2>1, <3>1, <3>2
  <2>3. t.canload = s.canload /\ t.n = s.n
    BY <2>2 DEF Keeps, Keys, Aside
  <2>4. Good(t)
    BY Zenon, <2>2, UntouchedGood
  <2>5. Ranks(t) = Ranks(s)
    BY <2>3 DEF Ranks
  <2>. QED
    BY <2>1, <2>3, <2>4, <2>5, FetchFromGood
<1>. QED
  BY <1>2, <1>3

LEMMA TickGood ==
    ASSUME NEW s, Good(s), abr \in Levels, Tick(s)
    PROVE  Good(p')
<1>1. CASE s.state = "IDLE"
  <2>0. s.canload
    BY <1>1 DEF Good, Stands
  <2>1. DoTickIdle(s)
    BY <1>1 DEF Tick
  <2>2. CASE full \/ s.n = 0
    BY <2>1, <2>2 DEF DoTickIdle
  <2>3. CASE ~(full \/ s.n = 0)
    <3>1. PICK t : /\ t = AskForLevel(s)
                   /\ IF t.details[t.slevel] = NoDetails \/ t.last # t.slevel
                      THEN p' = [t EXCEPT !.state = "WAITING_LEVEL"]
                      ELSE FetchPayload(t, t.details[t.slevel])
      BY Zenon, <2>1, <2>3 DEF DoTickIdle
    <3>2. /\ Good(t) /\ Keeps(s, t, {"timer", "level", "req", "down", "forced", "slevel"})
          /\ t.slevel \in Ranks(t) /\ t.level = t.slevel
          /\ t.details[t.slevel] # NoDetails \/ Busy(t)
      BY <3>1, AskForLevelFact
    <3>3. t.canload /\ t.state = "IDLE"
      BY <1>1, <2>0, <3>2 DEF Keeps, Keys
    <3>4. CASE t.details[t.slevel] = NoDetails \/ t.last # t.slevel
      <4>1. PICK u : u = [t EXCEPT !.state = "WAITING_LEVEL"]
        OBVIOUS
      <4>2. /\ DOMAIN u = Keys /\ u.state = "WAITING_LEVEL"
            /\ u.n = t.n /\ u.first = t.first /\ u.startlevel = t.startlevel
            /\ u.manual = t.manual /\ u.forced = t.forced /\ u.level = t.level
            /\ u.orphans = t.orphans /\ u.extra = t.extra /\ u.timer = t.timer
            /\ u.details = t.details /\ u.origin = t.origin
            /\ u.frag = t.frag /\ u.freq = t.freq /\ u.slevel = t.slevel
            /\ u.canload = t.canload /\ u.down = t.down /\ u.req = t.req
        BY <3>2, <4>1 DEF Keeps, Keys
      <4>3. t.slevel # None
        BY <3>2 DEF Ranks, None
      <4>4. Player(u)
        BY <3>2, <4>2 DEF Good, Player, Ranks
      <4>5. Waits(u) /\ Parses(u) /\ Asks(u) /\ Stands(u) /\ Refreshes(u) /\ Counts(u)
        BY <3>2, <3>3, <4>2, <4>3
           DEF Good, Waits, Parses, Asks, Stands, Refreshes, Counts, Timers, Busy, Ticks, Ranks
      <4>. QED
        BY <3>1, <3>4, <4>1, <4>4, <4>5 DEF Good
    <3>5. CASE ~(t.details[t.slevel] = NoDetails \/ t.last # t.slevel)
      <4>1. PICK d : d = t.details[t.slevel]
        OBVIOUS
      <4>2. Parsed(d, Ranks(t))
        BY <3>2, <3>5, <4>1 DEF Good, Player, Details, Parsed
      <4>. QED
        BY <3>1, <3>2, <3>3, <3>5, <4>1, <4>2, FetchPayloadGood
    <3>. QED
      BY <3>4, <3>5
  <2>. QED
    BY <2>2, <2>3
<1>2. CASE s.state = "WAITING_LEVEL" /\ s.details[s.slevel] # NoDetails
  <2>1. p' = [s EXCEPT !.state = "IDLE"]
    BY <1>2 DEF Tick
  <2>2. s.canload
    BY <1>2 DEF Good, Stands
  <2>. QED
    BY <2>1, <2>2, IdleGood
<1>3. CASE ~(s.state = "IDLE") /\ ~(s.state = "WAITING_LEVEL" /\ s.details[s.slevel] # NoDetails)
  <2>1. p' = s
    BY Zenon, <1>3 DEF Tick
  <2>. QED
    BY <2>1
<1>. QED
  BY <1>1, <1>2, <1>3

(***************************************************************************)
(* Timers, start and stop.                                                 *)
(***************************************************************************)

\* A timer has fired and not yet asked for the playlist.
Fired(s) ==
    /\ Player(s) /\ Parses(s) /\ Asks(s) /\ Stands(s)
    /\ s.state = "WAITING_LEVEL" => s.slevel \in Ranks(s) /\ s.level # None
    /\ Timers(s) <= s.extra
    /\ Timers(s) + (IF Busy(s) THEN 1 ELSE 0) <= 1 + s.extra

LEMMA ReloadGood ==
    ASSUME NEW s, Fired(s)
    PROVE  Good(Reload(s))
<1>1. CASE s.level # None /\ s.canload
  <2>1. PICK t : t = LoadPlaylist(s, s.level)
    OBVIOUS
  <2>2. Keeps(s, t, {"req", "down"}) /\ Busy(t) /\ t.req.level = s.level
    BY <2>1, LoadPlaylistFact DEF Fired, Player
  <2>3. /\ t.n = s.n /\ t.first = s.first /\ t.startlevel = s.startlevel /\ t.manual = s.manual
        /\ t.forced = s.forced /\ t.orphans = s.orphans /\ t.extra = s.extra
        /\ t.timer = s.timer /\ t.level = s.level
        /\ t.details = s.details /\ t.state = s.state /\ t.origin = s.origin
        /\ t.frag = s.frag /\ t.freq = s.freq /\ t.slevel = s.slevel /\ t.canload = s.canload
    BY <2>2 DEF Keeps, Keys
  <2>4. Player(t)
    BY <2>2, <2>3 DEF Fired, Player, Keeps, Ranks
  <2>5. Waits(t) /\ Parses(t) /\ Asks(t) /\ Stands(t) /\ Refreshes(t)
    BY <1>1, <2>2, <2>3 DEF Fired, Waits, Parses, Asks, Stands, Refreshes, Ranks
  <2>6. Counts(t)
    BY <2>2, <2>3, <2>4 DEF Fired, Counts, Timers, Player
  <2>. QED
    BY <1>1, <2>1, <2>4, <2>5, <2>6 DEF Reload, Good
<1>2. CASE ~(s.level # None /\ s.canload)
  <2>1. Waits(s) /\ Refreshes(s)
    BY <1>2 DEF Fired, Waits, Stands, Refreshes
  <2>2. Counts(s)
    BY DEF Fired, Counts, Timers, Player
  <2>. QED
    BY <1>2, <2>1, <2>2 DEF Fired, Reload, Good
<1>. QED
  BY <1>1, <1>2

LEMMA StopFact ==
    ASSUME NEW s, DOMAIN s = Keys
    PROVE  /\ Keeps(s, Stop(s), {"frag", "freq", "prev", "state"})
           /\ Stop(s).frag = NoFrag /\ Stop(s).freq = NoFrag /\ Stop(s).state = "STOPPED"
           /\ Stop(s).prev = NoFrag
BY DEF Stop, Keeps, Keys

\* The playlists are stale: whoever waits for one waits for what is not there.
Restarting(s) ==
    /\ Player(s) /\ Parses(s) /\ Asks(s) /\ Stands(s) /\ Refreshes(s) /\ Counts(s)
    /\ s.canload

LEMMA StartLevelsFact ==
    ASSUME NEW s, Good(s)
    PROVE  Restarting(StartLevels(s)) /\ StartLevels(s).n = s.n
<1>1. PICK none : none = [l \in Levels |-> NoDetails]
  OBVIOUS
<1>2. PICK zero : zero = [l \in Levels |-> 0]
  OBVIOUS
<1>3. PICK t : t = [s EXCEPT !.canload = TRUE, !.details = none, !.errors = zero]
  OBVIOUS
<1>4. StartLevels(s) =
         IF t.timer = "none" THEN t
         ELSE [Reload(t) EXCEPT !.extra = IF t.timer = "armed" /\ Reload(t) # t THEN @ + 1 ELSE @]
  BY Zenon, <1>1, <1>2, <1>3 DEF StartLevels
<1>5. /\ DOMAIN t = Keys /\ t.canload = TRUE /\ t.details = none
      /\ t.n = s.n /\ t.first = s.first /\ t.startlevel = s.startlevel /\ t.manual = s.manual
      /\ t.forced = s.forced /\ t.orphans = s.orphans /\ t.extra = s.extra
      /\ t.timer = s.timer /\ t.level = s.level /\ t.req = s.req /\ t.down = s.down
      /\ t.state = s.state /\ t.origin = s.origin
      /\ t.frag = s.frag /\ t.freq = s.freq /\ t.slevel = s.slevel
  BY <1>3 DEF Good, Player, Keys
<1>6. DOMAIN none = Levels /\ \A l \in Levels : none[l] = NoDetails
  BY <1>1
<1>7. Player(t)
  BY <1>5, <1>6 DEF Good, Player, Ranks, Details
<1>8. Parses(t) /\ Asks(t) /\ Stands(t)
  BY <1>5 DEF Good, Parses, Asks, Stands, Busy
<1>9. Refreshes(t)
  BY <1>5, <1>6, <1>7 DEF Refreshes, Player
<1>10. Counts(t)
  BY <1>5 DEF Good, Counts, Timers, Busy
<1>11. CASE t.timer = "none"
  <2>1. StartLevels(s) = t /\ t.n = s.n
    BY <1>4, <1>5, <1>11
  <2>. QED
    BY <1>5, <1>7, <1>8, <1>9, <1>10, <2>1 DEF Restarting
<1>12. CASE t.timer # "none"
  <2>1. PICK r : r = Reload(t)
    OBVIOUS
  <2>2. PICK e \in Nat : e = IF t.timer = "armed" /\ r # t THEN t.extra + 1 ELSE t.extra
    BY <1>7 DEF Player
  <2>3. PICK q : q = [r EXCEPT !.extra = e]
    OBVIOUS
  <2>4. /\ Keeps(t, r, {"req", "down"})
        /\ r = t \/ (Busy(r) /\ r.req.level = t.level /\ t.level # None)
    <3>1. CASE t.level # None /\ t.canload
      BY <1>7, <2>1, <3>1, LoadPlaylistFact DEF Reload, Player
    <3>2. CASE ~(t.level # None /\ t.canload)
      BY <1>5, <2>1, <3>2 DEF Reload, Keeps
    <3>. QED
      BY <3>1, <3>2
  <2>5. r.extra = t.extra /\ DOMAIN r = Keys
    BY <2>4 DEF Keeps, Keys
  <2>6. StartLevels(s) = q
    BY <1>4, <1>12, <2>1, <2>2, <2>3, <2>5
  <2>7. /\ DOMAIN q = Keys /\ q.extra = e
        /\ q.n = t.n /\ q.first = t.first /\ q.startlevel = t.startlevel /\ q.manual = t.manual
        /\ q.forced = t.forced /\ q.orphans = t.orphans /\ q.canload = t.canload
        /\ q.timer = t.timer /\ q.level = t.level /\ q.details = t.details
        /\ q.state = t.state /\ q.origin = t.origin /\ q.req = r.req
        /\ q.frag = t.frag /\ q.freq = t.freq /\ q.slevel = t.slevel
    BY <2>3, <2>4, <2>5 DEF Keeps, Keys
  <2>8. Player(q)
    BY <1>7, <2>7 DEF Player, Ranks
  <2>9. Parses(q) /\ Stands(q)
    BY <1>8, <2>7 DEF Parses, Stands
  <2>10. Asks(q)
    BY <1>8, <2>4, <2>7 DEF Asks, Busy
  <2>11. Refreshes(q)
    BY <1>5, <1>6, <1>7, <2>7 DEF Refreshes, Player
  <2>12. Counts(q)
    <3>1. CASE r = t
      BY <1>7, <1>10, <2>2, <2>7, <3>1 DEF Counts, Timers, Busy, Player
    <3>2. CASE r # t
      BY <1>7, <1>10, <1>12, <2>2, <2>7, <3>2 DEF Counts, Timers, Busy, Player
    <3>. QED
      BY <3>1, <3>2
  <2>13. q.n = s.n /\ q.canload
    BY <1>5, <2>7
  <2>. QED
    BY <2>6, <2>8, <2>9, <2>10, <2>11, <2>12, <2>13 DEF Restarting
<1>. QED
  BY <1>11, <1>12

LEMMA StartStreamGood ==
    ASSUME NEW s, Restarting(s)
    PROVE  /\ Good(StartStream(s))
           /\ StartStream(s).state = "IDLE" /\ StartStream(s).n = s.n
<1>1. PICK t : t = [Stop(s) EXCEPT !.slevel = None, !.fragErrors = 0]
  OBVIOUS
<1>2. PICK from : from = IF s.startpos > 0 THEN s.startpos ELSE -1
  OBVIOUS
<1>3. PICK u : u = IF s.requested THEN t
                   ELSE [SetNextLoadLevel(t, StartLevel(s)) EXCEPT
                           !.slevel = StartLevel(s), !.metadata = FALSE]
  OBVIOUS
<1>4. StartStream(s) = IF u.metadata THEN [u EXCEPT !.state = "IDLE"]
                       ELSE [u EXCEPT !.state = "IDLE", !.startpos = from, !.next = from]
  BY Zenon, <1>1, <1>2, <1>3 DEF StartStream
<1>5. /\ DOMAIN t = Keys /\ t.frag = NoFrag /\ t.freq = NoFrag /\ t.state = "STOPPED"
      /\ t.slevel = None
      /\ t.n = s.n /\ t.first = s.first /\ t.startlevel = s.startlevel /\ t.manual = s.manual
      /\ t.forced = s.forced /\ t.orphans = s.orphans /\ t.extra = s.extra
      /\ t.timer = s.timer /\ t.level = s.level /\ t.req = s.req /\ t.down = s.down
      /\ t.details = s.details /\ t.origin = s.origin /\ t.canload = s.canload
  <2>1. PICK v : v = Stop(s)
    OBVIOUS
  <2>2. /\ Keeps(s, v, {"frag", "freq", "prev", "state"})
        /\ v.frag = NoFrag /\ v.freq = NoFrag /\ v.state = "STOPPED"
    BY <2>1, StopFact DEF Restarting, Player
  <2>. QED
    BY <1>1, <2>1, <2>2 DEF Keeps, Keys
<1>6. Player(t)
  BY <1>5 DEF Restarting, Player, Ranks
<1>7. Waits(t) /\ Parses(t) /\ Asks(t) /\ Stands(t) /\ Refreshes(t) /\ Counts(t)
  BY <1>5 DEF Restarting, Waits, Parses, Asks, Stands, Refreshes, Counts, Timers, Busy, Ticks
<1>8. Good(t) /\ t.canload
  BY <1>5, <1>6, <1>7 DEF Good, Restarting
<1>9. Good(u) /\ u.canload /\ u.n = s.n
  <2>1. CASE s.requested
    BY <1>3, <1>5, <1>8, <2>1
  <2>2. CASE ~s.requested
    <3>1. PICK l \in Ranks(t) : l = StartLevel(s)
      BY <1>5 DEF StartLevel, Restarting, Player, Ranks
    <3>2. PICK v : v = SetNextLoadLevel(t, l)
      OBVIOUS
    <3>3. Good(v) /\ Keeps(t, v, {"timer", "level", "req", "down", "forced"})
      BY <1>8, <3>1, <3>2, SetNextLoadLevelFact
    <3>4. u = [v EXCEPT !.slevel = l, !.metadata = FALSE]
      BY <1>3, <2>2, <3>1, <3>2
    <3>5. /\ DOMAIN u = Keys /\ u.slevel = l
          /\ u.n = v.n /\ u.first = v.first /\ u.startlevel = v.startlevel
          /\ u.manual = v.manual /\ u.state = v.state
          /\ u.forced = v.forced /\ u.orphans = v.orphans /\ u.extra = v.extra
          /\ u.timer = v.timer /\ u.level = v.level /\ u.req = v.req /\ u.down = v.down
          /\ u.details = v.details /\ u.origin = v.origin /\ u.canload = v.canload
          /\ u.frag = v.frag /\ u.freq = v.freq
      BY <3>3, <3>4 DEF Keeps, Keys
    <3>6. v.n = t.n /\ v.state = "STOPPED" /\ v.canload = t.canload
      BY <1>5, <3>3 DEF Keeps, Keys
    <3>7. Player(u)
      BY <3>1, <3>3, <3>5, <3>6 DEF Good, Player, Ranks
    <3>8. Waits(u) /\ Parses(u) /\ Asks(u) /\ Stands(u) /\ Refreshes(u) /\ Counts(u)
      BY <3>3, <3>5, <3>6
         DEF Good, Waits, Parses, Asks, Stands, Refreshes, Counts, Timers, Busy, Ticks
    <3>9. u.canload /\ u.n = s.n
      BY <1>5, <1>8, <3>5, <3>6
    <3>. QED
      BY <3>7, <3>8, <3>9 DEF Good
  <2>. QED
    BY <2>1, <2>2
<1>10. PICK w : w = [u EXCEPT !.state = "IDLE"]
  OBVIOUS
<1>11. Good(w) /\ DOMAIN w = Keys /\ w.state = "IDLE" /\ w.n = s.n
  <2>1. Good(w)
    BY <1>9, <1>10, IdleGood
  <2>2. w.state = "IDLE" /\ w.n = s.n
    BY <1>9, <1>10 DEF Good, Player, Keys
  <2>. QED
    BY <2>1, <2>2 DEF Good, Player
<1>12. CASE u.metadata
  BY <1>4, <1>10, <1>11, <1>12
<1>13. CASE ~u.metadata
  <2>1. PICK x : x = StartStream(s)
    OBVIOUS
  <2>2. x = [u EXCEPT !.state = "IDLE", !.startpos = from, !.next = from]
    BY <1>4, <1>13, <2>1
  <2>3. Keeps(w, x, Aside)
    BY <1>9, <1>10, <2>2 DEF Keeps, Keys, Aside, Good, Player
  <2>4. Good(x)
    BY <1>11, <2>3, UntouchedGood
  <2>5. x.state = "IDLE" /\ x.n = s.n
    BY <1>11, <2>3, Untouched
  <2>. QED
    BY <2>1, <2>4, <2>5
<1>. QED
  BY <1>12, <1>13

LEMMA Names ==
    ASSUME NEW v \in Seq(Nat), v # <<>>
    PROVE  /\ IsFiniteSet(Range(v)) /\ v[1] \in Range(v) /\ Range(v) \subseteq Nat
           /\ Cardinality(Range(v)) \in Nat \ {0}
<1>1. PICK n \in Nat : n = Len(v) /\ n >= 1 /\ DOMAIN v = 1 .. n
  OBVIOUS
<1>2. v[1] \in Range(v) /\ Range(v) \subseteq Nat
  BY <1>1 DEF Range
<1>3. v \in Surjection(1 .. n, Range(v))
  <2>1. v \in [1 .. n -> Nat]
    BY <1>1
  <2>. QED
    BY <2>1 DEF Surjection, Range
<1>4. IsFiniteSet(1 .. n)
  BY FS_Interval
<1>5. IsFiniteSet(Range(v))
  BY <1>3, <1>4, FS_Surjection
<1>6. Cardinality(Range(v)) \in Nat /\ Cardinality(Range(v)) # 0
  BY <1>2, <1>5, FS_CardinalityType, FS_EmptySet
<1>. QED
  BY <1>2, <1>5, <1>6

LEMMA ManifestGood ==
    ASSUME NEW v \in Seq(Nat), v # <<>>, Cardinality(Range(v)) <= Cardinality(Range(Variants))
    PROVE  /\ Good(OnManifestLoaded(NewPlayer, v))
           /\ OnManifestLoaded(NewPlayer, v).n = Cardinality(Range(v))
<1>. DEFINE bitrates == Range(v)
            level(b) == Cardinality({c \in bitrates : c < b})
<1>1. PICK n \in Nat \ {0} : n = Cardinality(bitrates)
  BY Names
<1>2. level(v[1]) \in 0 .. n - 1
  <2>. DEFINE lower == {c \in bitrates : c < v[1]}
  <2>1. IsFiniteSet(bitrates) /\ v[1] \in bitrates /\ v[1] \in Nat
    BY Names
  <2>2. lower \in SUBSET bitrates /\ v[1] \notin lower
    BY <2>1
  <2>3. /\ IsFiniteSet(lower) /\ Cardinality(lower) <= n
        /\ n = Cardinality(lower) => bitrates = lower
    <3>. HIDE DEF lower
    <3>. QED
      BY <1>1, <2>1, <2>2, FS_Subset
  <2>4. Cardinality(lower) \in Nat /\ Cardinality(lower) # n
    BY <2>1, <2>2, <2>3, FS_CardinalityType
  <2>5. Cardinality(lower) \in 0 .. n - 1
    <3>. HIDE DEF lower
    <3>. QED
      BY <2>3, <2>4
  <2>. QED
    BY <2>5
<1>3. PICK f \in 0 .. n - 1 : f = level(v[1])
  BY <1>2
<1>4. PICK urls : urls = [l \in Levels |->
                 IF l < Cardinality(bitrates)
                 THEN Cardinality({i \in DOMAIN v : level(v[i]) = l}) ELSE 1]
  OBVIOUS
<1>5. PICK t : t = OnManifestLoaded(NewPlayer, v)
  OBVIOUS
<1>6. t = [NewPlayer EXCEPT !.n = n, !.urls = urls, !.first = f]
  BY Zenon, <1>1, <1>3, <1>4, <1>5 DEF OnManifestLoaded
<1>. HIDE DEF bitrates, level
<1>7. /\ DOMAIN t = Keys /\ t.n = n /\ t.first = f /\ t.startlevel = None /\ t.level = None
      /\ t.manual = None /\ t.canload = FALSE /\ t.timer = "none" /\ t.orphans = 0
      /\ t.forced = None /\ t.req = NoReq /\ t.state = "STOPPED" /\ t.slevel = None
      /\ t.frag = NoFrag /\ t.freq = NoFrag /\ t.origin = NaN /\ t.extra = 0
      /\ t.details = [l \in Levels |-> NoDetails]
  BY <1>6 DEF NewPlayer, Keys
<1>8. 0 .. n - 1 \subseteq Levels
  <2>1. PICK m \in Nat \ {0} : m = Cardinality(Range(Variants))
    BY VariantsAssumption, Names
  <2>. QED
    BY <1>1, <2>1 DEF Levels, bitrates
<1>9. Player(t)
  BY <1>7, <1>8 DEF Player, Ranks, Details, NaN
<1>10. ~Busy(t)
  BY <1>7 DEF Busy, NoReq
<1>11. Waits(t) /\ Parses(t) /\ Asks(t) /\ Stands(t) /\ Refreshes(t) /\ Counts(t)
  BY <1>7, <1>10 DEF Waits, Parses, Asks, Stands, Refreshes, Counts, Timers
<1>12. t.n = Cardinality(Range(v))
  BY <1>1, <1>7 DEF bitrates
<1>. QED
  BY <1>5, <1>9, <1>11, <1>12 DEF Good

(***************************************************************************)
(* What the handlers do.                                                   *)
(***************************************************************************)

LEMMA ArmTimerFact ==
    ASSUME NEW s, DOMAIN s = Keys
    PROVE  /\ Keeps(s, ArmTimer(s), {"timer", "orphans"})
           /\ ArmTimer(s).timer = "armed"
           /\ ArmTimer(s).orphans = IF s.timer = "armed" THEN s.orphans + 1 ELSE s.orphans
<1>1. PICK o : o = IF s.timer = "armed" THEN s.orphans + 1 ELSE s.orphans
  OBVIOUS
<1>2. ArmTimer(s) = [s EXCEPT !.orphans = o, !.timer = "armed"]
  BY <1>1 DEF ArmTimer
<1>. QED
  BY <1>1, <1>2 DEF Keeps, Keys

\* What becomes of s, apart from its timers, when an answer has been merged.
Heard(s, u, new) ==
    /\ u.details = [s.details EXCEPT ![s.level] =
                      IF @ = NoDetails THEN new ELSE MergeDetails(@, new)]
    /\ u.last = s.level /\ u.req = s.req /\ u.origin = s.origin
    /\ u.frag = s.frag /\ u.freq = s.freq /\ u.slevel = s.slevel
    /\ u.state = IF s.state = "WAITING_LEVEL" THEN "IDLE" ELSE s.state
    /\ u.buf = s.buf /\ u.pos = s.pos /\ u.prev = s.prev /\ u.metadata = s.metadata
    /\ u.startpos = s.startpos \/ u.startpos = LiveSyncPosition(u.details[s.level])

LEMMA OnLevelLoadedFact ==
    ASSUME NEW s, Answered(s), abr \in Levels, NEW new, Parsed(new, Ranks(s)),
           OnLevelLoaded(s, s.level, new)
    PROVE  \E u : Good(u) /\ Heard(s, u, new) /\ Tick(u)
<1>. DEFINE l == s.level
<1>1. PICK d : d = IF s.details[l] = NoDetails THEN new ELSE MergeDetails(s.details[l], new)
  OBVIOUS
<1>2. PICK a : a = ArmTimer(s)
  OBVIOUS
<1>3. PICK t : t = [a EXCEPT !.errors[l] = 0]
  OBVIOUS
<1>4. PICK u : /\ Tick(u)
               /\ \E at \in {s.startpos, LiveSyncPosition(d)} :
                    u = [t EXCEPT !.details[l] = d, !.last = l,
                      !.startpos = IF s.requested THEN @ ELSE at,
                      !.next = IF s.requested THEN @ ELSE at,
                      !.state = IF @ = "WAITING_LEVEL" THEN "IDLE" ELSE @]
  <2>. DEFINE D == {IF s.details[l] = NoDetails THEN new ELSE MergeDetails(s.details[l], new)}
              T == {IF l = s.level THEN [ArmTimer(s) EXCEPT !.errors[l] = 0] ELSE s}
              At(e) == {IF s.startpos = -1 THEN LiveSyncPosition(e) ELSE s.startpos}
              U(e, v, at) == [v EXCEPT !.details[l] = e, !.last = l,
                                !.startpos = IF s.requested THEN @ ELSE at,
                                !.next = IF s.requested THEN @ ELSE at,
                                !.state = IF @ = "WAITING_LEVEL" THEN "IDLE" ELSE @]
  <2>1. \E e \in D, v \in T : \E at \in At(e) : \E u \in {U(e, v, at)} : Tick(u)
    BY DEF OnLevelLoaded
  <2>2. d \in D /\ \A e \in D : e = d
    BY <1>1
  <2>3. T = {t}
    BY <1>2, <1>3
  <2>. HIDE DEF D, T, At, U
  <2>4. \E at \in At(d) : Tick(U(d, t, at))
    BY <2>1, <2>2, <2>3
  <2>5. PICK at \in At(d) : Tick(U(d, t, at))
    BY Zenon, <2>4
  <2>6. at \in {s.startpos, LiveSyncPosition(d)}
    BY <2>5 DEF At
  <2>. QED
    BY Zenon, <2>5, <2>6 DEF U
<1>5. /\ DOMAIN t = Keys /\ t.timer = "armed"
      /\ t.orphans = (IF s.timer = "armed" THEN s.orphans + 1 ELSE s.orphans)
      /\ t.n = s.n /\ t.first = s.first /\ t.startlevel = s.startlevel /\ t.manual = s.manual
      /\ t.forced = s.forced /\ t.extra = s.extra /\ t.details = s.details
      /\ t.level = s.level /\ t.req = s.req /\ t.down = s.down /\ t.state = s.state
      /\ t.origin = s.origin /\ t.canload = s.canload
      /\ t.frag = s.frag /\ t.freq = s.freq /\ t.slevel = s.slevel
      /\ t.buf = s.buf /\ t.pos = s.pos /\ t.prev = s.prev /\ t.metadata = s.metadata
      /\ t.startpos = s.startpos
  <2>1. /\ Keeps(s, a, {"timer", "orphans"}) /\ a.timer = "armed"
        /\ a.orphans = IF s.timer = "armed" THEN s.orphans + 1 ELSE s.orphans
    BY <1>2, ArmTimerFact DEF Answered, Player
  <2>2. PICK e : e = [a.errors EXCEPT ![l] = 0]
    OBVIOUS
  <2>3. t = [a EXCEPT !.errors = e]
    BY <1>3, <2>1, <2>2 DEF Keeps, Keys
  <2>. QED
    BY <2>1, <2>3 DEF Keeps, Keys
<1>15. PICK details, state : /\ details = [t.details EXCEPT ![l] = d]
                            /\ state = IF t.state = "WAITING_LEVEL" THEN "IDLE" ELSE t.state
  OBVIOUS
<1>6. PICK x, y :
         /\ details = [t.details EXCEPT ![l] = d]
         /\ state = IF t.state = "WAITING_LEVEL" THEN "IDLE" ELSE t.state
         /\ x \in {t.startpos, s.startpos, LiveSyncPosition(d)}
         /\ u = [t EXCEPT !.details = details, !.last = l, !.startpos = x, !.next = y,
                          !.state = state]
  <2>1. PICK at \in {s.startpos, LiveSyncPosition(d)} :
          u = [t EXCEPT !.details[l] = d, !.last = l,
                      !.startpos = IF s.requested THEN @ ELSE at,
                      !.next = IF s.requested THEN @ ELSE at,
                      !.state = IF @ = "WAITING_LEVEL" THEN "IDLE" ELSE @]
    BY Zenon, <1>4
  <2>2. PICK x, y : /\ x = IF s.requested THEN t.startpos ELSE at
                    /\ y = IF s.requested THEN t.next ELSE at
    OBVIOUS
  <2>3. u = [t EXCEPT !.details = details, !.last = l, !.startpos = x, !.next = y,
                      !.state = state]
    BY <1>5, <1>15, <2>1, <2>2 DEF Keys
  <2>4. x \in {t.startpos, s.startpos, LiveSyncPosition(d)}
    BY <2>1, <2>2
  <2>. QED
    BY <1>15, <2>3, <2>4
<1>7. /\ DOMAIN u = Keys /\ u.timer = t.timer /\ u.orphans = t.orphans
      /\ u.n = t.n /\ u.first = t.first /\ u.startlevel = t.startlevel /\ u.manual = t.manual
      /\ u.forced = t.forced /\ u.extra = t.extra /\ u.details = details
      /\ u.level = t.level /\ u.req = t.req /\ u.down = t.down /\ u.state = state
      /\ u.origin = t.origin /\ u.canload = t.canload
      /\ u.frag = t.frag /\ u.freq = t.freq /\ u.slevel = t.slevel /\ u.last = l
      /\ u.buf = t.buf /\ u.pos = t.pos /\ u.prev = t.prev /\ u.metadata = t.metadata
      /\ u.startpos = x
  BY <1>5, <1>6 DEF Keys
<1>8. Parsed(d, Ranks(s)) /\ Details(d, Ranks(s))
  <2>1. l \in Levels
    BY DEF Answered, Player
  <2>2. CASE s.details[l] = NoDetails
    BY <1>1, <2>2, ParsedIsDetails
  <2>3. CASE s.details[l] # NoDetails
    <3>1. PICK o : o = s.details[l]
      OBVIOUS
    <3>2. Parsed(o, Ranks(s))
      BY <2>1, <2>3, <3>1 DEF Answered, Player, Details, Parsed
    <3>. QED
      BY <1>1, <2>3, <3>1, <3>2, MergeTyped, ParsedIsDetails
  <2>. QED
    BY <2>2, <2>3
<1>9. DOMAIN details = Levels /\ \A m \in Levels : Details(details[m], Ranks(s))
  <2>1. DOMAIN s.details = Levels /\ \A m \in Levels : Details(s.details[m], Ranks(s))
    BY DEF Answered, Player
  <2>. QED
    BY <1>5, <1>6, <1>8, <2>1
<1>14. Heard(s, u, new)
  <2>1. details = [s.details EXCEPT ![s.level] =
                     IF @ = NoDetails THEN new ELSE MergeDetails(@, new)]
    BY <1>1, <1>5, <1>6
  <2>2. u.details = [s.details EXCEPT ![s.level] =
                       IF @ = NoDetails THEN new ELSE MergeDetails(@, new)]
    BY Zenon, <1>7, <2>1
  <2>. HIDE DEF l
  <2>3. u.last = l /\ u.req = s.req /\ u.origin = s.origin
        /\ u.frag = s.frag /\ u.freq = s.freq /\ u.slevel = s.slevel
        /\ u.state = (IF s.state = "WAITING_LEVEL" THEN "IDLE" ELSE s.state)
        /\ u.buf = s.buf /\ u.pos = s.pos /\ u.prev = s.prev /\ u.metadata = s.metadata
    BY <1>5, <1>6, <1>7
  <2>4. d = u.details[l]
    <3>1. l \in Levels /\ DOMAIN s.details = Levels
      BY DEF Answered, Player, l
    <3>. QED
      BY <1>5, <1>6, <1>7, <3>1
  <2>5. u.startpos = s.startpos \/ u.startpos = LiveSyncPosition(u.details[l])
    BY <1>5, <1>6, <1>7, <2>4
  <2>. USE DEF l
  <2>. QED
    BY Zenon, <2>2, <2>3, <2>5 DEF Heard
<1>. HIDE DEF l
<1>10. t.orphans \in Nat /\ t.orphans = Timers(s)
  BY <1>5 DEF Answered, Player, Timers
<1>11. Player(u)
  <2>1. Ranks(u) = Ranks(s)
    BY <1>5, <1>7 DEF Ranks
  <2>. QED
    BY <1>5, <1>6, <1>7, <1>9, <1>10, <2>1 DEF Answered, Player
<1>12. Waits(u) /\ Parses(u) /\ Asks(u) /\ Stands(u) /\ Refreshes(u)
  BY <1>5, <1>6, <1>7 DEF Answered, Waits, Parses, Asks, Stands, Refreshes, Ticks, Busy
<1>13. Counts(u)
  <2>1. Timers(u) = 1 + Timers(s) /\ (Busy(u) <=> Busy(s))
    BY <1>5, <1>7, <1>10 DEF Timers, Busy
  <2>2. Timers(s) \in Nat /\ s.extra \in Nat
    BY <1>10 DEF Answered, Player
  <2>3. u.orphans = Timers(s) /\ u.extra = s.extra
    BY <1>5, <1>7, <1>10
  <2>4. CASE Busy(s)
    BY <2>1, <2>2, <2>3, <2>4 DEF Answered, Counts
  <2>5. CASE ~Busy(s)
    BY <2>1, <2>2, <2>3, <2>5 DEF Answered, Counts
  <2>. QED
    BY <2>4, <2>5
<1>. QED
  BY <1>4, <1>11, <1>12, <1>13, <1>14 DEF Good

LEMMA OnLevelLoadedGood ==
    ASSUME NEW s, Answered(s), abr \in Levels, NEW new, Parsed(new, Ranks(s)),
           OnLevelLoaded(s, s.level, new)
    PROVE  Good(p')
BY OnLevelLoadedFact, TickGood

\* A failure is answered by a redundant stream, by a lower level, by another
\* try of the timer, or by giving the level up.
LEMMA OnPlaylistErrorGood ==
    ASSUME NEW s, Answered(s), ~Busy(s), NEW b \in BOOLEAN
    PROVE  Good(OnPlaylistError(s, s.level, b))
<1>. DEFINE l == s.level
<1>0. l \in Ranks(s) /\ l \in Levels /\ l \in Nat /\ DOMAIN s = Keys
  BY DEF Answered, Player, Ranks, None
<1>1. PICK state : state = IF s.state = "WAITING_LEVEL" THEN "IDLE" ELSE s.state
  OBVIOUS
<1>2. state = "IDLE" => s.canload \/ s.state = "IDLE"
  BY <1>1 DEF Answered, Stands
<1>3. Timers(s) \in Nat /\ s.extra \in Nat /\ Timers(s) <= s.extra /\ s.orphans <= Timers(s)
  BY DEF Answered, Player, Timers
<1>4. CASE HasRedundant(s, l)
  <2>1. PICK url, details : /\ url = [s.url EXCEPT ![l] = (@ + 1) % s.urls[l]]
                            /\ details = [s.details EXCEPT ![l] = NoDetails]
    OBVIOUS
  <2>2. PICK t : t = [s EXCEPT !.url = url, !.details = details, !.state = state]
    OBVIOUS
  <2>3. OnPlaylistError(s, l, b) = WaitNoMore(Redundant(s, l))
    BY Zenon, <1>4 DEF OnPlaylistError
  <2>4. Redundant(s, l) = [s EXCEPT !.url = url, !.details = details]
    BY <1>0, <2>1 DEF Redundant, Keys
  <2>5. WaitNoMore(Redundant(s, l)) = t
    BY <1>0, <1>1, <2>2, <2>4 DEF WaitNoMore, Keys
  <2>6. /\ DOMAIN t = Keys /\ t.timer = s.timer /\ t.orphans = s.orphans
        /\ t.n = s.n /\ t.first = s.first /\ t.startlevel = s.startlevel /\ t.manual = s.manual
        /\ t.forced = s.forced /\ t.extra = s.extra /\ t.details = details
        /\ t.level = s.level /\ t.req = s.req /\ t.down = s.down /\ t.state = state
        /\ t.origin = s.origin /\ t.canload = s.canload
        /\ t.frag = s.frag /\ t.freq = s.freq /\ t.slevel = s.slevel
    BY <1>0, <2>2 DEF Keys
  <2>7. /\ DOMAIN details = Levels /\ details[l] = NoDetails
        /\ \A m \in Levels : Details(details[m], Ranks(s))
    BY <1>0, <2>1 DEF Answered, Player, Details
  <2>8. Player(t)
    BY <1>1, <2>6, <2>7 DEF Answered, Player, Ranks
  <2>9. Waits(t) /\ Parses(t) /\ Asks(t) /\ Stands(t) /\ Refreshes(t)
    BY <1>1, <2>6, <2>7 DEF Answered, Waits, Parses, Asks, Stands, Refreshes, Busy
  <2>10. Counts(t)
    BY <1>3, <2>6, <2>8 DEF Counts, Timers, Busy, Player
  <2>. QED
    BY <2>3, <2>5, <2>8, <2>9, <2>10 DEF Good
<1>5. CASE ~HasRedundant(s, l) /\ Recoverable(s, l)
  <2>1. PICK down : down = (l = s.level)
    OBVIOUS
  <2>2. PICK t : t = [s EXCEPT !.forced = l - 1, !.down = down, !.state = state]
    OBVIOUS
  <2>3. OnPlaylistError(s, l, b) = WaitNoMore([s EXCEPT !.forced = l - 1, !.down = (l = s.level)])
    BY Zenon, <1>5 DEF OnPlaylistError
  <2>4. PICK v : v = [s EXCEPT !.forced = l - 1, !.down = down]
    OBVIOUS
  <2>5. OnPlaylistError(s, l, b) = WaitNoMore(v)
    BY Zenon, <2>1, <2>3, <2>4
  <2>6. WaitNoMore(v) = t
    BY <1>0, <1>1, <2>2, <2>4 DEF WaitNoMore, Keys
  <2>7. /\ DOMAIN t = Keys /\ t.timer = s.timer /\ t.orphans = s.orphans
        /\ t.n = s.n /\ t.first = s.first /\ t.startlevel = s.startlevel /\ t.manual = s.manual
        /\ t.forced = l - 1 /\ t.extra = s.extra /\ t.details = s.details
        /\ t.level = s.level /\ t.req = s.req /\ t.down = down /\ t.state = state
        /\ t.origin = s.origin /\ t.canload = s.canload
        /\ t.frag = s.frag /\ t.freq = s.freq /\ t.slevel = s.slevel
    BY <1>0, <2>2 DEF Keys
  <2>8. l - 1 \in Ranks(s)
    <3>1. s.n \in Nat /\ l > 0
      BY <1>5 DEF Recoverable, Answered, Player
    <3>. HIDE DEF l
    <3>. QED
      BY <1>0, <3>1 DEF Ranks
  <2>9. Player(t)
    BY <1>1, <2>7, <2>8 DEF Answered, Player, Ranks
  <2>10. Waits(t) /\ Parses(t) /\ Asks(t) /\ Stands(t) /\ Refreshes(t)
    BY <1>1, <2>1, <2>7 DEF Answered, Waits, Parses, Asks, Stands, Refreshes, Busy
  <2>11. Counts(t)
    BY <1>3, <2>7, <2>9 DEF Counts, Timers, Busy, Player
  <2>. QED
    BY <2>5, <2>6, <2>9, <2>10, <2>11 DEF Good
<1>6. CASE ~HasRedundant(s, l) /\ ~Recoverable(s, l) /\ s.details[l] # NoDetails
  <2>1. PICK t : t = [s EXCEPT !.level = None, !.state = state]
    OBVIOUS
  <2>2. OnPlaylistError(s, l, b) = WaitNoMore([s EXCEPT !.level = None])
    BY Zenon, <1>6 DEF OnPlaylistError
  <2>3. WaitNoMore([s EXCEPT !.level = None]) = t
    BY <1>0, <1>1, <2>1 DEF WaitNoMore, Keys
  <2>4. /\ DOMAIN t = Keys /\ t.timer = s.timer /\ t.orphans = s.orphans
        /\ t.n = s.n /\ t.first = s.first /\ t.startlevel = s.startlevel /\ t.manual = s.manual
        /\ t.forced = s.forced /\ t.extra = s.extra /\ t.details = s.details
        /\ t.level = None /\ t.req = s.req /\ t.down = s.down /\ t.state = state
        /\ t.origin = s.origin /\ t.canload = s.canload
        /\ t.frag = s.frag /\ t.freq = s.freq /\ t.slevel = s.slevel
    BY <1>0, <2>1 DEF Keys
  <2>5. Player(t)
    BY <1>1, <2>4 DEF Answered, Player, Ranks
  <2>6. Waits(t) /\ Parses(t) /\ Asks(t) /\ Stands(t) /\ Refreshes(t)
    BY <1>1, <2>4 DEF Answered, Waits, Parses, Asks, Stands, Refreshes, Busy
  <2>7. Counts(t)
    BY <1>3, <2>4, <2>5 DEF Counts, Timers, Busy, Player
  <2>. QED
    BY <2>2, <2>3, <2>5, <2>6, <2>7 DEF Good
<1>7. CASE /\ ~HasRedundant(s, l) /\ ~Recoverable(s, l) /\ s.details[l] = NoDetails
           /\ b = TRUE
  <2>1. PICK t : t = ArmTimer(s)
    OBVIOUS
  <2>2. OnPlaylistError(s, l, b) = t
    BY Zenon, <1>7, <2>1 DEF OnPlaylistError
  <2>3. /\ Keeps(s, t, {"timer", "orphans"}) /\ t.timer = "armed"
        /\ t.orphans = IF s.timer = "armed" THEN s.orphans + 1 ELSE s.orphans
    BY <1>0, <2>1, ArmTimerFact
  <2>4. t.orphans = Timers(s)
    BY <2>3 DEF Timers, Answered, Player
  <2>5. /\ DOMAIN t = Keys
        /\ t.n = s.n /\ t.first = s.first /\ t.startlevel = s.startlevel /\ t.manual = s.manual
        /\ t.forced = s.forced /\ t.extra = s.extra /\ t.details = s.details
        /\ t.level = s.level /\ t.req = s.req /\ t.down = s.down /\ t.state = s.state
        /\ t.origin = s.origin /\ t.canload = s.canload
        /\ t.frag = s.frag /\ t.freq = s.freq /\ t.slevel = s.slevel
    BY <2>3 DEF Keeps, Keys
  <2>6. Player(t)
    BY <1>3, <2>3, <2>4, <2>5 DEF Answered, Player, Ranks
  <2>7. Waits(t) /\ Parses(t) /\ Asks(t) /\ Stands(t) /\ Refreshes(t)
    BY <2>3, <2>5 DEF Answered, Waits, Parses, Asks, Stands, Refreshes, Busy, Ticks, Ranks
  <2>8. Counts(t)
    BY <1>3, <2>3, <2>4, <2>5, <2>6 DEF Counts, Timers, Busy, Player
  <2>. QED
    BY <2>2, <2>6, <2>7, <2>8 DEF Good
<1>8. CASE /\ ~HasRedundant(s, l) /\ ~Recoverable(s, l) /\ s.details[l] = NoDetails
           /\ b = FALSE
  <2>1. PICK t : t = [s EXCEPT !.timer = "none", !.level = None, !.state = "ERROR"]
    OBVIOUS
  <2>2. OnPlaylistError(s, l, b) = [CleanTimer(s) EXCEPT !.level = None, !.state = "ERROR"]
    BY Zenon, <1>8 DEF OnPlaylistError
  <2>3. [CleanTimer(s) EXCEPT !.level = None, !.state = "ERROR"] = t
    BY <1>0, <2>1 DEF CleanTimer, Keys
  <2>4. /\ DOMAIN t = Keys /\ t.timer = "none" /\ t.orphans = s.orphans
        /\ t.n = s.n /\ t.first = s.first /\ t.startlevel = s.startlevel /\ t.manual = s.manual
        /\ t.forced = s.forced /\ t.extra = s.extra /\ t.details = s.details
        /\ t.level = None /\ t.req = s.req /\ t.down = s.down /\ t.state = "ERROR"
        /\ t.origin = s.origin /\ t.canload = s.canload
        /\ t.frag = s.frag /\ t.freq = s.freq /\ t.slevel = s.slevel
    BY <1>0, <2>1 DEF Keys
  <2>5. Player(t)
    BY <2>4 DEF Answered, Player, Ranks
  <2>6. Waits(t) /\ Parses(t) /\ Asks(t) /\ Stands(t) /\ Refreshes(t)
    BY <2>4 DEF Answered, Waits, Parses, Asks, Stands, Refreshes, Busy
  <2>7. Counts(t)
    BY <1>3, <2>4, <2>5 DEF Counts, Timers, Busy, Player
  <2>. QED
    BY <2>2, <2>3, <2>5, <2>6, <2>7 DEF Good
<1>. HIDE DEF l
<1>9. b = TRUE \/ b = FALSE
  OBVIOUS
<1>. QED
  BY Zenon, <1>4, <1>5, <1>6, <1>7, <1>8, <1>9 DEF l

\* A fragment that fails costs the level a stream, or the level itself.
LEMMA FragFailedGood ==
    ASSUME NEW s, Good(s), s.freq # NoFrag, NEW errors, NEW e,
           e = [s EXCEPT !.errors = errors, !.freq = NoFrag]
    PROVE  Good(RetryLater(LevelOfFragFailed(e, s.freq.level)))
<1>. DEFINE l == s.freq.level
<1>0. l \in Ranks(s) /\ l \in Levels /\ l \in Nat /\ s.canload /\ DOMAIN s = Keys
  <2>1. l \in Ranks(s) /\ Ranks(s) \subseteq Levels /\ s.canload /\ DOMAIN s = Keys
    BY DEF Good, Player, Stands, Fragments
  <2>. QED
    BY <2>1 DEF Ranks
<1>. HIDE DEF l
<1>1. /\ DOMAIN e = Keys /\ e.timer = s.timer /\ e.orphans = s.orphans
      /\ e.n = s.n /\ e.first = s.first /\ e.startlevel = s.startlevel /\ e.manual = s.manual
      /\ e.forced = s.forced /\ e.extra = s.extra /\ e.details = s.details
      /\ e.level = s.level /\ e.req = s.req /\ e.down = s.down /\ e.state = s.state
      /\ e.origin = s.origin /\ e.canload = s.canload
      /\ e.frag = s.frag /\ e.freq = NoFrag /\ e.slevel = s.slevel
  BY <1>0 DEF Keys
<1>2. PICK t : t = LevelOfFragFailed(e, l)
  OBVIOUS
<1>3. \E details, forced :
         /\ Keeps(e, t, {"details", "forced", "url"})
         /\ t.details = details /\ t.forced = forced
         /\ details = s.details \/ details = [s.details EXCEPT ![l] = NoDetails]
         /\ forced \in Ranks(s) \cup {None}
  <2>1. CASE HasRedundant(e, l)
    <3>1. PICK url, details : /\ url = [e.url EXCEPT ![l] = (@ + 1) % e.urls[l]]
                              /\ details = [s.details EXCEPT ![l] = NoDetails]
      OBVIOUS
    <3>2. Redundant(e, l) = [e EXCEPT !.url = url, !.details = details]
      BY <1>1, <3>1 DEF Redundant, Keys
    <3>3. t = [e EXCEPT !.url = url, !.details = details]
      BY <1>2, <2>1, <3>2 DEF LevelOfFragFailed
    <3>4. Keeps(e, t, {"details", "forced", "url"}) /\ t.details = details /\ t.forced = s.forced
      BY <1>1, <3>3 DEF Keeps, Keys
    <3>5. s.forced \in Ranks(s) \cup {None}
      BY DEF Good, Player
    <3>. QED
      BY <3>1, <3>4, <3>5
  <2>2. CASE ~HasRedundant(e, l) /\ Recoverable(e, l)
    <3>1. t = [e EXCEPT !.forced = l - 1]
      BY <1>2, <2>2 DEF LevelOfFragFailed
    <3>2. /\ Keeps(e, t, {"details", "forced", "url"}) /\ t.details = s.details
          /\ t.forced = l - 1
      BY <1>1, <3>1 DEF Keeps, Keys
    <3>3. l - 1 \in Ranks(s)
      <4>1. s.n \in Nat /\ l > 0
        BY <2>2 DEF Recoverable, Good, Player
      <4>. QED
        BY <1>0, <4>1 DEF Ranks
    <3>. QED
      BY <3>2, <3>3
  <2>3. CASE ~HasRedundant(e, l) /\ ~Recoverable(e, l)
    <3>1. t = e
      BY <1>2, <2>3 DEF LevelOfFragFailed
    <3>2. /\ Keeps(e, t, {"details", "forced", "url"}) /\ t.details = s.details
          /\ t.forced = s.forced
      BY <1>1, <3>1 DEF Keeps
    <3>3. s.forced \in Ranks(s) \cup {None}
      BY DEF Good, Player
    <3>. QED
      BY <3>2, <3>3
  <2>. QED
    BY <2>1, <2>2, <2>3
<1>4. PICK details, forced :
         /\ Keeps(e, t, {"details", "forced", "url"})
         /\ t.details = details /\ t.forced = forced
         /\ details = s.details \/ details = [s.details EXCEPT ![l] = NoDetails]
         /\ forced \in Ranks(s) \cup {None}
  BY Zenon, <1>3
<1>5. PICK r : r = RetryLater(t)
  OBVIOUS
<1>6. \E state : /\ state \in {"ERROR", "FRAG_LOADING_WAITING_RETRY"} /\ r.state = state
                 /\ Keeps(t, r, {"state", "fragErrors", "requested", "next"})
  <2>1. DOMAIN t = Keys
    BY <1>4 DEF Keeps
  <2>2. CASE t.fragErrors = MaxRetry
    <3>1. r = [t EXCEPT !.state = "ERROR"]
      BY <1>5, <2>2 DEF RetryLater
    <3>. QED
      BY <2>1, <3>1 DEF Keeps, Keys
  <2>3. CASE t.fragErrors # MaxRetry
    <3>1. PICK a, b, c : a = t.fragErrors + 1 /\ b = (t.requested /\ t.metadata)
                         /\ c = IF t.metadata THEN t.next ELSE t.startpos
      OBVIOUS
    <3>2. RetryLater(t) = [t EXCEPT !.state = "FRAG_LOADING_WAITING_RETRY",
                             !.fragErrors = t.fragErrors + 1,
                             !.requested = (t.requested /\ t.metadata),
                             !.next = IF t.metadata THEN t.next ELSE t.startpos]
      BY Zenon, <2>3 DEF RetryLater
    <3>3. r = [t EXCEPT !.state = "FRAG_LOADING_WAITING_RETRY", !.fragErrors = a,
                        !.requested = b, !.next = c]
      BY Zenon, <1>5, <3>1, <3>2
    <3>. QED
      BY <2>1, <3>3 DEF Keeps, Keys
  <2>. QED
    BY <2>2, <2>3
<1>7. PICK state \in {"ERROR", "FRAG_LOADING_WAITING_RETRY"} :
         r.state = state /\ Keeps(t, r, {"state", "fragErrors", "requested", "next"})
  BY Zenon, <1>6
<1>8. /\ DOMAIN r = Keys /\ r.timer = s.timer /\ r.orphans = s.orphans
      /\ r.n = s.n /\ r.first = s.first /\ r.startlevel = s.startlevel /\ r.manual = s.manual
      /\ r.forced = forced /\ r.extra = s.extra /\ r.details = details
      /\ r.level = s.level /\ r.req = s.req /\ r.down = s.down /\ r.state = state
      /\ r.origin = s.origin /\ r.canload = s.canload
      /\ r.frag = s.frag /\ r.freq = NoFrag /\ r.slevel = s.slevel
  <2>1. /\ t.timer = s.timer /\ t.orphans = s.orphans
        /\ t.n = s.n /\ t.first = s.first /\ t.startlevel = s.startlevel /\ t.manual = s.manual
        /\ t.extra = s.extra
        /\ t.level = s.level /\ t.req = s.req /\ t.down = s.down /\ t.state = s.state
        /\ t.origin = s.origin /\ t.canload = s.canload
        /\ t.frag = s.frag /\ t.freq = NoFrag /\ t.slevel = s.slevel
    <3>1. Keeps(e, t, {"details", "forced", "url"})
      BY <1>4
    <3>2. /\ t.timer = e.timer /\ t.orphans = e.orphans
          /\ t.n = e.n /\ t.first = e.first /\ t.startlevel = e.startlevel
          /\ t.manual = e.manual /\ t.extra = e.extra
          /\ t.level = e.level /\ t.req = e.req /\ t.down = e.down /\ t.state = e.state
          /\ t.origin = e.origin /\ t.canload = e.canload
          /\ t.frag = e.frag /\ t.freq = e.freq /\ t.slevel = e.slevel
      BY <3>1 DEF Keeps, Keys
    <3>. QED
      BY <1>1, <3>2
  <2>. QED
    BY <1>4, <1>7, <2>1 DEF Keeps, Keys
<1>9. /\ DOMAIN details = Levels /\ \A m \in Levels : Details(details[m], Ranks(s))
      /\ \A m \in Levels : s.details[m] = NoDetails => details[m] = NoDetails
  BY <1>0, <1>4 DEF Good, Player, Details
<1>10. Player(r)
  BY <1>4, <1>7, <1>8, <1>9 DEF Good, Player, Ranks
<1>11. Waits(r) /\ Parses(r) /\ Asks(r) /\ Stands(r)
  BY <1>0, <1>7, <1>8 DEF Good, Waits, Parses, Asks, Stands, Busy
<1>12. Refreshes(r)
  <2>1. s.level # None => s.level \in Levels
    BY DEF Good, Player
  <2>. QED
    BY <1>8, <1>9, <2>1 DEF Good, Refreshes, Busy, Ticks
<1>13. Counts(r)
  BY <1>8 DEF Good, Counts, Timers, Busy
<1>. QED
  BY <1>2, <1>5, <1>10, <1>11, <1>12, <1>13 DEF Good, l

\* What the parser leaves behind: s is the player, r what becomes of it.
Timing(s, r, origin, pts, pte) ==
    /\ origin \in Int /\ pts \in Int /\ pte \in Int
    /\ origin = IF s.origin = NaN THEN s.frag.slice * SliceDuration - s.frag.start ELSE s.origin
    /\ pts = s.frag.slice * SliceDuration - origin /\ pte = pts + SliceDuration
    /\ r.details = [s.details EXCEPT ![s.slevel] = UpdateFragPTSDTS(@, s.frag, pts, pte)]
    /\ r.origin = origin

\* What is buffered then, and where the playhead is.
Buffered(s, r, pts) ==
    /\ r.buf = s.buf \cup {s.frag.slice} /\ r.prev.sn = s.frag.sn
    /\ r.metadata = TRUE /\ r.startpos = NaN
    /\ r.pos = IF s.metadata THEN s.pos
               ELSE IF BufferEnd(r, s.startpos) > s.startpos THEN s.startpos ELSE pts

LEMMA AppendedFact ==
    ASSUME NEW s, Good(s), s.state = "PARSING"
    PROVE  LET r == Appended(s, s.frag)
           IN /\ Keeps(s, r, {"origin", "buf", "details", "prev", "frag", "state", "metadata",
                              "pos", "next", "startpos"})
              /\ r.frag = NoFrag /\ r.state = "IDLE"
              /\ \E origin, pts, pte : Timing(s, r, origin, pts, pte) /\ Buffered(s, r, pts)
<1>. DEFINE f == s.frag
<1>0. f \in Fragments(Ranks(s)) /\ s.freq = NoFrag /\ s.canload /\ DOMAIN s = Keys
  BY DEF Good, Player, Parses, Stands
<1>1. PICK origin \in Int : origin = IF s.origin = NaN THEN f.slice * SliceDuration - f.start ELSE s.origin
  <2>1. PICK a \in Int, b \in Int, c \in Int : a = f.slice /\ b = f.start /\ c = SliceDuration
    BY <1>0, PlaylistAssumption DEF Fragments
  <2>2. a * c - b \in Int /\ s.origin \in Int
    BY DEF Good, Player
  <2>. QED
    BY <2>1, <2>2
<1>2. PICK buf : buf = s.buf \cup {f.slice}
  OBVIOUS
<1>3. PICK t : t = [s EXCEPT !.origin = origin, !.buf = buf]
  OBVIOUS
<1>4. PICK pts \in Int : pts = Time(t, f.slice)
  <2>1. t.origin = origin
    BY <1>0, <1>3 DEF Keys
  <2>2. PICK a \in Int, c \in Int : a = f.slice /\ c = SliceDuration
    BY <1>0, PlaylistAssumption DEF Fragments
  <2>3. Time(t, f.slice) = a * c - origin /\ a * c - origin \in Int
    BY <2>1, <2>2 DEF Time
  <2>. QED
    BY <2>3
<1>5. PICK pte \in Int : pte = pts + SliceDuration
  BY PlaylistAssumption
<1>6. PICK played : played = IF BufferEnd(t, s.startpos) > s.startpos THEN s.startpos ELSE pts
  OBVIOUS
<1>7. PICK details : details = [t.details EXCEPT ![s.slevel] = UpdateFragPTSDTS(@, f, pts, pte)]
  OBVIOUS
<1>8. PICK prev : prev = [NoFrag EXCEPT !.level = f.level, !.sn = f.sn]
  OBVIOUS
<1>9. PICK pos : pos = IF s.metadata THEN t.pos ELSE played
  OBVIOUS
<1>10. PICK r : r = Appended(s, f)
  OBVIOUS
<1>11. r = [t EXCEPT !.details = details, !.prev = prev, !.frag = NoFrag, !.state = "IDLE",
                     !.metadata = TRUE, !.pos = pos, !.next = NaN, !.startpos = NaN]
  <2>0. DOMAIN t = Keys
    BY <1>0, <1>3 DEF Keys
  <2>. DEFINE T == [s EXCEPT !.origin = IF @ = NaN THEN f.slice * SliceDuration - f.start ELSE @,
                             !.buf = @ \cup {f.slice}]
  <2>1. T = t
    BY <1>0, <1>1, <1>2, <1>3 DEF Keys
  <2>. DEFINE Pts == Time(T, f.slice)
              Played == IF BufferEnd(T, s.startpos) > s.startpos THEN s.startpos ELSE Pts
  <2>2. Appended(s, f) =
          [T EXCEPT !.details[s.slevel] = UpdateFragPTSDTS(@, f, Pts, Pts + SliceDuration),
                    !.prev = [NoFrag EXCEPT !.level = f.level, !.sn = f.sn],
                    !.frag = NoFrag, !.state = "IDLE", !.metadata = TRUE,
                    !.pos = IF s.metadata THEN @ ELSE Played, !.next = NaN, !.startpos = NaN]
    BY Zenon DEF Appended
  <2>. HIDE DEF T
  <2>3. Pts = pts
    BY Zenon, <1>4, <2>1
  <2>4. Played = played
    BY Zenon, <1>6, <2>1, <2>3
  <2>. HIDE DEF Pts, Played
  <2>5. r = [t EXCEPT !.details[s.slevel] = UpdateFragPTSDTS(@, f, pts, pts + SliceDuration),
                      !.prev = prev, !.frag = NoFrag, !.state = "IDLE", !.metadata = TRUE,
                      !.pos = IF s.metadata THEN @ ELSE played, !.next = NaN, !.startpos = NaN]
    BY Zenon, <1>8, <1>10, <2>1, <2>2, <2>3, <2>4
  <2>6. r = [t EXCEPT !.details[s.slevel] = UpdateFragPTSDTS(@, f, pts, pte),
                      !.prev = prev, !.frag = NoFrag, !.state = "IDLE", !.metadata = TRUE,
                      !.pos = pos, !.next = NaN, !.startpos = NaN]
    BY Zenon, <1>5, <1>9, <2>5
  <2>. HIDE DEF f
  <2>. QED
    BY <1>7, <2>0, <2>6 DEF Keys
<1>12. /\ Keeps(s, r, {"origin", "buf", "details", "prev", "frag", "state", "metadata",
                       "pos", "next", "startpos"})
       /\ r.frag = NoFrag /\ r.state = "IDLE" /\ r.details = details /\ r.origin = origin
       /\ t.details = s.details /\ t.origin = origin
  BY <1>0, <1>3, <1>11 DEF Keys, Keeps
<1>13. pts = f.slice * SliceDuration - origin
  BY <1>4, <1>12 DEF Time
<1>14. r.details = [s.details EXCEPT ![s.slevel] = UpdateFragPTSDTS(@, f, pts, pte)]
  BY Zenon, <1>7, <1>12
<1>15. Timing(s, r, origin, pts, pte)
  BY Zenon, <1>1, <1>5, <1>12, <1>13, <1>14 DEF Timing
<1>16. Buffered(s, r, pts)
  <2>1. /\ DOMAIN t = Keys /\ t.pos = s.pos /\ t.buf = buf /\ t.origin = origin
        /\ prev.sn = f.sn
    BY <1>0, <1>3, <1>8 DEF Keys, NoFrag
  <2>2. /\ r.buf = buf /\ r.prev = prev /\ r.metadata = TRUE /\ r.startpos = NaN /\ r.pos = pos
        /\ r.origin = origin
    BY <1>11, <2>1 DEF Keys
  <2>3. BufferEnd(r, s.startpos) = BufferEnd(t, s.startpos)
    BY <2>1, <2>2 DEF BufferEnd, Time
  <2>4. r.pos = IF s.metadata THEN s.pos
                ELSE IF BufferEnd(r, s.startpos) > s.startpos THEN s.startpos ELSE pts
    BY Zenon, <1>6, <1>9, <2>1, <2>2, <2>3
  <2>. QED
    BY Zenon, <1>2, <2>1, <2>2, <2>4 DEF Buffered
<1>. QED
  BY <1>10, <1>12, <1>15, <1>16

LEMMA AppendedGood ==
    ASSUME NEW s, Good(s), s.state = "PARSING"
    PROVE  Good(Appended(s, s.frag))
<1>. DEFINE f == s.frag
<1>0. f \in Fragments(Ranks(s)) /\ s.freq = NoFrag /\ s.canload /\ DOMAIN s = Keys
  BY DEF Good, Player, Parses, Stands
<1>10. PICK r : r = Appended(s, f)
  OBVIOUS
<1>11. PICK origin, pts, pte : Timing(s, r, origin, pts, pte)
  BY <1>10, AppendedFact
<1>1. origin \in Int /\ pts \in Int /\ pte \in Int
  BY <1>11 DEF Timing
<1>7. PICK details : details = [s.details EXCEPT ![s.slevel] = UpdateFragPTSDTS(@, f, pts, pte)]
  OBVIOUS
<1>12. /\ DOMAIN r = Keys /\ r.timer = s.timer /\ r.orphans = s.orphans
       /\ r.n = s.n /\ r.first = s.first /\ r.startlevel = s.startlevel /\ r.manual = s.manual
       /\ r.forced = s.forced /\ r.extra = s.extra /\ r.details = details
       /\ r.level = s.level /\ r.req = s.req /\ r.down = s.down /\ r.state = "IDLE"
       /\ r.origin = origin /\ r.canload = s.canload
       /\ r.frag = NoFrag /\ r.freq = NoFrag /\ r.slevel = s.slevel
  <2>1. /\ Keeps(s, r, {"origin", "buf", "details", "prev", "frag", "state", "metadata",
                        "pos", "next", "startpos"})
        /\ r.frag = NoFrag /\ r.state = "IDLE"
    BY <1>10, AppendedFact
  <2>2. r.details = details /\ r.origin = origin
    BY Zenon, <1>7, <1>11 DEF Timing
  <2>. QED
    BY <1>0, <2>1, <2>2 DEF Keeps, Keys
<1>13. /\ DOMAIN details = Levels /\ \A m \in Levels : Details(details[m], Ranks(s))
       /\ \A m \in Levels : s.details[m] = NoDetails => details[m] = NoDetails
  <2>1. DOMAIN s.details = Levels /\ \A m \in Levels : Details(s.details[m], Ranks(s))
    BY DEF Good, Player
  <2>2. \A m \in Levels :
           /\ Details(UpdateFragPTSDTS(s.details[m], f, pts, pte), Ranks(s))
           /\ s.details[m] = NoDetails => UpdateFragPTSDTS(s.details[m], f, pts, pte) = NoDetails
    <3>1. SUFFICES ASSUME NEW m \in Levels
                   PROVE  /\ Details(UpdateFragPTSDTS(s.details[m], f, pts, pte), Ranks(s))
                          /\ s.details[m] = NoDetails =>
                               UpdateFragPTSDTS(s.details[m], f, pts, pte) = NoDetails
      OBVIOUS
    <3>2. PICK d : d = s.details[m] /\ Details(d, Ranks(s))
      BY <2>1
    <3>3. Details(UpdateFragPTSDTS(d, f, pts, pte), Ranks(s))
      <4>. HIDE DEF f
      <4>. QED
        BY <1>0, <1>1, <3>2, UpdateTyped
    <3>4. d = NoDetails => UpdateFragPTSDTS(d, f, pts, pte) = NoDetails
      BY DEF UpdateFragPTSDTS
    <3>. QED
      BY <3>2, <3>3, <3>4
  <2>3. DOMAIN details = Levels
    BY <1>7, <2>1
  <2>4. \A m \in Levels :
           \/ details[m] = s.details[m]
           \/ details[m] = UpdateFragPTSDTS(s.details[m], f, pts, pte)
    BY <1>7, <2>1
  <2>. HIDE DEF f
  <2>. QED
    BY <2>1, <2>2, <2>3, <2>4
<1>14. Player(r)
  BY <1>1, <1>12, <1>13 DEF Good, Player, Ranks
<1>15. Waits(r) /\ Parses(r) /\ Asks(r) /\ Stands(r)
  BY <1>0, <1>12 DEF Good, Waits, Parses, Asks, Stands, Busy
<1>16. Refreshes(r)
  <2>1. s.level # None => s.level \in Levels
    BY DEF Good, Player
  <2>. QED
    BY <1>12, <1>13, <2>1 DEF Good, Refreshes, Busy, Ticks
<1>17. Counts(r)
  BY <1>12 DEF Good, Counts, Timers, Busy
<1>. QED
  BY <1>10, <1>14, <1>15, <1>16, <1>17 DEF Good

(***************************************************************************)
(* The steps.                                                              *)
(***************************************************************************)

Sound == p = NewPlayer \/ Good(p)

Inv == lo \in [Levels -> 0 .. LastSlide] /\ abr \in Levels /\ full \in BOOLEAN /\ Sound

LEMMA NewPlayerFields ==
    /\ DOMAIN NewPlayer = Keys
    /\ NewPlayer.n = 0 /\ NewPlayer.level = None /\ NewPlayer.manual = None
    /\ NewPlayer.canload = FALSE /\ NewPlayer.timer = "none" /\ NewPlayer.orphans = 0
    /\ NewPlayer.req = NoReq /\ NewPlayer.state = "STOPPED" /\ NewPlayer.freq = NoFrag
    /\ NewPlayer.seeking = FALSE /\ NewPlayer.metadata = FALSE /\ NewPlayer.extra = 0
BY DEF NewPlayer, Keys

LEMMA StartGood ==
    ASSUME NEW s, Good(s)
    PROVE  LET t == StartStream(StartLevels(s))
           IN Good(t) /\ t.state = "IDLE" /\ t.n = s.n
BY StartLevelsFact, StartStreamGood

LEMMA AnswerParsed ==
    ASSUME NEW since, NEW ls, NEW l \in ls, NEW d \in Answers(since, l)
    PROVE  Parsed(d, ls)
<1>1. PICK base \in since .. lo[l] : d = ParseLevelPlaylist(l, base)
  BY DEF Answers
<1>2. base \in Int
  OBVIOUS
<1>. QED
  BY <1>1, <1>2, ParseTyped

LEMMA MasterStep ==
    ASSUME Inv, MasterLoaded PROVE Good(p')
<1>1. PICK s : s = StartStream(StartLevels(OnManifestLoaded(p, Variants))) /\ Tick(s)
  BY Zenon DEF MasterLoaded
<1>2. p = NewPlayer
  BY DEF MasterLoaded, Inv, Sound, Good, Player
<1>3. Good(OnManifestLoaded(NewPlayer, Variants))
  <2>1. Cardinality(Range(Variants)) <= Cardinality(Range(Variants))
    BY VariantsAssumption, Names
  <2>. QED
    BY <2>1, VariantsAssumption, ManifestGood
<1>4. Good(s)
  BY <1>1, <1>2, <1>3, StartGood
<1>. QED
  BY <1>1, <1>4, TickGood DEF Inv

\* The one media playlist is asked for a second time while its first answer is
\* handed over.
Doubled(s, t, base) ==
    /\ p = NewPlayer /\ Good(OnManifestLoaded(NewPlayer, <<0>>))
    /\ s = StartStream(StartLevels(OnManifestLoaded(NewPlayer, <<0>>)))
    /\ Good(s) /\ s.state = "IDLE"
    /\ Keeps(AskForLevel(s), t, {"state", "extra"}) /\ t.state = "WAITING_LEVEL"
    /\ Answered(t) /\ t.level = 0 /\ base \in 0 .. lo[0]
    /\ Parsed(ParseLevelPlaylist(0, base), Ranks(t))
    /\ OnLevelLoaded(t, 0, ParseLevelPlaylist(0, base))

LEMMA MediaFact ==
    ASSUME Inv, MediaPlaylistLoaded PROVE \E s, t, base : Doubled(s, t, base)
<1>1. PICK s \in {StartStream(StartLevels(OnManifestLoaded(p, <<0>>)))}, d \in Answers(0, 0) :
         \E t \in {[AskForLevel(s) EXCEPT !.state = "WAITING_LEVEL", !.extra = @ + 1]} :
           OnLevelLoaded(t, 0, d)
  BY Zenon DEF MediaPlaylistLoaded
<1>2. PICK t : /\ t = [AskForLevel(s) EXCEPT !.state = "WAITING_LEVEL", !.extra = @ + 1]
               /\ OnLevelLoaded(t, 0, d)
  BY Zenon, <1>1
<1>3. p = NewPlayer
  BY DEF MediaPlaylistLoaded, Inv, Sound, Good, Player
<1>4. PICK m : m = OnManifestLoaded(NewPlayer, <<0>>)
  OBVIOUS
<1>5. Good(m) /\ m.n = 1
  <2>1. <<0>> \in Seq(Nat) /\ <<0>> # <<>>
    OBVIOUS
  <2>2. /\ Cardinality(Range(<<0>>)) = 1
        /\ Cardinality(Range(<<0>>)) <= Cardinality(Range(Variants))
    <3>1. Range(<<0>>) = {0}
      BY DEF Range
    <3>2. Cardinality({0}) = 1
      BY FS_Singleton
    <3>3. Cardinality(Range(Variants)) \in Nat \ {0}
      BY VariantsAssumption, Names
    <3>. QED
      BY <3>1, <3>2, <3>3
  <2>. QED
    BY <1>4, <2>1, <2>2, ManifestGood
<1>6. Good(s) /\ s.state = "IDLE" /\ s.n = 1
  BY <1>1, <1>3, <1>4, <1>5, StartGood
<1>7. PICK a : a = AskForLevel(s)
  OBVIOUS
<1>8. /\ Good(a) /\ Keeps(s, a, {"timer", "level", "req", "down", "forced", "slevel"})
      /\ a.slevel \in Ranks(a) /\ a.level = a.slevel
  BY <1>6, <1>7, AskForLevelFact DEF Inv
<1>9. PICK e : e = a.extra + 1
  OBVIOUS
<1>10. t = [a EXCEPT !.state = "WAITING_LEVEL", !.extra = e]
  BY <1>2, <1>7, <1>8, <1>9 DEF Keeps, Keys
<1>11. /\ DOMAIN t = Keys /\ t.timer = a.timer /\ t.orphans = a.orphans
       /\ t.n = a.n /\ t.first = a.first /\ t.startlevel = a.startlevel /\ t.manual = a.manual
       /\ t.forced = a.forced /\ t.extra = e /\ t.details = a.details
       /\ t.level = a.level /\ t.req = a.req /\ t.down = a.down /\ t.state = "WAITING_LEVEL"
       /\ t.origin = a.origin /\ t.canload = a.canload
       /\ t.frag = a.frag /\ t.freq = a.freq /\ t.slevel = a.slevel
  BY <1>8, <1>10 DEF Keeps, Keys
<1>12. a.extra \in Nat /\ e \in Nat
  BY <1>8, <1>9 DEF Good, Player
<1>13. a.canload
  <2>1. s.canload
    BY <1>6 DEF Good, Stands
  <2>. QED
    BY <1>8, <2>1 DEF Keeps, Keys
<1>14. Player(t)
  BY <1>8, <1>11, <1>12 DEF Good, Player, Ranks
<1>15. /\ Parses(t) /\ Stands(t) /\ Asks(t) /\ t.slevel \in Ranks(t) /\ t.level # None
  <2>1. Ranks(t) = Ranks(a) /\ a.slevel # None
    BY <1>8, <1>11 DEF Ranks, None
  <2>. QED
    BY <1>8, <1>11, <1>13, <2>1 DEF Good, Parses, Stands, Asks, Busy
<1>16. Timers(t) <= t.extra /\ Timers(t) + (IF Busy(t) THEN 1 ELSE 0) <= t.extra
  <2>1. Timers(t) = Timers(a) /\ (Busy(t) <=> Busy(a))
    BY <1>11 DEF Timers, Busy
  <2>2. Timers(a) \in Nat
    BY <1>8 DEF Good, Player, Timers
  <2>3. Timers(a) + (IF Busy(a) THEN 1 ELSE 0) <= 1 + a.extra
    BY <1>8 DEF Good, Counts
  <2>. QED
    BY <1>9, <1>11, <1>12, <2>1, <2>2, <2>3
<1>17. Answered(t)
  BY <1>14, <1>15, <1>16 DEF Answered
<1>18. t.level = 0 /\ t.n = 1
  <2>3. a.n = s.n
    BY <1>8 DEF Keeps, Keys
  <2>. QED
    BY <1>6, <1>8, <1>11, <2>3 DEF Ranks
<1>19. Parsed(d, Ranks(t))
  <2>1. 0 \in Ranks(t)
    BY <1>18 DEF Ranks
  <2>. QED
    BY <1>1, <2>1, AnswerParsed
<1>20. PICK base \in 0 .. lo[0] : d = ParseLevelPlaylist(0, base)
  BY <1>1 DEF Answers
<1>21. Keeps(a, t, {"state", "extra"}) /\ t.state = "WAITING_LEVEL"
  BY <1>8, <1>10 DEF Keeps, Keys
<1>22. s = StartStream(StartLevels(m))
  BY <1>1, <1>3, <1>4
<1>23. Doubled(s, t, base)
  BY Zenon, <1>2, <1>3, <1>4, <1>5, <1>6, <1>7, <1>17, <1>18, <1>19, <1>20, <1>21, <1>22
     DEF Doubled
<1>. QED
  BY Zenon, <1>23

LEMMA MediaStep ==
    ASSUME Inv, MediaPlaylistLoaded PROVE Good(p')
<1>1. PICK s, t, base : Doubled(s, t, base)
  BY MediaFact
<1>. QED
  BY <1>1, OnLevelLoadedGood DEF Inv, Doubled

\* An answer from the window that began with slice base.
Arrived(s, base) ==
    /\ Good(p) /\ Busy(p) /\ Keeps(p, s, {"req"}) /\ ~Busy(s) /\ Answered(s)
    /\ s.level = p.req.level /\ base \in p.req.since .. lo[s.level]
    /\ Parsed(ParseLevelPlaylist(s.level, base), Ranks(s))
    /\ OnLevelLoaded(s, s.level, ParseLevelPlaylist(s.level, base))

LEMMA PlaylistLoadedFact ==
    ASSUME Inv, PlaylistLoaded PROVE \E s, base : Arrived(s, base)
<1>1. Good(p) /\ Busy(p)
  BY NewPlayerFields DEF Inv, Sound, PlaylistLoaded, Busy, NoReq
<1>2. PICK d \in Answers(p.req.since, p.req.level) :
         OnLevelLoaded([p EXCEPT !.req = NoReq], p.req.level, d)
  BY Zenon DEF PlaylistLoaded
<1>3. PICK s : s = [p EXCEPT !.req = NoReq]
  OBVIOUS
<1>4. /\ DOMAIN s = Keys /\ s.timer = p.timer /\ s.orphans = p.orphans
      /\ s.n = p.n /\ s.first = p.first /\ s.startlevel = p.startlevel /\ s.manual = p.manual
      /\ s.forced = p.forced /\ s.extra = p.extra /\ s.details = p.details
      /\ s.level = p.level /\ s.req = NoReq /\ s.down = p.down /\ s.state = p.state
      /\ s.origin = p.origin /\ s.canload = p.canload
      /\ s.frag = p.frag /\ s.freq = p.freq /\ s.slevel = p.slevel
  BY <1>1, <1>3 DEF Good, Player, Keys
<1>5. ~Busy(s)
  BY <1>4 DEF Busy, NoReq
<1>6. p.req.level = p.level /\ p.level # None
  BY <1>1 DEF Good, Asks
<1>7. Player(s)
  BY <1>1, <1>4 DEF Good, Player, Ranks
<1>8. /\ Parses(s) /\ Stands(s) /\ Asks(s)
      /\ s.state = "WAITING_LEVEL" => s.slevel \in Ranks(s)
  BY <1>1, <1>4, <1>5 DEF Good, Parses, Stands, Asks, Waits, Ranks
<1>9. Timers(s) \in Nat /\ s.extra \in Nat /\ Timers(s) <= s.extra
  <2>1. Timers(s) = Timers(p)
    BY <1>4 DEF Timers
  <2>2. Timers(p) + 1 <= 1 + p.extra /\ Timers(p) \in Nat /\ p.extra \in Nat
    BY <1>1 DEF Good, Counts, Player, Timers
  <2>. QED
    BY <1>4, <2>1, <2>2
<1>10. Answered(s)
  BY <1>4, <1>5, <1>6, <1>7, <1>8, <1>9 DEF Answered
<1>11. p.level \in Ranks(s)
  BY <1>4, <1>6, <1>7 DEF Player, Ranks
<1>12. Parsed(d, Ranks(s))
  BY <1>2, <1>6, <1>11, AnswerParsed
<1>13. PICK base \in p.req.since .. lo[p.req.level] : d = ParseLevelPlaylist(p.req.level, base)
  BY <1>2 DEF Answers
<1>14. Keeps(p, s, {"req"}) /\ s.level = p.req.level
  BY <1>1, <1>3, <1>6 DEF Keeps, Keys, Good, Player
<1>15. Arrived(s, base)
  BY Zenon, <1>1, <1>2, <1>3, <1>5, <1>10, <1>12, <1>13, <1>14 DEF Arrived
<1>. QED
  BY Zenon, <1>15

LEMMA PlaylistLoadedStep ==
    ASSUME Inv, PlaylistLoaded PROVE Good(p')
<1>1. PICK s, base : Arrived(s, base)
  BY PlaylistLoadedFact
<1>. QED
  BY <1>1, OnLevelLoadedGood DEF Inv, Arrived

LEMMA PlaylistRetriedStep ==
    ASSUME Inv, PlaylistRetried PROVE Good(p')
<1>1. Good(p) /\ Busy(p)
  BY NewPlayerFields DEF Inv, Sound, PlaylistRetried, Busy, NoReq
<1>2. PICK r : r = Request(p.req.level, p.req.url, p.req.tries + 1)
  OBVIOUS
<1>3. r.level = p.req.level /\ r.type = "level"
  BY <1>2 DEF Request
<1>4. PICK t : t = p'
  OBVIOUS
<1>5. t = [p EXCEPT !.req = r]
  BY <1>2, <1>4 DEF PlaylistRetried
<1>6. /\ DOMAIN t = Keys /\ t.timer = p.timer /\ t.orphans = p.orphans
      /\ t.n = p.n /\ t.first = p.first /\ t.startlevel = p.startlevel /\ t.manual = p.manual
      /\ t.forced = p.forced /\ t.extra = p.extra /\ t.details = p.details
      /\ t.level = p.level /\ t.req = r /\ t.down = p.down /\ t.state = p.state
      /\ t.origin = p.origin /\ t.canload = p.canload
      /\ t.frag = p.frag /\ t.freq = p.freq /\ t.slevel = p.slevel
  BY <1>1, <1>5 DEF Good, Player, Keys
<1>7. Busy(t) /\ t.req.level = p.req.level
  BY <1>3, <1>6 DEF Busy
<1>8. Player(t)
  BY <1>1, <1>6 DEF Good, Player, Ranks
<1>9. Waits(t) /\ Parses(t) /\ Asks(t) /\ Stands(t) /\ Refreshes(t)
  BY <1>1, <1>6, <1>7 DEF Good, Waits, Parses, Asks, Stands, Refreshes, Ranks
<1>10. Counts(t)
  BY <1>1, <1>6, <1>7 DEF Good, Counts, Timers
<1>. QED
  BY <1>4, <1>8, <1>9, <1>10 DEF Good

LEMMA PlaylistFailsStep ==
    ASSUME Inv, PlaylistFails PROVE Good(p')
<1>1. Good(p) /\ Busy(p)
  BY NewPlayerFields DEF Inv, Sound, PlaylistFails, Busy, NoReq
<1>2. PICK b \in BOOLEAN :
         p' = OnPlaylistError([Failed(p, p.req.level) EXCEPT !.req = NoReq], p.req.level, b)
  <2>1. MediaBuffered \subseteq BOOLEAN
    BY DEF MediaBuffered
  <2>2. PICK b \in MediaBuffered :
           p' = OnPlaylistError([Failed(p, p.req.level) EXCEPT !.req = NoReq], p.req.level, b)
    BY Zenon DEF PlaylistFails
  <2>. QED
    BY <2>1, <2>2
<1>3. PICK s : s = [Failed(p, p.req.level) EXCEPT !.req = NoReq]
  OBVIOUS
<1>4. PICK errors :
         errors = [p.errors EXCEPT ![p.req.level] = Least({@ + 1, p.urls[p.req.level]})]
  OBVIOUS
<1>5. s = [p EXCEPT !.errors = errors, !.req = NoReq]
  <2>1. Failed(p, p.req.level) = [p EXCEPT !.errors = errors]
    BY <1>1, <1>4 DEF Failed, Good, Player, Keys
  <2>. QED
    BY <1>1, <1>3, <2>1 DEF Good, Player, Keys
<1>6. /\ DOMAIN s = Keys /\ s.timer = p.timer /\ s.orphans = p.orphans
      /\ s.n = p.n /\ s.first = p.first /\ s.startlevel = p.startlevel /\ s.manual = p.manual
      /\ s.forced = p.forced /\ s.extra = p.extra /\ s.details = p.details
      /\ s.level = p.level /\ s.req = NoReq /\ s.down = p.down /\ s.state = p.state
      /\ s.origin = p.origin /\ s.canload = p.canload
      /\ s.frag = p.frag /\ s.freq = p.freq /\ s.slevel = p.slevel
  BY <1>1, <1>5 DEF Good, Player, Keys
<1>7. ~Busy(s)
  BY <1>6 DEF Busy, NoReq
<1>8. p.req.level = p.level /\ p.level # None
  BY <1>1 DEF Good, Asks
<1>9. Player(s)
  BY <1>1, <1>6 DEF Good, Player, Ranks
<1>10. /\ Parses(s) /\ Stands(s) /\ Asks(s)
       /\ s.state = "WAITING_LEVEL" => s.slevel \in Ranks(s)
  BY <1>1, <1>6, <1>7 DEF Good, Parses, Stands, Asks, Waits, Ranks
<1>11. Timers(s) \in Nat /\ s.extra \in Nat /\ Timers(s) <= s.extra
  <2>1. Timers(s) = Timers(p)
    BY <1>6 DEF Timers
  <2>2. Timers(p) + 1 <= 1 + p.extra /\ Timers(p) \in Nat /\ p.extra \in Nat
    BY <1>1 DEF Good, Counts, Player, Timers
  <2>. QED
    BY <1>6, <2>1, <2>2
<1>12. Answered(s)
  BY <1>6, <1>7, <1>8, <1>9, <1>10, <1>11 DEF Answered
<1>13. p' = OnPlaylistError(s, s.level, b)
  BY <1>2, <1>3, <1>6, <1>8
<1>. QED
  BY <1>7, <1>12, <1>13, OnPlaylistErrorGood

LEMMA TimerStep ==
    ASSUME Inv, TimerFires \/ OrphanFires PROVE Good(p')
<1>1. Good(p)
  BY NewPlayerFields DEF Inv, Sound, TimerFires, OrphanFires
<1>2. \E s, timer, orphans :
         /\ p' = Reload(s) /\ s = [p EXCEPT !.timer = timer, !.orphans = orphans]
         /\ \/ p.timer = "armed" /\ timer = "fired" /\ orphans = p.orphans
            \/ p.orphans > 0 /\ timer = p.timer /\ orphans = p.orphans - 1
  <2>1. CASE TimerFires
    <3>1. PICK s : s = [p EXCEPT !.timer = "fired"]
      OBVIOUS
    <3>2. s = [p EXCEPT !.timer = "fired", !.orphans = p.orphans]
      BY <1>1, <3>1 DEF Good, Player, Keys
    <3>3. p' = Reload(s) /\ p.timer = "armed"
      BY <2>1, <3>1 DEF TimerFires
    <3>. QED
      BY Zenon, <3>2, <3>3
  <2>2. CASE OrphanFires
    <3>1. PICK s : s = [p EXCEPT !.orphans = p.orphans - 1]
      OBVIOUS
    <3>2. s = [p EXCEPT !.timer = p.timer, !.orphans = p.orphans - 1]
      BY <1>1, <3>1 DEF Good, Player, Keys
    <3>3. p' = Reload(s) /\ p.orphans > 0
      BY Zenon, <2>2, <3>1 DEF OrphanFires
    <3>. QED
      BY Zenon, <3>2, <3>3
  <2>. QED
    BY <2>1, <2>2
<1>3. PICK s, timer, orphans :
         /\ p' = Reload(s) /\ s = [p EXCEPT !.timer = timer, !.orphans = orphans]
         /\ \/ p.timer = "armed" /\ timer = "fired" /\ orphans = p.orphans
            \/ p.orphans > 0 /\ timer = p.timer /\ orphans = p.orphans - 1
  BY Zenon, <1>2
<1>4. /\ DOMAIN s = Keys /\ s.timer = timer /\ s.orphans = orphans
      /\ s.n = p.n /\ s.first = p.first /\ s.startlevel = p.startlevel /\ s.manual = p.manual
      /\ s.forced = p.forced /\ s.extra = p.extra /\ s.details = p.details
      /\ s.level = p.level /\ s.req = p.req /\ s.down = p.down /\ s.state = p.state
      /\ s.origin = p.origin /\ s.canload = p.canload
      /\ s.frag = p.frag /\ s.freq = p.freq /\ s.slevel = p.slevel
  BY <1>1, <1>3 DEF Good, Player, Keys
<1>5. /\ p.orphans \in Nat /\ p.extra \in Nat /\ p.orphans <= p.extra
      /\ Timers(p) + (IF Busy(p) THEN 1 ELSE 0) <= 1 + p.extra
      /\ p.timer \in {"none", "armed", "fired"}
  BY <1>1 DEF Good, Player, Counts
<1>6. /\ timer \in {"none", "armed", "fired"} /\ orphans \in Nat
      /\ Timers(s) = Timers(p) - 1 /\ Timers(p) \in Nat
  BY <1>3, <1>4, <1>5 DEF Timers
<1>7. Player(s)
  BY <1>1, <1>4, <1>6 DEF Good, Player, Ranks
<1>8. /\ Parses(s) /\ Asks(s) /\ Stands(s)
      /\ s.state = "WAITING_LEVEL" => s.slevel \in Ranks(s) /\ s.level # None
  BY <1>1, <1>4 DEF Good, Parses, Asks, Stands, Waits, Busy, Ranks
<1>9. /\ Timers(s) <= s.extra
      /\ Timers(s) + (IF Busy(s) THEN 1 ELSE 0) <= 1 + s.extra
  <2>1. Busy(s) <=> Busy(p)
    BY <1>4 DEF Busy
  <2>. QED
    BY <1>4, <1>5, <1>6, <2>1
<1>10. Fired(s)
  BY <1>7, <1>8, <1>9 DEF Fired
<1>. QED
  BY <1>3, <1>10, ReloadGood

LEMMA FragLoadedStep ==
    ASSUME Inv, FragLoaded PROVE Good(p')
<1>1. Good(p) /\ p.freq # NoFrag
  BY NewPlayerFields DEF Inv, Sound, FragLoaded
<1>2. PICK errors : errors = [p.errors EXCEPT ![p.freq.level] = 0]
  OBVIOUS
<1>3. PICK t : t = [p EXCEPT !.freq = NoFrag, !.forced = None, !.errors = errors]
  OBVIOUS
<1>4. [p EXCEPT !.freq = NoFrag, !.forced = None, !.errors[p.freq.level] = 0] = t
  BY <1>1, <1>2, <1>3 DEF Good, Player, Keys
<1>5. p' = IF t.details[p.freq.level] = NoDetails THEN t
           ELSE [t EXCEPT !.state = "PARSING", !.fragErrors = 0]
  BY Zenon, <1>4 DEF FragLoaded
<1>6. /\ DOMAIN t = Keys /\ t.timer = p.timer /\ t.orphans = p.orphans
      /\ t.n = p.n /\ t.first = p.first /\ t.startlevel = p.startlevel /\ t.manual = p.manual
      /\ t.forced = None /\ t.extra = p.extra /\ t.details = p.details
      /\ t.level = p.level /\ t.req = p.req /\ t.down = p.down /\ t.state = p.state
      /\ t.origin = p.origin /\ t.canload = p.canload
      /\ t.frag = p.frag /\ t.freq = NoFrag /\ t.slevel = p.slevel
  BY <1>1, <1>3 DEF Good, Player, Keys
<1>7. t.canload /\ t.frag # NoFrag
  BY <1>1, <1>6 DEF Good, Player, Stands
<1>8. Player(t)
  BY <1>1, <1>6 DEF Good, Player, Ranks
<1>9. Waits(t) /\ Parses(t) /\ Asks(t) /\ Stands(t) /\ Refreshes(t) /\ Counts(t)
  BY <1>1, <1>6, <1>7
     DEF Good, Waits, Parses, Asks, Stands, Refreshes, Counts, Timers, Busy, Ticks, Ranks
<1>10. CASE t.details[p.freq.level] = NoDetails
  BY <1>5, <1>8, <1>9, <1>10 DEF Good
<1>11. CASE t.details[p.freq.level] # NoDetails
  <2>1. PICK u : u = [t EXCEPT !.state = "PARSING", !.fragErrors = 0]
    OBVIOUS
  <2>2. /\ DOMAIN u = Keys /\ u.timer = t.timer /\ u.orphans = t.orphans
        /\ u.n = t.n /\ u.first = t.first /\ u.startlevel = t.startlevel /\ u.manual = t.manual
        /\ u.forced = t.forced /\ u.extra = t.extra /\ u.details = t.details
        /\ u.level = t.level /\ u.req = t.req /\ u.down = t.down /\ u.state = "PARSING"
        /\ u.origin = t.origin /\ u.canload = t.canload
        /\ u.frag = t.frag /\ u.freq = t.freq /\ u.slevel = t.slevel
    BY <1>6, <2>1 DEF Keys
  <2>3. Player(u)
    BY <1>8, <2>2 DEF Player, Ranks
  <2>4. Waits(u) /\ Parses(u) /\ Asks(u) /\ Stands(u) /\ Refreshes(u) /\ Counts(u)
    BY <1>6, <1>7, <1>9, <2>2
       DEF Waits, Parses, Asks, Stands, Refreshes, Counts, Timers, Busy, Ticks
  <2>. QED
    BY <1>5, <1>11, <2>1, <2>3, <2>4 DEF Good
<1>. QED
  BY <1>10, <1>11

LEMMA FragParsedStep ==
    ASSUME Inv, FragParsed PROVE Good(p')
<1>1. Good(p) /\ p.state = "PARSING"
  BY NewPlayerFields DEF Inv, Sound, FragParsed
<1>2. PICK s : s = Appended(p, p.frag) /\ Tick(s)
  BY Zenon DEF FragParsed
<1>. QED
  BY <1>1, <1>2, AppendedGood, TickGood DEF Inv

LEMMA FragFailsStep ==
    ASSUME Inv, FragFails PROVE Good(p')
<1>1. Good(p) /\ p.freq # NoFrag
  BY NewPlayerFields DEF Inv, Sound, FragFails
<1>2. p' = RetryLater(LevelOfFragFailed([Failed(p, p.freq.level) EXCEPT !.freq = NoFrag],
                                        p.freq.level))
  BY Zenon DEF FragFails
<1>3. PICK errors :
         errors = [p.errors EXCEPT ![p.freq.level] = Least({@ + 1, p.urls[p.freq.level]})]
  OBVIOUS
<1>4. PICK e : e = [Failed(p, p.freq.level) EXCEPT !.freq = NoFrag]
  OBVIOUS
<1>5. e = [p EXCEPT !.errors = errors, !.freq = NoFrag]
  <2>1. Failed(p, p.freq.level) = [p EXCEPT !.errors = errors]
    BY <1>1, <1>3 DEF Failed, Good, Player, Keys
  <2>. QED
    BY <1>1, <1>4, <2>1 DEF Good, Player, Keys
<1>. QED
  BY <1>1, <1>2, <1>4, <1>5, FragFailedGood

\* Whether or not the fragment on its way is given up.
LEMMA SeekingFact ==
    ASSUME Inv, Seeking
    PROVE  \E s, t : /\ Good(p) /\ Keeps(p, s, {"seeking"}) /\ Good(t) /\ Tick(t)
                     /\ \/ t = s
                        \/ /\ Keeps(s, t, {"frag", "freq", "prev", "state"})
                           /\ t.freq = NoFrag /\ t.prev = NoFrag /\ t.state = "IDLE"
<1>1. Good(p)
  BY NewPlayerFields DEF Inv, Sound, Seeking
<1>2. PICK s : s = [p EXCEPT !.seeking = FALSE]
  OBVIOUS
<1>3. Keeps(p, s, {"seeking"}) /\ Keeps(p, s, Aside)
  BY <1>1, <1>2 DEF Keeps, Keys, Aside, Good, Player
<1>4. Good(s) /\ s.state = p.state
  BY <1>1, <1>3, Untouched, UntouchedGood
<1>5. PICK t : /\ Tick(t)
               /\ \/ t = [Stop(s) EXCEPT !.state = "IDLE"] /\ p.state = "FRAG_LOADING"
                  \/ t = s
  <2>. DEFINE away == /\ p.state = "FRAG_LOADING" /\ p.frag # NoFrag
                      /\ BufferEnd(p, p.pos) = p.pos
                      /\ p.pos < p.frag.start \/ p.pos > EndOf(p.frag)
  <2>1. \E t \in {IF away THEN [Stop(s) EXCEPT !.state = "IDLE"] ELSE s} : Tick(t)
    BY Zenon, <1>2 DEF Seeking
  <2>2. away => p.state = "FRAG_LOADING"
    OBVIOUS
  <2>. HIDE DEF away
  <2>. QED
    BY Zenon, <2>1, <2>2
<1>6. CASE t = s
  BY Zenon, <1>1, <1>3, <1>4, <1>5, <1>6
<1>7. CASE t = [Stop(s) EXCEPT !.state = "IDLE"] /\ p.state = "FRAG_LOADING"
  <2>1. PICK v : v = Stop(s)
    OBVIOUS
  <2>2. /\ Keeps(s, v, {"frag", "freq", "prev", "state"})
        /\ v.frag = NoFrag /\ v.freq = NoFrag /\ v.prev = NoFrag
    BY <1>4, <2>1, StopFact DEF Good, Player
  <2>3. t = [v EXCEPT !.state = "IDLE"]
    BY <1>7, <2>1
  <2>4. /\ DOMAIN t = Keys /\ t.timer = s.timer /\ t.orphans = s.orphans
        /\ t.n = s.n /\ t.first = s.first /\ t.startlevel = s.startlevel /\ t.manual = s.manual
        /\ t.forced = s.forced /\ t.extra = s.extra /\ t.details = s.details
        /\ t.level = s.level /\ t.req = s.req /\ t.down = s.down /\ t.state = "IDLE"
        /\ t.origin = s.origin /\ t.canload = s.canload
        /\ t.frag = NoFrag /\ t.freq = NoFrag /\ t.slevel = s.slevel
    BY <2>2, <2>3 DEF Keeps, Keys
  <2>8. Keeps(s, t, {"frag", "freq", "prev", "state"}) /\ t.freq = NoFrag /\ t.state = "IDLE"
        /\ t.prev = NoFrag
    BY <2>2, <2>3 DEF Keeps, Keys
  <2>5. s.canload
    BY <1>4, <1>7 DEF Good, Stands
  <2>6. Player(t)
    BY <1>4, <2>4 DEF Good, Player, Ranks
  <2>7. Waits(t) /\ Parses(t) /\ Asks(t) /\ Stands(t) /\ Refreshes(t) /\ Counts(t)
    BY <1>4, <2>4, <2>5
       DEF Good, Waits, Parses, Asks, Stands, Refreshes, Counts, Timers, Busy, Ticks, Ranks
  <2>. QED
    BY Zenon, <1>1, <1>3, <1>5, <2>6, <2>7, <2>8 DEF Good
<1>. QED
  BY <1>5, <1>6, <1>7

LEMMA RetryTickSeekStep ==
    ASSUME Inv, RetryDue \/ TickDue \/ Seeking PROVE Good(p')
<1>1. CASE RetryDue
  <2>1. Good(p) /\ p.state = "FRAG_LOADING_WAITING_RETRY" /\ p' = [p EXCEPT !.state = "IDLE"]
    BY <1>1, NewPlayerFields DEF Inv, Sound, RetryDue
  <2>2. p.canload
    BY <2>1 DEF Good, Stands
  <2>. QED
    BY <2>1, <2>2, IdleGood
<1>2. CASE TickDue
  <2>1. CASE p = NewPlayer
    <3>1. p.state = "STOPPED"
      BY <2>1, NewPlayerFields
    <3>2. p' = p
      BY <1>2, <3>1 DEF TickDue, Tick
    <3>. QED
      BY <1>2, <3>2 DEF TickDue
  <2>2. CASE Good(p)
    BY <1>2, <2>2, TickGood DEF TickDue, Inv
  <2>. QED
    BY <2>1, <2>2 DEF Inv, Sound
<1>3. CASE Seeking
  BY <1>3, SeekingFact, TickGood DEF Inv
<1>. QED
  BY <1>1, <1>2, <1>3

LEMMA StopLoadStep ==
    ASSUME Inv, StopLoad PROVE Good(p')
<1>1. Good(p)
  BY NewPlayerFields DEF Inv, Sound, StopLoad
<1>2. PICK s : s = [p EXCEPT !.canload = FALSE]
  OBVIOUS
<1>3. p' = Stop(s)
  BY <1>2 DEF StopLoad, Uses
<1>4. PICK t : t = Stop(s)
  OBVIOUS
<1>5. DOMAIN s = Keys
  BY <1>1, <1>2 DEF Good, Player
<1>6. /\ Keeps(s, t, {"frag", "freq", "prev", "state"})
      /\ t.frag = NoFrag /\ t.freq = NoFrag /\ t.state = "STOPPED"
  BY <1>4, <1>5, StopFact
<1>7. /\ DOMAIN t = Keys /\ t.timer = p.timer /\ t.orphans = p.orphans
      /\ t.n = p.n /\ t.first = p.first /\ t.startlevel = p.startlevel /\ t.manual = p.manual
      /\ t.forced = p.forced /\ t.extra = p.extra /\ t.details = p.details
      /\ t.level = p.level /\ t.req = p.req /\ t.down = p.down
      /\ t.origin = p.origin /\ t.canload = FALSE /\ t.slevel = p.slevel
  <2>1. /\ s.timer = p.timer /\ s.orphans = p.orphans
        /\ s.n = p.n /\ s.first = p.first /\ s.startlevel = p.startlevel /\ s.manual = p.manual
        /\ s.forced = p.forced /\ s.extra = p.extra /\ s.details = p.details
        /\ s.level = p.level /\ s.req = p.req /\ s.down = p.down
        /\ s.origin = p.origin /\ s.canload = FALSE /\ s.slevel = p.slevel
    BY <1>1, <1>2 DEF Good, Player, Keys
  <2>. QED
    BY <1>6, <2>1 DEF Keeps, Keys
<1>8. Player(t)
  BY <1>1, <1>6, <1>7 DEF Good, Player, Ranks
<1>9. Waits(t) /\ Parses(t) /\ Asks(t) /\ Stands(t) /\ Refreshes(t) /\ Counts(t)
  BY <1>1, <1>6, <1>7
     DEF Good, Waits, Parses, Asks, Stands, Refreshes, Counts, Timers, Busy
<1>. QED
  BY <1>3, <1>4, <1>8, <1>9 DEF Good

LEMMA StartLoadStep ==
    ASSUME Inv, StartLoad PROVE Good(p')
<1>1. Good(p)
  BY NewPlayerFields DEF Inv, Sound, StartLoad
<1>2. PICK s : s = StartStream(StartLevels(p)) /\ Tick(s)
  BY Zenon DEF StartLoad, Uses
<1>. QED
  BY <1>1, <1>2, StartGood, TickGood DEF Inv

LEMMA ManualStep ==
    ASSUME Inv, NEW l \in Levels \cup {None}, SetManualLevel(l) PROVE Good(p')
<1>0. l \in Int /\ l >= -1
  BY DEF Levels, None
<1>1. Good(p)
  BY <1>0, NewPlayerFields DEF Inv, Sound, SetManualLevel, None
<1>2. PICK start : start = IF p.startlevel = None THEN l ELSE p.startlevel
  OBVIOUS
<1>3. PICK s : s = [p EXCEPT !.manual = l, !.startlevel = start]
  OBVIOUS
<1>4. p' = IF l = None THEN s ELSE SetLevel(s, l)
  BY Zenon, <1>2, <1>3 DEF SetManualLevel, Uses
<1>5. /\ DOMAIN s = Keys /\ s.timer = p.timer /\ s.orphans = p.orphans
      /\ s.n = p.n /\ s.first = p.first /\ s.startlevel = start /\ s.manual = l
      /\ s.forced = p.forced /\ s.extra = p.extra /\ s.details = p.details
      /\ s.level = p.level /\ s.req = p.req /\ s.down = p.down /\ s.state = p.state
      /\ s.origin = p.origin /\ s.canload = p.canload
      /\ s.frag = p.frag /\ s.freq = p.freq /\ s.slevel = p.slevel
  BY <1>1, <1>3 DEF Good, Player, Keys
<1>6. l \in Ranks(p) \cup {None}
  BY <1>0, <1>1 DEF SetManualLevel, Good, Player, Ranks, None
<1>7. start \in Ranks(p) \cup {None}
  BY <1>1, <1>2, <1>6 DEF Good, Player
<1>8. Player(s)
  BY <1>1, <1>5, <1>6, <1>7 DEF Good, Player, Ranks
<1>9. Waits(s) /\ Parses(s) /\ Asks(s) /\ Stands(s) /\ Refreshes(s) /\ Counts(s)
  BY <1>1, <1>5
     DEF Good, Waits, Parses, Asks, Stands, Refreshes, Counts, Timers, Busy, Ticks, Ranks
<1>10. Good(s)
  BY <1>8, <1>9 DEF Good
<1>11. CASE l = None
  BY <1>4, <1>10, <1>11
<1>12. CASE l # None
  <2>1. l \in Ranks(s)
    BY <1>5, <1>6, <1>12 DEF Ranks
  <2>. QED
    BY <1>4, <1>10, <1>12, <2>1, SetLevelFact
<1>. QED
  BY <1>11, <1>12

(***************************************************************************)
(* The theorem.                                                            *)
(***************************************************************************)

\* What is beside the player is moved by the bandwidth, the server and the buffer.
LEMMA Beside ==
    ASSUME [Next]_vars
    PROVE  \/ UNCHANGED <<lo, abr, full>>
           \/ \E l \in Levels : BandwidthChanges(l) \/ Slide(l)
           \/ BufferFills \/ BufferDrains
<1>1. CASE MasterLoaded \/ MediaPlaylistLoaded \/ PlaylistLoaded
  BY <1>1 DEF MasterLoaded, MediaPlaylistLoaded, PlaylistLoaded
<1>2. CASE PlaylistRetried \/ PlaylistFails \/ TimerFires \/ OrphanFires
  BY <1>2 DEF PlaylistRetried, PlaylistFails, TimerFires, OrphanFires
<1>3. CASE FragLoaded \/ FragParsed \/ FragFails
  BY <1>3 DEF FragLoaded, FragParsed, FragFails
<1>4. CASE RetryDue \/ TickDue \/ Seeking
  BY <1>4 DEF RetryDue, TickDue, Seeking
<1>5. CASE StopLoad \/ StartLoad
  BY <1>5 DEF StopLoad, StartLoad
<1>6. CASE \E l \in Levels \cup {None} : SetManualLevel(l)
  BY <1>6 DEF SetManualLevel
<1>7. CASE UNCHANGED vars
  BY <1>7 DEF vars
<1>. QED
  BY <1>1, <1>2, <1>3, <1>4, <1>5, <1>6, <1>7 DEF Next

LEMMA InvInit == Init => Inv
<1>. SUFFICES ASSUME Init PROVE Inv
  OBVIOUS
<1>1. 0 \in 0 .. LastSlide
  BY VariantsAssumption
<1>. QED
  BY <1>1 DEF Init, Inv, Sound

LEMMA InvStep == Inv /\ [Next]_vars => Inv'
<1>. SUFFICES ASSUME Inv, [Next]_vars PROVE Inv'
  OBVIOUS
<1>1. Sound'
  <2>1. CASE MasterLoaded
    BY <2>1, MasterStep DEF Sound
  <2>2. CASE MediaPlaylistLoaded
    BY <2>2, MediaStep DEF Sound
  <2>3. CASE PlaylistLoaded
    BY <2>3, PlaylistLoadedStep DEF Sound
  <2>4. CASE PlaylistRetried
    BY <2>4, PlaylistRetriedStep DEF Sound
  <2>5. CASE PlaylistFails
    BY <2>5, PlaylistFailsStep DEF Sound
  <2>6. CASE TimerFires \/ OrphanFires
    BY <2>6, TimerStep DEF Sound
  <2>7. CASE FragLoaded
    BY <2>7, FragLoadedStep DEF Sound
  <2>8. CASE FragParsed
    BY <2>8, FragParsedStep DEF Sound
  <2>9. CASE FragFails
    BY <2>9, FragFailsStep DEF Sound
  <2>10. CASE RetryDue \/ TickDue \/ Seeking
    BY <2>10, RetryTickSeekStep DEF Sound
  <2>11. CASE StopLoad
    BY <2>11, StopLoadStep DEF Sound
  <2>12. CASE StartLoad
    BY <2>12, StartLoadStep DEF Sound
  <2>13. ASSUME NEW l \in Levels \cup {None}, SetManualLevel(l) PROVE Sound'
    BY <2>13, ManualStep DEF Sound
  <2>14. p' = p => Sound'
    BY DEF Inv, Sound, Good, Player, Waits, Parses, Asks, Stands, Refreshes, Counts, Timers,
           Busy, Ticks, Ranks
  <2>15. CASE BufferFills \/ BufferDrains
    BY <2>14, <2>15 DEF BufferFills, BufferDrains
  <2>16. ASSUME NEW l \in Levels, BandwidthChanges(l) \/ Slide(l) PROVE Sound'
    BY <2>14, <2>16 DEF BandwidthChanges, Slide
  <2>17. CASE UNCHANGED vars
    BY <2>14, <2>17 DEF vars
  <2>. QED
    BY <2>1, <2>2, <2>3, <2>4, <2>5, <2>6, <2>7, <2>8, <2>9, <2>10, <2>11, <2>12, <2>13,
       <2>15, <2>16, <2>17 DEF Next
<1>2. CASE UNCHANGED <<lo, abr, full>>
  BY <1>1, <1>2 DEF Inv
<1>3. ASSUME NEW l \in Levels, BandwidthChanges(l) PROVE Inv'
  BY <1>1, <1>3 DEF Inv, BandwidthChanges, Uses
<1>4. ASSUME NEW l \in Levels, Slide(l) PROVE Inv'
  <2>1. lo[l] \in 0 .. LastSlide /\ lo[l] < LastSlide /\ lo' = [lo EXCEPT ![l] = @ + 1]
        /\ UNCHANGED <<abr, full>>
    BY <1>4 DEF Inv, Slide
  <2>2. lo[l] + 1 \in 0 .. LastSlide
    BY <2>1, VariantsAssumption
  <2>. QED
    BY <1>1, <2>1, <2>2 DEF Inv
<1>5. CASE BufferFills \/ BufferDrains
  BY <1>1, <1>5 DEF Inv, BufferFills, BufferDrains, Uses
<1>. QED
  BY <1>2, <1>3, <1>4, <1>5, Beside

LEMMA InvRefreshed == Inv => Refreshed
<1>. SUFFICES ASSUME Inv PROVE Refreshed
  OBVIOUS
<1>1. CASE p = NewPlayer
  <2>1. ~p.canload /\ p.state = "STOPPED" /\ p.freq = NoFrag /\ p.req.type = "none"
        /\ p.timer = "none" /\ p.orphans = 0 /\ p.extra = 0 /\ p.level = None /\ p.manual = None
    BY <1>1, NewPlayerFields DEF NoReq
  <2>. QED
    BY <2>1 DEF Inv, Refreshed, TypeOK, RefreshKept, WaitsForSomething, FewChains, Chains
<1>2. CASE Good(p)
  <2>1. TypeOK
    BY <1>2 DEF Inv, TypeOK, Good, Player
  <2>2. RefreshKept
    BY <1>2 DEF Good, Refreshes, RefreshKept, Loading, Ticking, WillAsk, Asks, Busy, Ticks
  <2>3. WaitsForSomething
    BY <1>2 DEF Good, Waits, WaitsForSomething, Ticking, Busy, Ticks
  <2>4. FewChains
    BY <1>2 DEF Good, Counts, Timers, Busy, FewChains, Chains
  <2>. QED
    BY <2>1, <2>2, <2>3, <2>4 DEF Refreshed
<1>. QED
  BY <1>1, <1>2 DEF Inv, Sound

\* The refresh of a live playlist (onLevelLoaded, onError, startLoad and
\* setLevelInternal of level-controller.js) goes on, serves whoever waits for
\* it and is never doubled, for any streams, playlists of any length, slices
\* of any duration, and any number of failures, slides and calls of the user.
THEOREM RefreshedHolds == Spec => []Refreshed
<1>1. Init => Inv
  BY InvInit
<1>2. Inv /\ [Next]_vars => Inv'
  BY InvStep
<1>3. Inv => Refreshed
  BY InvRefreshed
<1>. QED
  BY <1>1, <1>2, <1>3, PTL DEF Spec

(***************************************************************************)
(* The numbers of two playlists: mergeDetails takes fragments of one       *)
(* number in two answers of the server for one fragment.                   *)
(***************************************************************************)

\* What parseLevelPlaylist makes of a fragment of a playlist.
LEMMA ParsedFragment ==
    ASSUME NEW level, NEW base \in Nat, NEW sn \in Int,
           HasSN(ParseLevelPlaylist(level, base), sn)
    PROVE  /\ sn - MediaSequence(base) \in 0 .. Listed - 1
           /\ FragOf(ParseLevelPlaylist(level, base), sn).sn = sn
           /\ FragOf(ParseLevelPlaylist(level, base), sn).slice
                 = base + (sn - MediaSequence(base))
<1>. DEFINE d == ParseLevelPlaylist(level, base)
            m == MediaSequence(base)
            k == sn - m + 1
<1>1. m \in Int
  BY PlaylistAssumption DEF MediaSequence
<1>2. d.startSN = m /\ Len(d.frags) = Listed
  BY PlaylistAssumption DEF ParseLevelPlaylist
<1>3. sn \in m .. m + Listed - 1
  BY <1>1, <1>2 DEF HasSN, EndSN
<1>. HIDE DEF m
<1>4. k \in 1 .. Listed /\ sn - m \in 0 .. Listed - 1
  BY <1>1, <1>3, PlaylistAssumption
<1>5. d.frags[k].sn = m + k - 1 /\ d.frags[k].slice = base + k - 1
  BY <1>4 DEF ParseLevelPlaylist, m
<1>6. m + k - 1 = sn /\ base + k - 1 = base + (sn - m)
  BY <1>1
<1>7. FragOf(d, sn) = d.frags[k]
  BY <1>2 DEF FragOf
<1>. QED
  BY <1>4, <1>5, <1>6, <1>7 DEF m

\* With slices of one second a number names one slice, whatever the playlist
\* and however far the window has slid between two answers.
THEOREM NumberNamesSlice ==
    ASSUME SliceDuration = 1, NEW level, NEW old \in Nat, NEW new \in Nat,
           NEW sn \in Int, HasSN(ParseLevelPlaylist(level, old), sn),
           HasSN(ParseLevelPlaylist(level, new), sn)
    PROVE  FragOf(ParseLevelPlaylist(level, old), sn).slice
              = FragOf(ParseLevelPlaylist(level, new), sn).slice
<1>1. MediaSequence(old) = old /\ MediaSequence(new) = new
  BY DEF MediaSequence
<1>2. old + (sn - old) = new + (sn - new)
  OBVIOUS
<1>. QED
  BY <1>1, <1>2, ParsedFragment

\* With longer ones, every number that two answers share names two slices: no
\* fragment that mergeDetails takes over from the old list is the right one.
THEOREM NumberNamesTwoSlices ==
    ASSUME SliceDuration > 1, NEW level, NEW old \in Nat, NEW new \in Nat,
           old # new, NEW sn \in Int,
           HasSN(ParseLevelPlaylist(level, old), sn),
           HasSN(ParseLevelPlaylist(level, new), sn)
    PROVE  FragOf(ParseLevelPlaylist(level, old), sn).slice
              # FragOf(ParseLevelPlaylist(level, new), sn).slice
<1>1. PICK s \in Nat : SliceDuration = s + 1 /\ s >= 1
  <2>1. SliceDuration - 1 \in Nat /\ SliceDuration = (SliceDuration - 1) + 1
        /\ SliceDuration - 1 >= 1
    BY PlaylistAssumption
  <2>. QED
    BY <2>1
<1>2. MediaSequence(old) = old * s + old /\ MediaSequence(new) = new * s + new
  BY <1>1 DEF MediaSequence
<1>3. old * s # new * s
  BY <1>1, Z3
<1>. DEFINE a == old * s
            b == new * s
<1>4. a \in Int /\ b \in Int /\ a # b
  BY <1>3
<1>. HIDE DEF a, b
<1>5. old + (sn - (a + old)) # new + (sn - (b + new))
  BY <1>4
<1>. QED
  BY <1>2, <1>5, ParsedFragment DEF a, b

(***************************************************************************)
(* The times of a list.  With slices of one second a fragment's number is  *)
(* the time its slice was recorded, and the list is right when each        *)
(* fragment starts where its number says, from the origin on.              *)
(***************************************************************************)

\* The list counts up from its number, one second to a fragment.
Numbered(fs, sn) ==
    \A i \in 1 .. Listed : fs[i].sn = sn + i - 1 /\ fs[i].slice = sn + i - 1 /\ fs[i].dur = 1

\* What is known of a time is true of an origin o.
TimesTrue(fs, sn, o) ==
    \A i \in 1 .. Listed : fs[i].pts # NaN =>
      fs[i].pts = sn + i - 1 - o /\ fs[i].pte = fs[i].pts + 1 /\ fs[i].start = fs[i].pts

StartsAt(fs, sn, o, i) == fs[i].start = sn + i - 1 - o

SomeTime(fs) == \E i \in 1 .. Listed : fs[i].pts # NaN

Right(fs, sn, o) ==
    /\ sn >= o - 1
    /\ TimesTrue(fs, sn, o)
    /\ \A i \in 1 .. Listed : sn + i - 1 >= o => StartsAt(fs, sn, o, i)
    /\ sn = o - 1 => SomeTime(fs)

\* One step outwards from a fragment that is where it should be.
LEMMA UpdatePTSStep ==
    ASSUME NEW ls, NEW fs \in Lists(ls), NEW from \in 1 .. Listed, NEW to \in 1 .. Listed,
           NEW sn \in Int, NEW o \in Int, Numbered(fs, sn), TimesTrue(fs, sn, o), sn >= o - 1,
           StartsAt(fs, sn, o, from),
           \/ to = from + 1
           \/ to = from - 1 /\ sn + from - 1 >= o
    PROVE  LET gs == UpdatePTS(fs, from, to)
           IN /\ Numbered(gs, sn) /\ TimesTrue(gs, sn, o)
              /\ \A j \in 1 .. Listed : gs[j].pts = fs[j].pts
              /\ \A j \in 1 .. Listed \ {to} : gs[j].start = fs[j].start
              /\ to > from \/ sn + to - 1 >= o => StartsAt(gs, sn, o, to)
<1>1. PICK f, t : f = fs[from] /\ t = fs[to]
  OBVIOUS
<1>2. f \in Fragments(ls) /\ t \in Fragments(ls)
  BY <1>1 DEF Lists
<1>3. /\ f.sn = sn + from - 1 /\ f.slice = sn + from - 1 /\ f.dur = 1 /\ f.start = sn + from - 1 - o
      /\ t.sn = sn + to - 1 /\ t.slice = sn + to - 1 /\ t.dur = 1
      /\ t.pts # NaN => t.pts = sn + to - 1 - o /\ t.pte = t.pts + 1 /\ t.start = t.pts
  BY <1>1 DEF Numbered, TimesTrue, StartsAt
<1>4. CASE t.pts # NaN
  <2>1. t.pts - f.start = to - from /\ f.start - t.pts = from - to
    BY <1>3, <1>4
  <2>2. UpdatePTS(fs, from, to) = fs
    <3>1. CASE to = from + 1
      <4>1. PICK x : x = t.pts - f.start /\ x = f.dur /\ to > from
        BY <1>3, <2>1, <3>1
      <4>2. UpdatePTS(fs, from, to) = [fs EXCEPT ![from] = [f EXCEPT !.dur = x]]
        BY <1>1, <1>4, <4>1 DEF UpdatePTS
      <4>3. [f EXCEPT !.dur = f.dur] = f
        BY <1>2 DEF Fragments
      <4>. QED
        BY <1>1, <4>1, <4>2, <4>3 DEF Lists
    <3>2. CASE to = from - 1
      <4>1. f.start - t.pts = t.dur /\ ~(to > from)
        BY <1>3, <2>1, <3>2
      <4>2. UpdatePTS(fs, from, to) = [fs EXCEPT ![to] = [t EXCEPT !.dur = t.dur]]
        BY <1>1, <1>4, <4>1 DEF UpdatePTS
      <4>3. [t EXCEPT !.dur = t.dur] = t
        BY <1>2 DEF Fragments
      <4>. QED
        BY <1>1, <4>2, <4>3 DEF Lists
    <3>. QED
      BY <3>1, <3>2
  <2>3. StartsAt(fs, sn, o, to)
    BY <1>1, <1>3, <1>4 DEF StartsAt
  <2>. QED
    BY <2>2, <2>3
<1>5. CASE t.pts = NaN
  <2>1. PICK x \in Int : x = IF to > from THEN EndOf(f) ELSE Greater(f.start - t.dur, 0)
    BY <1>2 DEF Fragments, EndOf, Greater
  <2>2. UpdatePTS(fs, from, to) = [fs EXCEPT ![to] = [t EXCEPT !.start = x]]
    BY <1>1, <1>5, <2>1 DEF UpdatePTS
  <2>3. PICK g : g = [t EXCEPT !.start = x]
    OBVIOUS
  <2>4. /\ g.sn = t.sn /\ g.slice = t.slice /\ g.dur = t.dur /\ g.pts = t.pts /\ g.start = x
    BY <1>2, <2>3 DEF Fragments
  <2>5. PICK gs : gs = UpdatePTS(fs, from, to)
    OBVIOUS
  <2>6. gs[to] = g /\ \A j \in 1 .. Listed \ {to} : gs[j] = fs[j]
    BY <2>2, <2>3, <2>5 DEF Lists
  <2>7. Numbered(gs, sn)
    BY <1>1, <2>4, <2>6 DEF Numbered
  <2>8. TimesTrue(gs, sn, o)
    BY <1>5, <2>4, <2>6 DEF TimesTrue
  <2>9. to > from \/ sn + to - 1 >= o => x = sn + to - 1 - o
    BY <1>3, <2>1 DEF EndOf, Greater
  <2>. QED
    BY <1>1, <2>4, <2>5, <2>6, <2>7, <2>8, <2>9 DEF StartsAt
<1>. QED
  BY <1>4, <1>5

\* The two loops of updateFragPTSDTS put every fragment in its place, once one is.
LEMMA PropagateRight ==
    ASSUME NEW ls, NEW fs \in Lists(ls), NEW k \in 1 .. Listed, NEW sn \in Int, NEW o \in Int,
           Numbered(fs, sn), TimesTrue(fs, sn, o), sn >= o - 1, fs[k].pts # NaN
    PROVE  Numbered(Propagate(fs, k), sn) /\ Right(Propagate(fs, k), sn, o)
<1>0. Listed \in Nat \ {0} /\ k - 1 \in Nat /\ Listed - k \in Nat
  BY PlaylistAssumption
<1>1. PICK down \in [0 .. k - 1 -> Lists(ls)], up \in [0 .. Listed - k -> Lists(ls)] :
         Downwards(down, fs, k) /\ Upwards(up, down[k - 1], k) /\ Propagate(fs, k) = up[Listed - k]
  BY PropagateSteps
<1>. DEFINE True(gs) == /\ Numbered(gs, sn) /\ TimesTrue(gs, sn, o)
                        /\ \A j \in 1 .. Listed : gs[j].pts = fs[j].pts
            Placed0(gs, a, b) == \A j \in a .. b : sn + j - 1 >= o => StartsAt(gs, sn, o, j)
            Down(i) == True(down[i]) /\ Placed0(down[i], k - i, k) /\ StartsAt(down[i], sn, o, k)
            Up(i) == True(up[i]) /\ Placed0(up[i], 1, k + i) /\ StartsAt(up[i], sn, o, k + i)
<1>2. StartsAt(fs, sn, o, k)
  BY DEF TimesTrue, StartsAt
<1>3. Down(0)
  <2>1. down[0] = fs /\ k - 0 = k
    BY <1>0, <1>1 DEF Downwards
  <2>. QED
    BY <1>2, <2>1
<1>4. ASSUME NEW i \in 1 .. k - 1, Down(i - 1) PROVE Down(i)
  <2>1. PICK g, h : g = down[i - 1] /\ h = down[i]
    OBVIOUS
  <2>2. g \in Lists(ls) /\ h = UpdatePTS(g, k - i + 1, k - i)
    <3>1. i - 1 \in 0 .. k - 1
      BY <1>0
    <3>. QED
      BY <1>1, <2>1, <3>1 DEF Downwards
  <2>3. PICK from \in 1 .. Listed, to \in 1 .. Listed :
           from = k - i + 1 /\ to = k - i /\ to = from - 1 /\ from = k - (i - 1) /\ from <= k
           /\ to < k
    BY <1>0
  <2>4. sn + from - 1 >= o
    BY <2>3
  <2>5. True(g) /\ Placed0(g, from, k) /\ StartsAt(g, sn, o, k)
    BY <1>4, <2>1, <2>3
  <2>6. StartsAt(g, sn, o, from)
    BY <2>3, <2>4, <2>5
  <2>. HIDE DEF Placed0
  <2>7. /\ Numbered(h, sn) /\ TimesTrue(h, sn, o)
        /\ \A j \in 1 .. Listed : h[j].pts = g[j].pts
        /\ \A j \in 1 .. Listed \ {to} : h[j].start = g[j].start
        /\ sn + to - 1 >= o => StartsAt(h, sn, o, to)
    BY <2>2, <2>3, <2>4, <2>5, <2>6, UpdatePTSStep
  <2>. USE DEF Placed0
  <2>8. True(h)
    BY <2>5, <2>7
  <2>9. Placed0(h, to, k)
    <3>1. SUFFICES ASSUME NEW j \in to .. k, sn + j - 1 >= o PROVE StartsAt(h, sn, o, j)
      OBVIOUS
    <3>2. CASE j = to
      BY <2>7, <3>1, <3>2
    <3>3. CASE j # to
      <4>1. j \in from .. k /\ j \in 1 .. Listed \ {to}
        BY <1>0, <2>3, <3>3
      <4>. QED
        BY <2>5, <2>7, <3>1, <4>1 DEF StartsAt
    <3>. QED
      BY <3>2, <3>3
  <2>10. StartsAt(h, sn, o, k)
    <3>1. k \in 1 .. Listed \ {to}
      BY <2>3
    <3>. QED
      BY <2>5, <2>7, <3>1 DEF StartsAt
  <2>. QED
    BY <2>1, <2>3, <2>8, <2>9, <2>10
<1>5. Down(k - 1)
  <2>. DEFINE T == {i \in 0 .. k - 1 : Down(i)}
  <2>. HIDE DEF Down
  <2>1. 0 \in T /\ \A i \in 1 .. k - 1 : i - 1 \in T => i \in T
    BY <1>0, <1>3, <1>4
  <2>2. \A i \in 0 .. k - 1 : i \in T
    <3>. HIDE DEF T
    <3>. QED
      BY <1>0, <2>1, CountUp
  <2>3. k - 1 \in 0 .. k - 1
    BY <1>0
  <2>. QED
    BY <2>2, <2>3
<1>6. Up(0)
  <2>1. up[0] = down[k - 1] /\ k - (k - 1) = 1 /\ k + 0 = k
    BY <1>0, <1>1 DEF Upwards
  <2>. QED
    BY <1>5, <2>1
<1>7. ASSUME NEW i \in 1 .. Listed - k, Up(i - 1) PROVE Up(i)
  <2>1. PICK g, h : g = up[i - 1] /\ h = up[i]
    OBVIOUS
  <2>2. g \in Lists(ls) /\ h = UpdatePTS(g, k + i - 1, k + i)
    <3>1. i - 1 \in 0 .. Listed - k
      BY <1>0
    <3>. QED
      BY <1>1, <2>1, <3>1 DEF Upwards
  <2>3. PICK from \in 1 .. Listed, to \in 1 .. Listed :
           from = k + i - 1 /\ to = k + i /\ to = from + 1 /\ from = k + (i - 1)
    BY <1>0
  <2>5. True(g) /\ Placed0(g, 1, from) /\ StartsAt(g, sn, o, from)
    BY <1>7, <2>1, <2>3
  <2>. HIDE DEF Placed0
  <2>7. /\ Numbered(h, sn) /\ TimesTrue(h, sn, o)
        /\ \A j \in 1 .. Listed : h[j].pts = g[j].pts
        /\ \A j \in 1 .. Listed \ {to} : h[j].start = g[j].start
        /\ to > from => StartsAt(h, sn, o, to)
    BY <2>2, <2>3, <2>5, UpdatePTSStep
  <2>. USE DEF Placed0
  <2>8. True(h)
    BY <2>5, <2>7
  <2>9. Placed0(h, 1, to)
    <3>1. SUFFICES ASSUME NEW j \in 1 .. to, sn + j - 1 >= o PROVE StartsAt(h, sn, o, j)
      OBVIOUS
    <3>2. CASE j = to
      BY <2>3, <2>7, <3>2
    <3>3. CASE j # to
      <4>1. j \in 1 .. from /\ j \in 1 .. Listed \ {to}
        BY <1>0, <2>3, <3>3
      <4>. QED
        BY <2>5, <2>7, <3>1, <4>1 DEF StartsAt
    <3>. QED
      BY <3>2, <3>3
  <2>. QED
    BY <2>1, <2>3, <2>7, <2>8, <2>9
<1>8. Up(Listed - k)
  <2>. DEFINE T == {i \in 0 .. Listed - k : Up(i)}
  <2>. HIDE DEF Up
  <2>1. 0 \in T /\ \A i \in 1 .. Listed - k : i - 1 \in T => i \in T
    BY <1>0, <1>6, <1>7
  <2>2. \A i \in 0 .. Listed - k : i \in T
    <3>. HIDE DEF T
    <3>. QED
      BY <1>0, <2>1, CountUp
  <2>3. Listed - k \in 0 .. Listed - k
    BY <1>0
  <2>. QED
    BY <2>2, <2>3
<1>9. k + (Listed - k) = Listed
  BY <1>0
<1>. QED
  BY <1>1, <1>8, <1>9 DEF Right, SomeTime

\* Nothing is known of a list's times: it starts b before the number of its
\* first fragment, all through.
Untimed(fs, sn) ==
    \E b \in 0 .. sn : \A i \in 1 .. Listed : fs[i].pts = NaN /\ StartsAt(fs, sn, b, i)

ListTrue(d, o) ==
    d # NoDetails =>
      /\ d.startSN \in Nat /\ d.known \in BOOLEAN /\ Numbered(d.frags, d.startSN)
      /\ IF d.known THEN o # NaN /\ Right(d.frags, d.startSN, o) ELSE Untimed(d.frags, d.startSN)

\* A playlist as it was answered.
AsAnswered(d, base) ==
    /\ d.startSN = base /\ d.known = FALSE /\ Numbered(d.frags, base)
    /\ Untimed(d.frags, base) /\ \A i \in 1 .. Listed : d.frags[i].start = i - 1

LEMMA ParseTrue ==
    ASSUME SliceDuration = 1, NEW l, NEW base \in Nat
    PROVE  AsAnswered(ParseLevelPlaylist(l, base), base)
<1>1. PICK d : d = ParseLevelPlaylist(l, base)
  OBVIOUS
<1>2. d.startSN = base /\ d.known = FALSE
  BY <1>1 DEF ParseLevelPlaylist, MediaSequence
<1>3. \A i \in 1 .. Listed :
        /\ d.frags[i].sn = base + i - 1 /\ d.frags[i].slice = base + i - 1
        /\ d.frags[i].dur = 1 /\ d.frags[i].pts = NaN
        /\ d.frags[i].start = i - 1 /\ d.frags[i].start = base + i - 1 - base
  BY <1>1, PlaylistAssumption DEF ParseLevelPlaylist, MediaSequence
<1>4. Numbered(d.frags, base)
  BY <1>3 DEF Numbered
<1>5. base \in 0 .. base
  OBVIOUS
<1>6. Untimed(d.frags, base)
  BY <1>3, <1>5 DEF Untimed, StartsAt
<1>7. AsAnswered(d, base)
  BY <1>2, <1>3, <1>4, <1>6 DEF AsAnswered
<1>. QED
  BY <1>1, <1>7

\* Either way what is known is true.
LEMMA TimesOf ==
    ASSUME NEW d, NEW o, NEW a, ListTrue(d, a), d # NoDetails, d.known => a = o
    PROVE  TimesTrue(d.frags, d.startSN, o)
BY DEF ListTrue, Right, Untimed, TimesTrue

\* What is known of the time of a fragment that is being parsed, and the time
\* it is given.
ClockOf(f, o) ==
    f.sn = f.slice /\ (f.pts # NaN => f.pts = f.slice - o /\ f.pte = f.pts + 1)

TimeOf(f, o, pts, pte) == pts \in Int /\ pte \in Int /\ pts = f.slice - o /\ pte = pts + 1

\* A list with a known time, in its place.
InPlace(e, sn, o) ==
    /\ e # NoDetails /\ e.startSN = sn /\ e.known = TRUE
    /\ Numbered(e.frags, sn) /\ Right(e.frags, sn, o)

\* A fragment timed by its own clock puts its list right.
LEMMA RetimeTrue ==
    ASSUME NEW d, NEW ls, Parsed(d, ls), NEW f \in Fragments(ls), HasSN(d, f.sn),
           NEW sn \in Nat, sn = d.startSN, NEW o \in Nat, sn >= o - 1,
           Numbered(d.frags, sn), TimesTrue(d.frags, sn, o),
           ClockOf(f, o), NEW pts, NEW pte, TimeOf(f, o, pts, pte)
    PROVE  InPlace(UpdateFragPTSDTS(d, f, pts, pte), sn, o)
<1>1. PICK k \in 1 .. Listed : k = f.sn - sn + 1 /\ f.sn = sn + k - 1
  <2>1. PICK k \in 1 .. Listed : k = f.sn - sn + 1
    BY NumberedWithin
  <2>. QED
    BY <2>1 DEF Fragments
<1>2. PICK g : g = Timed(f, pts, pte)
  OBVIOUS
<1>3. g \in Fragments(ls)
  BY <1>2, TimedTyped DEF TimeOf
<1>4. pts \in Int /\ pte \in Int /\ pts = sn + k - 1 - o /\ pte - pts = 1 /\ pts # NaN
  <2>1. f.slice = sn + k - 1
    BY <1>1 DEF ClockOf
  <2>2. pts \in Int /\ pte \in Int /\ pte = pts + 1 /\ pts = sn + k - 1 - o
    BY <2>1 DEF TimeOf
  <2>3. pts >= -1
    BY <2>2
  <2>. QED
    BY <2>2, <2>3 DEF NaN
<1>5. /\ g.sn = sn + k - 1 /\ g.slice = sn + k - 1 /\ g.dur = 1
      /\ g.pts = sn + k - 1 - o /\ g.pte = g.pts + 1 /\ g.start = g.pts
  <2>1. /\ pts = (IF f.pts = NaN THEN pts ELSE Lesser(pts, f.pts))
        /\ pte = (IF f.pts = NaN THEN pte ELSE Greater(pte, f.pte))
    BY <1>4 DEF Lesser, Greater, ClockOf, TimeOf
  <2>2. g = [f EXCEPT !.start = pts, !.pts = pts, !.pte = pte, !.dur = pte - pts]
    BY <1>2, <2>1 DEF Timed
  <2>3. g.sn = f.sn /\ g.slice = f.slice /\ g.dur = pte - pts /\ g.start = pts
        /\ g.pts = pts /\ g.pte = pte
    BY <2>2 DEF Fragments
  <2>. QED
    BY <1>1, <1>4, <2>3 DEF ClockOf, TimeOf
<1>6. PICK fs : fs = [d.frags EXCEPT ![k] = g]
  OBVIOUS
<1>7. fs \in Lists(ls) /\ fs[k] = g /\ \A i \in 1 .. Listed \ {k} : fs[i] = d.frags[i]
  BY <1>3, <1>6 DEF Parsed, Lists
<1>8. Numbered(fs, sn)
  BY <1>5, <1>7 DEF Numbered
<1>9. TimesTrue(fs, sn, o)
  BY <1>5, <1>7 DEF TimesTrue
<1>10. fs[k].pts # NaN
  BY <1>5, <1>7 DEF NaN
<1>11. PICK gs : gs = Propagate(fs, k)
  OBVIOUS
<1>12. Numbered(gs, sn) /\ Right(gs, sn, o)
  BY <1>7, <1>8, <1>9, <1>10, <1>11, PropagateRight
<1>13. PICK e : e = UpdateFragPTSDTS(d, f, pts, pte)
  OBVIOUS
<1>14. d # NoDetails
  BY ParsedIsDetails
<1>15. e = [d EXCEPT !.frags = gs, !.known = TRUE]
  BY <1>1, <1>2, <1>6, <1>11, <1>13, <1>14 DEF UpdateFragPTSDTS
<1>16. e.startSN = sn /\ e.frags = gs /\ e.known = TRUE
  BY <1>15 DEF Parsed
<1>17. e # NoDetails
  BY <1>16 DEF NoDetails
<1>. QED
  BY <1>12, <1>13, <1>16, <1>17 DEF InPlace

LEMMA UpdateTrue ==
    ASSUME NEW d, NEW ls, Details(d, ls), NEW f \in Fragments(ls), NEW a, NEW o \in Nat,
           ListTrue(d, a), a = o \/ a = NaN, d # NoDetails => d.startSN >= o - 1,
           ClockOf(f, o), NEW pts, NEW pte, TimeOf(f, o, pts, pte)
    PROVE  LET e == UpdateFragPTSDTS(d, f, pts, pte)
           IN /\ ListTrue(e, o) /\ (d = NoDetails => e = NoDetails)
              /\ d # NoDetails => e # NoDetails /\ e.startSN = d.startSN
<1>0. o # NaN
  BY DEF NaN
<1>1. CASE d = NoDetails \/ ~HasSN(d, f.sn)
  <2>1. UpdateFragPTSDTS(d, f, pts, pte) = d
    BY <1>1 DEF UpdateFragPTSDTS
  <2>. QED
    BY <2>1 DEF ListTrue
<1>2. CASE d # NoDetails /\ HasSN(d, f.sn)
  <2>1. Parsed(d, ls)
    BY <1>2 DEF Details, Parsed
  <2>2. PICK sn \in Nat : sn = d.startSN /\ sn >= o - 1 /\ Numbered(d.frags, sn)
    BY <1>2 DEF ListTrue
  <2>3. TimesTrue(d.frags, sn, o)
    <3>1. d.known => a = o
      BY <1>2 DEF ListTrue
    <3>. QED
      BY <1>2, <2>2, <3>1, TimesOf
  <2>4. PICK e : e = UpdateFragPTSDTS(d, f, pts, pte)
    OBVIOUS
  <2>5. InPlace(e, sn, o)
    BY <1>2, <2>1, <2>2, <2>3, <2>4, RetimeTrue
  <2>. QED
    BY <1>0, <1>2, <2>2, <2>4, <2>5 DEF ListTrue, InPlace
<1>. QED
  BY <1>1, <1>2

\* mergeDetails keeps the list in its place, however far the window slid.
\* A list and the answer that comes after it.
Mergeable(old, new, o) ==
    /\ o \in Nat \/ o = NaN
    /\ ListTrue(old, o) /\ old.startSN <= new.startSN /\ new.startSN \in Nat
    /\ o # NaN => new.startSN >= o - 1
    /\ new.known = FALSE /\ Numbered(new.frags, new.startSN) /\ Untimed(new.frags, new.startSN)
    /\ \A i \in 1 .. Listed : new.frags[i].start = i - 1

LEMMA MergeTrue ==
    ASSUME NEW ls, NEW old, NEW new, Parsed(old, ls), Parsed(new, ls), NEW o, Mergeable(old, new, o)
    PROVE  LET d == MergeDetails(old, new)
           IN ListTrue(d, o) /\ d.startSN = new.startSN
<1>. DEFINE Shared == {sn \in new.startSN .. EndSN(new) : HasSN(old, sn)}
            Kept0(f) ==
                 IF f.sn \in Shared /\ FragOf(old, f.sn).pts # NaN
                 THEN LET q == FragOf(old, f.sn)
                      IN [f EXCEPT !.start = q.pts, !.pts = q.pts, !.pte = q.pte, !.dur = q.dur]
                 ELSE f
            Frags == [i \in 1 .. Len(new.frags) |-> Kept0(new.frags[i])]
            Timeds == {i \in 1 .. Len(Frags) : Frags[i].pts # NaN}
            latest == CHOOSE i \in Timeds : \A j \in Timeds : j <= i
            Slid == [i \in 1 .. Len(Frags) |->
                 [Frags[i] EXCEPT !.start = @ + FragOf(old, new.startSN).start]]
            Placed0(fs) == [new EXCEPT !.frags = fs, !.known = old.known]
            Retimed == UpdateFragPTSDTS([new EXCEPT !.frags = Frags], Frags[latest],
                                        Frags[latest].pts, Frags[latest].pte)
<1>1. MergeDetails(old, new) =
         IF Shared = {} THEN new
         ELSE IF Timeds # {} THEN Placed0(Retimed.frags)
         ELSE IF HasSN(old, new.startSN) THEN Placed0(Slid) ELSE Placed0(Frags)
  BY Zenon DEF MergeDetails
<1>. HIDE DEF Shared, Kept0, Frags, Timeds, latest, Slid, Placed0, Retimed
<1>2. /\ Len(new.frags) = Listed /\ Len(old.frags) = Listed /\ Listed \in Nat \ {0}
      /\ new.frags \in Lists(ls) /\ old.frags \in Lists(ls)
  BY ListLen, PlaylistAssumption DEF Parsed
<1>3. old # NoDetails /\ new # NoDetails
  BY ParsedIsDetails
<1>4. PICK sn \in Nat, os \in Nat : sn = new.startSN /\ os = old.startSN /\ os <= sn
  BY <1>3 DEF ListTrue, Mergeable
<1>5. Numbered(old.frags, os) /\ Numbered(new.frags, sn)
  BY <1>3, <1>4 DEF ListTrue, Mergeable
<1>6. \A x : HasSN(old, x) <=> x \in os .. os + Listed - 1
  BY <1>2, <1>4 DEF HasSN, EndSN
<1>7. \A x : x \in Shared <=> x \in sn .. sn + Listed - 1 /\ x \in os .. os + Listed - 1
  BY <1>2, <1>4, <1>6 DEF EndSN, Shared
<1>8. \A x : FragOf(old, x) = old.frags[x - os + 1]
  BY <1>4 DEF FragOf
<1>. DEFINE Takes(i) == i + sn - os \in 1 .. Listed /\ old.frags[i + sn - os].pts # NaN
<1>9. ASSUME NEW i \in 1 .. Listed
      PROVE  /\ Takes(i) => LET q == old.frags[i + sn - os]
                            IN Kept0(new.frags[i]) = [new.frags[i] EXCEPT !.start = q.pts, !.pts = q.pts, !.pte = q.pte, !.dur = q.dur]
             /\ ~Takes(i) => Kept0(new.frags[i]) = new.frags[i]
  <2>1. PICK g : g = new.frags[i]
    OBVIOUS
  <2>2. g.sn = sn + i - 1
    BY <1>5, <2>1 DEF Numbered
  <2>3. g.sn \in Shared <=> i + sn - os \in 1 .. Listed
    <3>1. PICK x \in Int : x = g.sn /\ x = sn + i - 1
      BY <1>4, <2>2
    <3>2. x \in Shared <=> x \in sn .. sn + Listed - 1 /\ x \in os .. os + Listed - 1
      BY <1>7
    <3>3. x \in sn .. sn + Listed - 1
      BY <1>2, <3>1
    <3>4. x \in os .. os + Listed - 1 <=> i + sn - os \in 1 .. Listed
      <4>1. x - os = i + sn - os - 1
        BY <3>1
      <4>. QED
        BY <1>2, <4>1
    <3>. QED
      BY <3>1, <3>2, <3>3, <3>4
  <2>4. FragOf(old, g.sn) = old.frags[i + sn - os]
    <3>1. g.sn - os + 1 = i + sn - os
      BY <2>2
    <3>. QED
      BY <1>8, <3>1
  <2>. QED
    BY Zenon, <2>1, <2>3, <2>4 DEF Kept0
<1>. HIDE DEF Takes
<1>10. PICK fs : fs = Frags
  OBVIOUS
<1>11. DOMAIN fs = 1 .. Listed /\ Len(fs) = Listed /\ \A i \in 1 .. Listed : fs[i] = Kept0(new.frags[i])
  BY <1>2, <1>10 DEF Frags
<1>12. ASSUME NEW i \in 1 .. Listed
       PROVE  /\ fs[i].sn = sn + i - 1 /\ fs[i].slice = sn + i - 1 /\ fs[i].dur = 1
              /\ Takes(i) => LET q == old.frags[i + sn - os]
                             IN fs[i].pts = q.pts /\ fs[i].pte = q.pte /\ fs[i].start = q.pts
              /\ ~Takes(i) => fs[i].pts = NaN /\ fs[i].start = i - 1
  <2>1. PICK g \in Fragments(ls) : g = new.frags[i]
    BY <1>2 DEF Lists
  <2>2. g.sn = sn + i - 1 /\ g.slice = sn + i - 1 /\ g.dur = 1 /\ g.pts = NaN /\ g.start = i - 1
    BY <1>4, <1>5, <2>1 DEF Numbered, Untimed, Mergeable
  <2>3. CASE Takes(i)
    <3>1. PICK q : q = old.frags[i + sn - os]
      BY Zenon
    <3>2. fs[i] = [g EXCEPT !.start = q.pts, !.pts = q.pts, !.pte = q.pte, !.dur = q.dur]
      BY <1>9, <1>11, <2>1, <2>3, <3>1
    <3>3. q.dur = 1
      BY <1>5, <2>3, <3>1 DEF Numbered, Takes
    <3>4. /\ fs[i].sn = g.sn /\ fs[i].slice = g.slice /\ fs[i].dur = q.dur
          /\ fs[i].pts = q.pts /\ fs[i].pte = q.pte /\ fs[i].start = q.pts
      BY <3>2 DEF Fragments
    <3>. QED
      BY <2>2, <2>3, <3>1, <3>3, <3>4
  <2>4. CASE ~Takes(i)
    <3>1. fs[i] = g
      BY <1>9, <1>11, <2>1, <2>4
    <3>. QED
      BY <2>2, <2>4, <3>1
  <2>. QED
    BY <2>3, <2>4
<1>13. fs \in Lists(ls)
  <2>1. Parsed(new, ls)
    OBVIOUS
  <2>2. ASSUME NEW i \in 1 .. Listed PROVE fs[i] \in Fragments(ls)
    <3>1. PICK g \in Fragments(ls) : g = new.frags[i]
      BY <1>2 DEF Lists
    <3>2. CASE Takes(i)
      <4>1. PICK q \in Fragments(ls) : q = old.frags[i + sn - os]
        BY <1>2, <3>2 DEF Lists, Takes
      <4>2. fs[i] = [g EXCEPT !.start = q.pts, !.pts = q.pts, !.pte = q.pte, !.dur = q.dur]
        BY <1>9, <1>11, <3>1, <3>2, <4>1
      <4>3. q.pts \in Int /\ q.pte \in Int /\ q.dur \in Int
        BY DEF Fragments
      <4>4. [g EXCEPT !.start = q.pts, !.pts = q.pts, !.pte = q.pte, !.dur = q.dur] \in Fragments(ls)
        BY <4>3, FragmentTimes
      <4>. QED
        BY <4>2, <4>4
    <3>3. CASE ~Takes(i)
      BY <1>9, <1>11, <3>1, <3>3
    <3>. QED
      BY <3>2, <3>3
  <2>3. fs = [i \in 1 .. Listed |-> fs[i]]
    BY <1>2, <1>10 DEF Frags
  <2>. QED
    BY <2>2, <2>3 DEF Lists
<1>14. Numbered(fs, sn)
  BY <1>12 DEF Numbered
<1>15. \A i \in 1 .. Listed : i \in Timeds <=> Takes(i)
  BY <1>10, <1>11, <1>12 DEF Timeds, Takes
<1>16. Timeds \subseteq 1 .. Listed
  BY <1>10, <1>11 DEF Timeds
<1>17. PICK d : d = MergeDetails(old, new)
  OBVIOUS
<1>18. DOMAIN new = {"startSN", "frags", "known"}
  BY DEF Parsed
<1>19. \A xs : /\ Placed0(xs).startSN = sn /\ Placed0(xs).frags = xs /\ Placed0(xs).known = old.known
  BY <1>4, <1>18 DEF Placed0
<1>20. old.known \in BOOLEAN /\ ListTrue(old, o) /\ (o # NaN => o \in Nat /\ sn >= o - 1)
  BY <1>3, <1>4 DEF ListTrue, Mergeable
<1>21. CASE Shared = {}
  <2>1. d = new
    BY <1>1, <1>17, <1>21
  <2>. QED
    BY <1>4, <1>5, <1>17, <2>1 DEF ListTrue, Mergeable
<1>22. CASE Timeds # {}
  <2>0. Shared # {}
    <3>1. PICK i \in 1 .. Listed : Takes(i)
      BY <1>15, <1>16, <1>22
    <3>2. sn + i - 1 \in Shared
      BY <1>2, <1>7, <3>1 DEF Takes
    <3>. QED
      BY <3>2
  <2>1. old.known /\ o # NaN /\ Right(old.frags, os, o) /\ o \in Int
    <3>1. PICK i \in 1 .. Listed : Takes(i)
      BY <1>15, <1>16, <1>22
    <3>2. ~Untimed(old.frags, os)
      BY <3>1 DEF Untimed, Takes
    <3>. QED
      BY <1>3, <1>4, <1>20, <3>2 DEF ListTrue
  <2>2. PICK k \in 1 .. Listed : k = latest /\ Takes(k)
    <3>1. latest \in Timeds
      <4>1. PICK x \in Timeds : \A y \in Timeds : y <= x
        BY <1>2, <1>16, <1>22, MostOf
      <4>. QED
        BY Zenon, <4>1 DEF latest
    <3>. QED
      BY <1>15, <1>16, <3>1
  <2>3. TimesTrue(fs, sn, o)
    <3>1. ASSUME NEW i \in 1 .. Listed, fs[i].pts # NaN
          PROVE  /\ fs[i].pts = sn + i - 1 - o /\ fs[i].pte = fs[i].pts + 1
                 /\ fs[i].start = fs[i].pts
      <4>1. Takes(i)
        BY <1>12, <3>1
      <4>2. PICK j \in 1 .. Listed : j = i + sn - os /\ old.frags[j].pts # NaN
        BY <4>1 DEF Takes
      <4>3. fs[i].pts = old.frags[j].pts /\ fs[i].pte = old.frags[j].pte
            /\ fs[i].start = old.frags[j].pts
        BY <1>12, <4>1, <4>2
      <4>4. old.frags[j].pts = os + j - 1 - o /\ old.frags[j].pte = old.frags[j].pts + 1
        BY <2>1, <4>2 DEF Right, TimesTrue
      <4>5. os + j - 1 = sn + i - 1
        BY <4>2
      <4>. QED
        BY <2>1, <4>3, <4>4, <4>5
    <3>. QED
      BY <3>1 DEF TimesTrue
  <2>4. PICK f \in Fragments(ls) : f = fs[k]
    BY <1>13 DEF Lists
  <2>5. f.sn = sn + k - 1 /\ f.slice = sn + k - 1 /\ f.pts = f.slice - o /\ f.pte = f.pts + 1
        /\ f.pts \in Int /\ f.pte \in Int /\ ClockOf(f, o) /\ TimeOf(f, o, f.pts, f.pte)
    <3>1. fs[k].pts # NaN
      BY <1>12, <2>2 DEF Takes
    <3>. QED
      <4>1. f.sn = sn + k - 1 /\ f.slice = sn + k - 1
        BY <1>12, <2>4
      <4>2. f.pts = sn + k - 1 - o /\ f.pte = f.pts + 1
        BY <2>3, <2>4, <3>1 DEF TimesTrue
      <4>3. f.pts \in Int /\ f.pte \in Int
        BY DEF Fragments
      <4>. QED
        BY <2>1, <4>1, <4>2, <4>3 DEF ClockOf, TimeOf
  <2>6. PICK r : r = [new EXCEPT !.frags = fs]
    OBVIOUS
  <2>7. Parsed(r, ls) /\ r.startSN = sn /\ r.frags = fs
    BY <1>4, <1>13, <2>6 DEF Parsed
  <2>8. HasSN(r, f.sn)
    BY <1>2, <1>11, <2>5, <2>7 DEF HasSN, EndSN
  <2>9. PICK e : e = Retimed
    OBVIOUS
  <2>10. e = UpdateFragPTSDTS(r, f, f.pts, f.pte)
    BY <1>10, <2>2, <2>4, <2>6, <2>9 DEF Retimed
  <2>11. InPlace(e, sn, o)
    <3>1. Numbered(r.frags, sn) /\ TimesTrue(r.frags, sn, o) /\ sn >= o - 1 /\ o \in Nat
      BY <1>14, <1>20, <2>1, <2>3, <2>7
    <3>. QED
      BY <2>5, <2>7, <2>8, <2>10, <3>1, RetimeTrue
  <2>12. d = Placed0(e.frags)
    BY <1>1, <1>17, <1>22, <2>0, <2>9
  <2>13. d.startSN = sn /\ d.frags = e.frags /\ d.known = TRUE
    BY <1>19, <1>20, <2>1, <2>12
  <2>. QED
    BY <1>4, <1>17, <2>1, <2>11, <2>13 DEF ListTrue, InPlace
<1>23. CASE Timeds = {} /\ Shared # {}
  <2>1. PICK j \in 1 .. Listed : j = sn - os + 1
    <3>1. PICK x : x \in Shared
      BY <1>23
    <3>2. x \in sn .. sn + Listed - 1 /\ x \in os .. os + Listed - 1
      BY <1>7, <3>1
    <3>3. Listed \in Nat /\ os <= sn /\ sn <= os + Listed - 1
      BY <1>2, <1>4, <3>2
    <3>4. sn - os + 1 \in 1 .. Listed
      BY <3>3
    <3>. QED
      BY <3>4
  <2>2. HasSN(old, sn) /\ FragOf(old, sn) = old.frags[j]
    <3>1. sn \in os .. os + Listed - 1
      BY <1>2, <1>4, <2>1
    <3>. QED
      BY <1>6, <1>8, <2>1, <3>1
  <2>3. \A i \in 1 .. Listed : ~Takes(i)
    BY <1>15, <1>23
  <2>4. PICK c \in Int : c = old.frags[j].start
    BY <1>2, <2>1 DEF Lists, Fragments
  <2>5. PICK gs : gs = Slid
    OBVIOUS
  <2>6. gs = [i \in 1 .. Listed |-> [fs[i] EXCEPT !.start = @ + c]]
    BY <1>4, <1>10, <1>11, <2>2, <2>4, <2>5 DEF Slid
  <2>7. ASSUME NEW i \in 1 .. Listed
        PROVE  /\ gs[i].sn = sn + i - 1 /\ gs[i].slice = sn + i - 1 /\ gs[i].dur = 1
               /\ gs[i].pts = NaN /\ gs[i].start = i - 1 + c
    <3>1. PICK f \in Fragments(ls) : f = fs[i]
      BY <1>13 DEF Lists
    <3>2. gs[i] = [f EXCEPT !.start = f.start + c]
      BY <2>6, <3>1
    <3>3. /\ gs[i].sn = f.sn /\ gs[i].slice = f.slice /\ gs[i].dur = f.dur /\ gs[i].pts = f.pts
          /\ gs[i].start = f.start + c
      BY <3>2 DEF Fragments
    <3>4. /\ fs[i].sn = sn + i - 1 /\ fs[i].slice = sn + i - 1 /\ fs[i].dur = 1
          /\ fs[i].pts = NaN /\ fs[i].start = i - 1
      <4>. QED
        BY <1>12, <2>3
    <3>. QED
      BY <3>1, <3>3, <3>4
  <2>8. d = Placed0(gs)
    BY <1>1, <1>4, <1>17, <1>23, <2>2, <2>5
  <2>9. d.startSN = sn /\ d.frags = gs /\ d.known = old.known
    BY <1>19, <2>8
  <2>10. Numbered(d.frags, sn)
    BY <2>7, <2>9 DEF Numbered
  <2>11. CASE old.known
    <3>1. o # NaN /\ Right(old.frags, os, o)
      BY <1>3, <1>4, <1>20, <2>11 DEF ListTrue
    <3>2. sn >= o - 1 /\ o \in Nat
      BY <1>20, <3>1
    <3>3. sn >= o
      <4>1. SUFFICES ASSUME sn = o - 1 PROVE FALSE
        BY <3>2
      <4>2. os = o - 1 /\ os = sn
        BY <1>4, <3>1, <3>2, <4>1 DEF Right
      <4>3. PICK i \in 1 .. Listed : old.frags[i].pts # NaN
        BY <3>1, <4>2 DEF Right, SomeTime
      <4>4. i + sn - os = i
        BY <4>2
      <4>5. Takes(i)
        BY <4>3, <4>4 DEF Takes
      <4>. QED
        BY <2>3, <4>5
    <3>4. c = sn - o
      <4>1. os + j - 1 = sn
        BY <2>1
      <4>. QED
        BY <2>1, <2>4, <3>1, <3>2, <3>3, <4>1 DEF Right, StartsAt
    <3>5. Right(gs, sn, o)
      BY <2>7, <3>2, <3>3, <3>4 DEF Right, TimesTrue, StartsAt
    <3>. QED
      BY <1>4, <1>17, <2>9, <2>10, <2>11, <3>1, <3>5 DEF ListTrue
  <2>12. CASE ~old.known
    <3>1. PICK b \in 0 .. os : \A i \in 1 .. Listed : old.frags[i].start = os + i - 1 - b
      BY <1>3, <1>4, <1>20, <2>12 DEF ListTrue, Untimed, StartsAt
    <3>2. c = sn - b /\ b \in 0 .. sn
      BY <1>4, <2>1, <2>4, <3>1
    <3>3. Untimed(gs, sn)
      BY <2>7, <3>2 DEF Untimed, StartsAt
    <3>. QED
      BY <1>4, <1>17, <1>20, <2>9, <2>10, <2>12, <3>3 DEF ListTrue
  <2>. QED
    BY <1>20, <2>11, <2>12
<1>. QED
  BY <1>21, <1>22, <1>23

(***************************************************************************)
(* The player's times.  "Clocked" says that all lists are right for the    *)
(* origin the player has, and bounds what is still to come: no list is     *)
(* ahead of the server, so an answer never takes a list back, and nothing  *)
(* still to be loaded lies more than a slice before the origin, where the  *)
(* clamp to zero would displace what follows.  Most handlers are "Calm".   *)
(***************************************************************************)

\* A fragment is on its way or being parsed.
Pending(s) == s.freq # NoFrag \/ s.state = "PARSING"

\* The number that plays at time zero: the origin, or what it will be once the
\* fragment on its way has been parsed.
Zero(s) ==
    IF s.origin # NaN THEN s.origin
    ELSE IF Pending(s) THEN s.frag.slice - s.frag.start ELSE 0

\* No list is ahead of the server, or of a request for its level.
Windows(s, w) ==
    /\ Busy(s) => s.req.since \in Nat
    /\ \A l \in Levels : s.details[l] # NoDetails =>
         /\ s.details[l].startSN <= w[l]
         /\ \A m \in Levels : s.details[l].startSN <= w[m] + 1
         /\ Busy(s) => s.details[l].startSN <= s.req.since + 1
         /\ Busy(s) /\ l = s.req.level => s.details[l].startSN <= s.req.since

\* What is still to be loaded lies at most one slice before time zero.
After(s, w) ==
    /\ Zero(s) \in Nat
    /\ \A m \in Levels : w[m] >= Zero(s) - 1
    /\ Busy(s) => s.req.since >= Zero(s) - 1
    /\ s.last \in Levels /\ s.details[s.last] # NoDetails =>
         s.details[s.last].startSN >= Zero(s) - 1

\* While a fragment is on its way; a fatal error of another may have come between.
Loads == {"FRAG_LOADING", "PARSING", "ERROR"}

\* What is known of that fragment is true, and its level's list is not too early.
Underway(s) ==
    Pending(s) =>
      /\ s.state \in Loads /\ s.frag # NoFrag
      /\ s.frag.pts # NaN => s.origin # NaN
      /\ ClockOf(s.frag, s.origin)
      /\ s.frag.level = s.slevel /\ s.frag.slice >= Zero(s) - 1
      /\ s.slevel \in Levels /\ s.details[s.slevel] # NoDetails =>
           s.details[s.slevel].startSN >= Zero(s) - 1

\* What was parsed is buffered, the previous fragment too, and the playhead is at
\* no time before zero that is not buffered.
Plays(s) ==
    /\ IsFiniteSet(s.buf) /\ s.buf \subseteq Int
    /\ \A c \in s.buf : s.origin # NaN /\ c >= s.origin - 1
    /\ s.prev # NoFrag => s.prev.sn \in s.buf
    /\ s.metadata =>
         s.origin # NaN /\ s.pos \in Int /\ (s.pos >= 0 \/ s.pos + s.origin \in s.buf)
    /\ s.startpos \in Int

\* The player's lists are true of its origin, for windows w of the server.
Clocked(s, w) ==
    /\ SliceDuration = 1
    /\ w \in [Levels -> Nat] /\ \A l, m \in Levels : w[l] <= w[m] + 1
    /\ \A l \in Levels : ListTrue(s.details[l], s.origin) /\ Details(s.details[l], {l})
    /\ Windows(s, w) /\ After(s, w) /\ Underway(s) /\ Plays(s)

\* With times known, what is asked for continues the buffer.
Continues(t) ==
    t.details[t.freq.level].known /\ t.metadata =>
      Time(t, t.freq.slice) <= BufferEnd(t, t.pos)

\* No fragment is asked for but the one there is.
AsksNothing(s, t) == t.freq = s.freq \/ t.freq = NoFrag

\* What leads from s to t keeps the times right, and what it asks for continues
\* the buffer.
Follows(s, t) == Clocked(s, lo) => Clocked(t, lo) /\ (AsksNothing(s, t) \/ Continues(t))

\* A request, if it is another one, is of this moment.
Sends(s, t) ==
    t.req = s.req \/ (t.req.level \in Levels /\ t.req.since = lo[t.req.level])

\* Lists are dropped at most, and what is on its way stays or is given up.
Calm(s, t) ==
    /\ \A l \in Levels : t.details[l] = s.details[l] \/ t.details[l] = NoDetails
    /\ t.origin = s.origin /\ t.last = s.last /\ t.buf = s.buf /\ t.pos = s.pos
    /\ t.prev = s.prev \/ t.prev = NoFrag
    /\ t.metadata = s.metadata \/ t.metadata = FALSE
    /\ s.startpos \in Int => t.startpos \in Int
    /\ AsksNothing(s, t)
    /\ ~Busy(t) \/ Sends(s, t)
    /\ Pending(t) =>
         /\ Pending(s)
         /\ s.state \in Loads => t.state \in Loads /\ t.frag = s.frag /\ t.slevel = s.slevel

LEMMA CalmFollows ==
    ASSUME NEW s, NEW t, Calm(s, t)
    PROVE  Follows(s, t)
<1>. SUFFICES ASSUME Clocked(s, lo) PROVE Clocked(t, lo)
  BY DEF Follows, Calm
<1>1. /\ t.origin = s.origin /\ t.last = s.last /\ lo \in [Levels -> Nat]
      /\ \A l \in Levels : t.details[l] # NoDetails => t.details[l] = s.details[l]
  BY DEF Calm, Clocked
<1>2. \A l \in Levels : s.details[l] # NoDetails => s.details[l].startSN \in Nat
  BY DEF Clocked, ListTrue
<1>3. \A l \in Levels : ListTrue(t.details[l], t.origin) /\ Details(t.details[l], {l})
  BY <1>1 DEF Clocked, ListTrue, Details
<1>4. Windows(t, lo)
  <2>1. CASE ~Busy(t)
    BY <1>1, <2>1 DEF Clocked, Windows
  <2>2. CASE t.req = s.req
    BY <1>1, <2>2 DEF Clocked, Windows, Busy
  <2>3. CASE t.req.level \in Levels /\ t.req.since = lo[t.req.level]
    BY <1>1, <2>3 DEF Clocked, Windows
  <2>. QED
    BY <2>1, <2>2, <2>3 DEF Calm, Sends
<1>5. Zero(s) \in Nat /\ Zero(t) \in Nat /\ (Zero(t) = Zero(s) \/ Zero(t) = 0)
  <2>1. Zero(s) \in Nat
    BY DEF Clocked, After
  <2>2. Zero(t) = Zero(s) \/ Zero(t) = 0
    BY <1>1 DEF Zero, Calm, Clocked, Underway
  <2>. QED
    BY <2>1, <2>2
<1>6. After(t, lo)
  <2>1. /\ \A m \in Levels : lo[m] \in Nat /\ lo[m] >= Zero(s) - 1
        /\ s.last \in Levels /\ s.details[s.last] # NoDetails =>
             s.details[s.last].startSN >= Zero(s) - 1
    BY <1>1 DEF Clocked, After
  <2>2. \A m \in Levels : lo[m] >= Zero(t) - 1
    BY <1>5, <2>1
  <2>3. t.last \in Levels /\ t.details[t.last] # NoDetails =>
          t.details[t.last].startSN >= Zero(t) - 1
    BY <1>1, <1>2, <1>5, <2>1
  <2>4. Busy(t) => t.req.since >= Zero(t) - 1
    <3>1. CASE t.req = s.req
      <4>1. Busy(t) => t.req.since \in Nat /\ t.req.since >= Zero(s) - 1
        BY <3>1 DEF Clocked, After, Windows, Busy
      <4>. QED
        BY <1>5, <4>1
    <3>2. CASE t.req.level \in Levels /\ t.req.since = lo[t.req.level]
      BY <2>2, <3>2
    <3>. QED
      BY <3>1, <3>2 DEF Calm, Sends
  <2>. QED
    BY <1>5, <2>2, <2>3, <2>4 DEF After
<1>7. Underway(t)
  <2>. SUFFICES ASSUME Pending(t) PROVE Underway(t)
    BY DEF Underway
  <2>1. Pending(s) /\ t.frag = s.frag /\ t.slevel = s.slevel /\ Zero(t) = Zero(s)
        /\ t.state \in Loads
    BY <1>1 DEF Calm, Zero, Clocked, Underway
  <2>. QED
    BY <1>1, <2>1 DEF Clocked, Underway
<1>8. Plays(t)
  BY DEF Clocked, Plays, Calm
<1>. QED
  BY <1>3, <1>4, <1>6, <1>7, <1>8 DEF Clocked

\* After something calm nothing is different for what follows.
LEMMA CalmThenFollows ==
    ASSUME NEW s, NEW m, NEW t, Calm(s, m), Follows(m, t)
    PROVE  Follows(s, t)
<1>1. Follows(s, m) /\ AsksNothing(s, m)
  BY CalmFollows DEF Calm
<1>. QED
  BY <1>1 DEF Follows, AsksNothing

\* What the times and the choice of a fragment rest on.
Clockwork ==
    {"details", "origin", "last", "freq", "state", "frag", "buf", "pos", "prev", "metadata",
     "startpos"}

LEMMA KeepsCalm ==
    ASSUME NEW s, NEW t,
           Keeps(s, t, Keys \ Clockwork),
           Sends(s, t), t.slevel = s.slevel \/ s.state \notin Loads
    PROVE  Calm(s, t) /\ Follows(s, t)
<1>1. /\ t.details = s.details /\ t.origin = s.origin /\ t.last = s.last
      /\ t.freq = s.freq /\ t.state = s.state /\ t.frag = s.frag
      /\ t.buf = s.buf /\ t.pos = s.pos /\ t.prev = s.prev /\ t.metadata = s.metadata
      /\ t.startpos = s.startpos
  BY DEF Keeps, Keys, Clockwork
<1>2. Calm(s, t)
  BY <1>1 DEF Calm, Pending, AsksNothing
<1>. QED
  BY <1>2, CalmFollows

LEMMA LoadPlaylistCalm ==
    ASSUME NEW s, DOMAIN s = Keys, NEW l \in Levels
    PROVE  /\ Keeps(s, LoadPlaylist(s, l), {"req", "down"})
           /\ Sends(s, LoadPlaylist(s, l)) /\ Calm(s, LoadPlaylist(s, l))
<1>1. PICK t : t = LoadPlaylist(s, l)
  OBVIOUS
<1>2. Keeps(s, t, {"req", "down"})
  BY <1>1, LoadPlaylistFact
<1>3. Sends(s, t)
  <2>1. CASE s.req.type # "none" /\ s.req.level = l /\ s.req.url = s.url[l]
    BY <1>1, <2>1 DEF LoadPlaylist, Sends
  <2>2. CASE ~(s.req.type # "none" /\ s.req.level = l /\ s.req.url = s.url[l])
    <3>1. PICK r : r = Request(l, s.url[l], 0)
      OBVIOUS
    <3>2. r.level = l /\ r.since = lo[l]
      BY <3>1 DEF Request
    <3>3. t = [s EXCEPT !.req = r, !.down = FALSE]
      BY Zenon, <1>1, <2>2, <3>1 DEF LoadPlaylist
    <3>4. t.req = r
      BY <3>3 DEF Keys
    <3>. QED
      BY <3>2, <3>4 DEF Sends
  <2>. QED
    BY <2>1, <2>2
<1>4. t.slevel = s.slevel /\ Keeps(s, t, Keys \ Clockwork)
  BY <1>2 DEF Keeps, Keys, Clockwork
<1>5. Calm(s, t)
  BY <1>3, <1>4, KeepsCalm
<1>. QED
  BY <1>1, <1>2, <1>3, <1>5

LEMMA SetLevelCalm ==
    ASSUME NEW s, DOMAIN s = Keys, NEW l \in Levels
    PROVE  /\ Keeps(s, SetLevel(s, l), {"timer", "level", "req", "down"})
           /\ Sends(s, SetLevel(s, l)) /\ Calm(s, SetLevel(s, l))
<1>1. PICK t : t = SetLevel(s, l)
  OBVIOUS
<1>2. PICK v : v = SetLevelInternal(s, l)
  OBVIOUS
<1>3. t = s \/ t = v
  BY Zenon, <1>1, <1>2 DEF SetLevel
<1>4. Keeps(s, v, {"timer", "level", "req", "down"}) /\ Sends(s, v)
  <2>1. PICK u : u = [CleanTimer(s) EXCEPT !.level = l]
    OBVIOUS
  <2>2. DOMAIN u = Keys /\ u.req = s.req
    BY <2>1 DEF CleanTimer, Keys
  <2>3. PICK w : w = LoadPlaylist(u, l)
    OBVIOUS
  <2>4. Sends(u, w)
    BY <2>2, <2>3, LoadPlaylistCalm
  <2>5. w = v
    BY <1>2, <2>1, <2>3 DEF SetLevelInternal
  <2>6. Sends(s, v)
    BY <2>2, <2>4, <2>5 DEF Sends
  <2>. QED
    BY <1>2, <2>6, SetLevelInternalFact
<1>5. Keeps(s, t, {"timer", "level", "req", "down"}) /\ Sends(s, t)
  BY <1>3, <1>4 DEF Keeps, Sends
<1>6. t.slevel = s.slevel /\ Keeps(s, t, Keys \ Clockwork)
  BY <1>5 DEF Keeps, Keys, Clockwork
<1>7. Calm(s, t)
  BY <1>5, <1>6, KeepsCalm
<1>. QED
  BY <1>1, <1>5, <1>7

LEMMA SetNextLoadLevelCalm ==
    ASSUME NEW s, DOMAIN s = Keys, NEW l \in Levels
    PROVE  LET t == SetNextLoadLevel(s, l)
           IN Keeps(s, t, {"timer", "level", "req", "down", "forced"}) /\ Sends(s, t)
<1>1. PICK v : v = SetLevel(s, l)
  OBVIOUS
<1>2. Keeps(s, v, {"timer", "level", "req", "down"}) /\ Sends(s, v)
  BY <1>1, SetLevelCalm
<1>3. PICK t : t = SetNextLoadLevel(s, l)
  OBVIOUS
<1>4. t = v \/ t = [v EXCEPT !.forced = l]
  BY Zenon, <1>1, <1>3 DEF SetNextLoadLevel
<1>5. Keeps(v, t, {"forced"})
  <2>1. CASE t = v
    BY <1>2, <2>1 DEF Keeps
  <2>2. CASE t = [v EXCEPT !.forced = l]
    BY <1>2, <2>2 DEF Keeps, Keys
  <2>. QED
    BY <1>4, <2>1, <2>2
<1>6. Keeps(s, t, {"timer", "level", "req", "down", "forced"}) /\ t.req = v.req
  BY <1>2, <1>5 DEF Keeps, Keys
<1>7. Sends(s, t)
  BY <1>2, <1>6 DEF Sends
<1>. QED
  BY <1>3, <1>6, <1>7

LEMMA AskForLevelCalm ==
    ASSUME NEW s, Player(s), abr \in Levels, s.state = "IDLE"
    PROVE  Calm(s, AskForLevel(s))
<1>1. PICK l \in Levels : l = NextLoadLevel(s)
  BY NextLoadLevelFact DEF Player
<1>2. PICK u : u = SetNextLoadLevel(s, l)
  OBVIOUS
<1>3. Keeps(s, u, {"timer", "level", "req", "down", "forced"}) /\ Sends(s, u)
  BY <1>2, SetNextLoadLevelCalm DEF Player
<1>4. PICK t : t = [u EXCEPT !.slevel = l]
  OBVIOUS
<1>5. AskForLevel(s) = t
  BY <1>1, <1>2, <1>4 DEF AskForLevel
<1>6. Keeps(u, t, {"slevel"})
  BY <1>3, <1>4 DEF Keeps, Keys
<1>7. Keeps(s, t, Keys \ Clockwork) /\ t.req = u.req
  BY <1>3, <1>6 DEF Keeps, Keys, Clockwork
<1>8. Sends(s, t)
  BY <1>3, <1>7 DEF Sends
<1>9. Calm(s, t)
  BY <1>7, <1>8, KeepsCalm DEF Loads
<1>. QED
  BY <1>5, <1>9

LEMMA ReloadCalm ==
    ASSUME NEW s, DOMAIN s = Keys, s.level \in Levels \cup {None}
    PROVE  Keeps(s, Reload(s), {"req", "down"}) /\ Sends(s, Reload(s)) /\ Calm(s, Reload(s))
<1>1. CASE s.level # None /\ s.canload
  <2>1. s.level \in Levels /\ DOMAIN s = Keys
    BY <1>1
  <2>. QED
    BY <1>1, <2>1, LoadPlaylistCalm DEF Reload
<1>2. CASE ~(s.level # None /\ s.canload)
  <2>1. Reload(s) = s
    BY <1>2 DEF Reload
  <2>2. Keeps(s, s, {"req", "down"}) /\ Sends(s, s) /\ Calm(s, s)
    BY DEF Keeps, Sends, Calm, Pending, AsksNothing
  <2>. QED
    BY <2>1, <2>2
<1>. QED
  BY <1>1, <1>2

LEMMA StartLevelsCalm ==
    ASSUME NEW s, Player(s)
    PROVE  Calm(s, StartLevels(s))
<1>1. PICK none : none = [l \in Levels |-> NoDetails]
  OBVIOUS
<1>2. PICK zero : zero = [l \in Levels |-> 0]
  OBVIOUS
<1>3. PICK t : t = [s EXCEPT !.canload = TRUE, !.details = none, !.errors = zero]
  OBVIOUS
<1>4. StartLevels(s) =
         IF t.timer = "none" THEN t
         ELSE [Reload(t) EXCEPT !.extra = IF t.timer = "armed" /\ Reload(t) # t THEN @ + 1 ELSE @]
  BY Zenon, <1>1, <1>2, <1>3 DEF StartLevels
<1>5. Keeps(s, t, {"canload", "details", "errors"}) /\ t.details = none /\ t.canload = TRUE
  BY <1>3 DEF Keeps, Keys, Player
<1>6. PICK r : r = Reload(t)
  OBVIOUS
<1>7. Keeps(t, r, {"req", "down"}) /\ Sends(t, r)
  <2>1. t.level = s.level /\ DOMAIN t = Keys /\ (s.level # None => s.level \in Levels)
    BY <1>5 DEF Keeps, Keys, Player
  <2>2. CASE t.level # None /\ t.canload
    BY <1>6, <2>1, <2>2, LoadPlaylistCalm DEF Reload, Player
  <2>3. CASE ~(t.level # None /\ t.canload)
    BY <1>6, <2>1, <2>3 DEF Reload, Keeps, Sends
  <2>. QED
    BY <2>2, <2>3
<1>8. PICK q : q = StartLevels(s)
  OBVIOUS
<1>9. q = t \/ (\E e : q = [r EXCEPT !.extra = e])
  <2>1. CASE t.timer = "none"
    BY <1>4, <1>8, <2>1
  <2>2. CASE t.timer # "none"
    <3>1. PICK e : e = IF t.timer = "armed" /\ r # t THEN r.extra + 1 ELSE r.extra
      OBVIOUS
    <3>2. "extra" \in DOMAIN r
      BY <1>7 DEF Keeps, Keys
    <3>3. q = [r EXCEPT !.extra = e]
      BY <1>4, <1>6, <1>8, <2>2, <3>1, <3>2
    <3>. QED
      BY <3>3
  <2>. QED
    BY <2>1, <2>2
<1>10. Keeps(t, q, {"req", "down", "extra"}) /\ (q.req = t.req \/ q.req = r.req)
  <2>1. CASE q = t
    BY <1>5, <2>1 DEF Keeps
  <2>2. ASSUME NEW e, q = [r EXCEPT !.extra = e]
        PROVE  Keeps(t, q, {"req", "down", "extra"}) /\ q.req = r.req
    BY <1>7, <2>2 DEF Keeps, Keys
  <2>. QED
    BY <1>9, <2>1, <2>2
<1>11. /\ q.details = none /\ q.origin = s.origin /\ q.last = s.last /\ q.freq = s.freq
       /\ q.state = s.state /\ q.frag = s.frag /\ q.slevel = s.slevel /\ t.req = s.req
       /\ q.buf = s.buf /\ q.pos = s.pos /\ q.prev = s.prev /\ q.metadata = s.metadata
       /\ q.startpos = s.startpos
  BY <1>5, <1>10 DEF Keeps, Keys
<1>12. Sends(s, q)
  BY <1>7, <1>10, <1>11 DEF Sends
<1>13. Calm(s, q)
  BY <1>1, <1>11, <1>12 DEF Calm, Pending, AsksNothing
<1>. QED
  BY <1>8, <1>13

LEMMA StartStreamCalm ==
    ASSUME NEW s, Player(s)
    PROVE  Calm(s, StartStream(s)) /\ ~Pending(StartStream(s))
<1>1. PICK t : t = [Stop(s) EXCEPT !.slevel = None, !.fragErrors = 0]
  OBVIOUS
<1>2. PICK from : from = IF s.startpos > 0 THEN s.startpos ELSE -1
  OBVIOUS
<1>3. PICK u : u = IF s.requested THEN t
                   ELSE [SetNextLoadLevel(t, StartLevel(s)) EXCEPT
                           !.slevel = StartLevel(s), !.metadata = FALSE]
  OBVIOUS
<1>4. StartStream(s) = IF u.metadata THEN [u EXCEPT !.state = "IDLE"]
                       ELSE [u EXCEPT !.state = "IDLE", !.startpos = from, !.next = from]
  BY Zenon, <1>1, <1>2, <1>3 DEF StartStream
<1>5. /\ DOMAIN t = Keys /\ t.freq = NoFrag /\ t.prev = NoFrag
      /\ t.req = s.req /\ t.details = s.details /\ t.origin = s.origin /\ t.last = s.last
      /\ t.buf = s.buf /\ t.pos = s.pos /\ t.metadata = s.metadata
      /\ t.startpos = s.startpos
  <2>1. PICK v : v = Stop(s)
    OBVIOUS
  <2>2. Keeps(s, v, {"frag", "freq", "prev", "state"}) /\ v.freq = NoFrag /\ v.prev = NoFrag
    BY <2>1, StopFact DEF Player, Stop, Keys
  <2>. QED
    BY <1>1, <2>1, <2>2 DEF Keeps, Keys
<1>6. /\ DOMAIN u = Keys /\ u.freq = NoFrag /\ Sends(s, u)
      /\ u.details = s.details /\ u.origin = s.origin /\ u.last = s.last
      /\ u.buf = s.buf /\ u.pos = s.pos /\ u.prev = NoFrag
      /\ u.metadata = s.metadata \/ u.metadata = FALSE
      /\ u.startpos = s.startpos
  <2>1. CASE s.requested
    BY <1>3, <1>5, <2>1 DEF Sends
  <2>2. CASE ~s.requested
    <3>1. PICK l \in Levels : l = StartLevel(s)
      BY DEF StartLevel, Player, Ranks
    <3>2. PICK v : v = SetNextLoadLevel(t, l)
      OBVIOUS
    <3>3. Keeps(t, v, {"timer", "level", "req", "down", "forced"}) /\ Sends(t, v)
      BY <1>5, <3>2, SetNextLoadLevelCalm
    <3>4. u = [v EXCEPT !.slevel = l, !.metadata = FALSE]
      BY <1>3, <2>2, <3>1, <3>2
    <3>5. /\ DOMAIN u = Keys /\ u.req = v.req /\ u.freq = t.freq
          /\ u.details = t.details /\ u.origin = t.origin /\ u.last = t.last
          /\ u.buf = t.buf /\ u.pos = t.pos /\ u.prev = t.prev /\ u.metadata = FALSE
          /\ u.startpos = t.startpos
      BY <3>3, <3>4 DEF Keeps, Keys
    <3>. QED
      BY <1>5, <3>3, <3>5 DEF Sends
  <2>. QED
    BY <2>1, <2>2
<1>7. PICK x : x = StartStream(s)
  OBVIOUS
<1>8. /\ x.state = "IDLE" /\ x.freq = NoFrag /\ x.req = u.req
      /\ x.details = u.details /\ x.origin = u.origin /\ x.last = u.last
      /\ x.buf = u.buf /\ x.pos = u.pos /\ x.prev = u.prev /\ x.metadata = u.metadata
      /\ x.startpos = u.startpos \/ x.startpos = from
  <2>1. CASE u.metadata
    <3>1. x = [u EXCEPT !.state = "IDLE"]
      BY <1>4, <1>7, <2>1
    <3>. QED
      BY <1>6, <3>1 DEF Keys
  <2>2. CASE ~u.metadata
    <3>1. x = [u EXCEPT !.state = "IDLE", !.startpos = from, !.next = from]
      BY <1>4, <1>7, <2>2
    <3>. QED
      BY <1>6, <3>1 DEF Keys
  <2>. QED
    BY <2>1, <2>2
<1>9. ~Pending(x)
  BY <1>8 DEF Pending
<1>10. Calm(s, x)
  BY <1>2, <1>6, <1>8, <1>9 DEF Calm, Sends, AsksNothing
<1>. QED
  BY <1>7, <1>9, <1>10

(***************************************************************************)
(* What continues the buffer.                                              *)
(***************************************************************************)

\* The buffer ends at the first slice that is missing, at or after the time.
LEMMA BufferEnds ==
    ASSUME SliceDuration = 1, NEW s, s.origin \in Int, s.origin # NaN,
           IsFiniteSet(s.buf), s.buf \subseteq Int, NEW time \in Int
    PROVE  LET e == BufferEnd(s, time)
           IN /\ e \in Int /\ e >= time /\ e + s.origin \notin s.buf
              /\ time + s.origin \in s.buf => e >= time + 1
<1>1. PICK o \in Int, slice \in Int, n \in Nat :
         o = s.origin /\ slice = time + o /\ n = Cardinality(s.buf)
  BY FS_CardinalityType
<1>2. (time + s.origin) \div SliceDuration = slice
  BY <1>1
<1>. DEFINE Missing == {c \in slice .. slice + n + 1 : c \notin s.buf}
<1>3. BufferEnd(s, time) = IF slice \in s.buf THEN Time(s, Least(Missing)) ELSE time
  BY <1>1, <1>2 DEF BufferEnd
<1>4. CASE slice \notin s.buf
  BY <1>1, <1>3, <1>4
<1>5. CASE slice \in s.buf
  <2>1. Missing # {}
    <3>1. SUFFICES ASSUME slice .. slice + n + 1 \subseteq s.buf PROVE FALSE
      OBVIOUS
    <3>2. Cardinality(slice .. slice + n + 1) = n + 2
      <4>1. Cardinality(slice .. slice + n + 1) = slice + n + 1 - slice + 1
        BY FS_Interval
      <4>. QED
        BY <4>1
    <3>3. Cardinality(slice .. slice + n + 1) <= Cardinality(s.buf)
      BY <3>1, FS_Subset
    <3>. QED
      BY <1>1, <3>2, <3>3
  <2>. DEFINE Later == {k \in Nat : slice + k \in Missing}
  <2>2. Later # {}
    <3>1. PICK c \in Missing : c \in Int /\ c >= slice
      BY <2>1
    <3>2. c - slice \in Nat /\ slice + (c - slice) = c
      BY <3>1
    <3>. QED
      BY <3>2
  <2>3. PICK k \in Later : \A j \in Later : k <= j
    <3>1. Later \subseteq Nat
      OBVIOUS
    <3>. HIDE DEF Later
    <3>. QED
      BY <2>2, <3>1, LeastOf
  <2>4. slice + k \in Missing /\ \A c \in Missing : slice + k <= c
    <3>1. SUFFICES ASSUME NEW c \in Missing PROVE slice + k <= c
      BY <2>3
    <3>2. c \in Int /\ c - slice \in Nat /\ slice + (c - slice) = c
      OBVIOUS
    <3>3. c - slice \in Later
      BY <3>2
    <3>. QED
      BY <2>3, <3>2, <3>3
  <2>5. PICK m \in Missing : m = Least(Missing) /\ m \in Int /\ m >= slice
    <3>1. Least(Missing) \in Missing
      <4>. HIDE DEF Missing
      <4>. QED
        BY Zenon, <2>4 DEF Least
    <3>2. PICK m : m = Least(Missing)
      OBVIOUS
    <3>3. m \in Missing
      BY <3>1, <3>2
    <3>4. m \in Int /\ m >= slice
      BY <3>3
    <3>. QED
      BY <3>2, <3>3, <3>4
  <2>6. m \notin s.buf /\ m # slice
    BY <1>5
  <2>7. Time(s, m) = m - o
    BY <1>1, <2>5 DEF Time
  <2>. QED
    BY <1>1, <1>3, <1>5, <2>5, <2>6, <2>7
<1>. QED
  BY <1>4, <1>5

\* It goes by the origin and the buffer alone.
LEMMA SameEnd ==
    ASSUME NEW s, NEW t, t.origin = s.origin, t.buf = s.buf, NEW time
    PROVE  BufferEnd(t, time) = BufferEnd(s, time)
BY DEF BufferEnd, Time

\* The end of what is buffered at the playhead.
LEMMA PlayheadEnds ==
    ASSUME SliceDuration = 1, NEW s, s.origin \in Int, Plays(s), s.metadata
    PROVE  LET e == BufferEnd(s, s.pos)
           IN e \in Nat /\ e + s.origin \notin s.buf
<1>1. PICK o, x, e : /\ o \in Int /\ o = s.origin
                     /\ x \in Int /\ x = s.pos
                     /\ e = BufferEnd(s, s.pos)
  BY DEF Plays
<1>2. e \in Int /\ e >= x /\ e + o \notin s.buf /\ (x + o \in s.buf => e >= x + 1)
  BY <1>1, BufferEnds DEF Plays
<1>3. x >= 0 \/ (x + o \in s.buf /\ x + o >= o - 1)
  BY <1>1 DEF Plays
<1>. QED
  BY <1>1, <1>2, <1>3

\* A fragment of a list whose times are right, and where it is found.
LEMMA WithinRight ==
    ASSUME NEW fs, NEW sn \in Nat, NEW o \in Int, Numbered(fs, sn), Right(fs, sn, o),
           NEW i \in 1 .. Listed, NEW e \in Nat, fs[i].start \in Int
    PROVE  /\ Within(fs[i], e) \in {-1, 0, 1}
           /\ Within(fs[i], e) = 0 => sn + i - 1 - o <= e
           /\ Within(fs[i], e) = 0 /\ sn + i - 1 - o >= 0 => sn + i - 1 - o = e
           /\ EndOf(fs[i]) <= e => sn + i - 1 - o <= e
<1>1. PICK a \in Int, x \in Int : a = fs[i].start /\ x = sn + i - 1 - o
  OBVIOUS
<1>2. fs[i].dur = 1 /\ EndOf(fs[i]) = a + 1 /\ (x >= 0 => a = x)
  BY <1>1 DEF Numbered, Right, StartsAt, EndOf
<1>3. Within(fs[i], e) = IF a + 1 <= e THEN 1 ELSE IF a > e /\ a # 0 THEN -1 ELSE 0
  BY <1>1, <1>2 DEF Within
<1>. QED
  BY <1>1, <1>2, <1>3

\* The fragment chosen for the end of a buffer that does not end in the previous
\* fragment starts no later.
LEMMA FindContinues ==
    ASSUME NEW d, NEW ls, Parsed(d, ls), NEW sn \in Nat, sn = d.startSN, NEW o \in Int,
           Numbered(d.frags, sn), Right(d.frags, sn, o), NEW e \in Nat,
           NEW prev, prev # NoFrag => prev.sn \in Int /\ prev.sn # e + o,
           FindFragment(d, prev, e) # NoFrag
    PROVE  FindFragment(d, prev, e).slice - o <= e
<1>. DEFINE next == prev.sn + 1
            c == [i \in 1 .. Len(d.frags) |-> Within(d.frags[i], e)]
            found == IF e >= End(d) THEN Len(d.frags)
                     ELSE IF prev # NoFrag /\ HasSN(d, next) /\ Within(FragOf(d, next), e) = 0
                     THEN next - d.startSN + 1
                     ELSE Search(c)
<1>1. Len(d.frags) = Listed /\ Listed \in Nat \ {0} /\ d.frags \in Lists(ls)
  BY ListLen, PlaylistAssumption DEF Parsed
<1>2. FindFragment(d, prev, e) =
         IF found = 0 THEN NoFrag
         ELSE IF prev = NoFrag \/ prev.sn # d.frags[found].sn \/ prev.level # d.frags[found].level
         THEN d.frags[found]
         ELSE IF found < Len(d.frags) THEN d.frags[found + 1] ELSE NoFrag
  BY Zenon DEF FindFragment
<1>. HIDE DEF found, c, next
<1>3. \A i \in 1 .. Listed :
         d.frags[i].start \in Int /\ d.frags[i].sn = sn + i - 1 /\ d.frags[i].slice = sn + i - 1
  BY <1>1 DEF Lists, Fragments, Numbered
<1>4. \A i \in 1 .. Listed :
        /\ Within(d.frags[i], e) \in {-1, 0, 1}
        /\ Within(d.frags[i], e) = 0 => sn + i - 1 - o <= e
        /\ Within(d.frags[i], e) = 0 /\ sn + i - 1 - o >= 0 => sn + i - 1 - o = e
        /\ EndOf(d.frags[i]) <= e => sn + i - 1 - o <= e
  <2>. SUFFICES ASSUME NEW i \in 1 .. Listed
                PROVE  /\ Within(d.frags[i], e) \in {-1, 0, 1}
                       /\ Within(d.frags[i], e) = 0 => sn + i - 1 - o <= e
                       /\ Within(d.frags[i], e) = 0 /\ sn + i - 1 - o >= 0 => sn + i - 1 - o = e
                       /\ EndOf(d.frags[i]) <= e => sn + i - 1 - o <= e
    BY Zenon
  <2>1. d.frags[i].start \in Int
    BY <1>3
  <2>. QED
    BY <2>1, WithinRight
<1>9. PICK end \in Int : end = End(d)
  <2>1. PICK g : g = d.frags[Listed]
    OBVIOUS
  <2>2. g.start \in Int /\ g.dur = 1
    BY <1>1, <1>3, <2>1 DEF Numbered
  <2>3. End(d) = g.start + 1
    BY <1>1, <2>1, <2>2 DEF End, EndOf
  <2>. QED
    BY <2>2, <2>3
<1>5. CASE e >= end
  <2>1. found = Listed
    BY <1>1, <1>5, <1>9 DEF found
  <2>2. FindFragment(d, prev, e) = d.frags[Listed]
    <3>. QED
      BY <1>1, <1>2, <2>1
  <2>3. EndOf(d.frags[Listed]) <= e
    BY <1>1, <1>3, <1>5, <1>9 DEF End, EndOf, Numbered
  <2>4. PICK k \in 1 .. Listed : k = Listed
    BY <1>1
  <2>5. sn + k - 1 - o <= e /\ d.frags[k].slice = sn + k - 1
    BY <1>3, <1>4, <2>3, <2>4
  <2>. QED
    BY <2>2, <2>4, <2>5
<1>6. CASE e < end /\ prev # NoFrag /\ HasSN(d, next) /\ Within(FragOf(d, next), e) = 0
  <2>1. PICK k \in 1 .. Listed : k = next - sn + 1
    BY <1>1, <1>6 DEF HasSN, EndSN, next
  <2>2. found = k /\ FragOf(d, next) = d.frags[k]
    <3>1. ~(e >= End(d))
      BY <1>6, <1>9
    <3>2. found = next - d.startSN + 1
      BY Zenon, <1>6, <3>1 DEF found
    <3>. QED
      BY <2>1, <3>2 DEF FragOf
  <2>3. prev.sn # d.frags[k].sn
    BY <1>3, <1>6, <2>1 DEF next
  <2>4. FindFragment(d, prev, e) = d.frags[k]
    <3>. QED
      BY <1>2, <2>2, <2>3
  <2>. QED
    <3>1. sn + k - 1 - o <= e /\ d.frags[k].slice = sn + k - 1
      BY <1>3, <1>4, <1>6, <2>2
    <3>. QED
      BY <2>4, <3>1
<1>7. CASE /\ e < end
           /\ ~(prev # NoFrag /\ HasSN(d, next) /\ Within(FragOf(d, next), e) = 0)
  <2>1. found = Search(c)
    <3>1. ~(e >= End(d))
      BY <1>7, <1>9
    <3>. QED
      BY Zenon, <1>7, <3>1 DEF found
  <2>2. Search(c) \in 0 .. Listed /\ (Search(c) # 0 => c[Search(c)] \notin {1, -1})
    <3>1. Len(c) = Listed
      BY <1>1 DEF c
    <3>. QED
      BY <1>1, <3>1, SearchWithin
  <2>3. PICK k \in 0 .. Listed : k = found /\ (k # 0 => c[k] \notin {1, -1})
    BY <2>1, <2>2
  <2>4. k # 0
    BY <1>2, <2>3
  <2>5. Within(d.frags[k], e) = 0
    <3>1. c[k] = Within(d.frags[k], e)
      BY <1>1, <2>3, <2>4 DEF c
    <3>. QED
      BY <1>4, <2>3, <2>4, <3>1
  <2>6. CASE FindFragment(d, prev, e) = d.frags[k]
    BY <1>3, <1>4, <2>4, <2>5, <2>6
  <2>7. CASE FindFragment(d, prev, e) # d.frags[k]
    <3>1. /\ prev # NoFrag /\ prev.sn = sn + k - 1 /\ k + 1 \in 1 .. Listed
          /\ FindFragment(d, prev, e) = d.frags[k + 1]
      BY <1>1, <1>2, <1>3, <2>3, <2>4, <2>7
    <3>2. ~(sn + k - 1 - o >= 0)
      BY <1>4, <2>4, <2>5, <3>1
    <3>3. FindFragment(d, prev, e).slice = sn + k
      BY <1>3, <3>1
    <3>. QED
      BY <3>2, <3>3
  <2>. QED
    BY <2>6, <2>7
<1>8. e >= end \/ e < end
  BY <1>9
<1>. QED
  BY Zenon, <1>5, <1>6, <1>7, <1>8

\* A fragment of the playlist that was loaded last, while none is on its way.
Ready(s) ==
    /\ s.state = "IDLE" /\ s.slevel \in Levels /\ s.last = s.slevel
    /\ s.details[s.slevel] # NoDetails

LEMMA LoadFragmentFollows ==
    ASSUME NEW s, Player(s), Ready(s), NEW f \in Chosen(s.details[s.slevel]),
           Clocked(s, lo) => Continues(LoadFragment(s, f))
    PROVE  Follows(s, LoadFragment(s, f))
<1>. SUFFICES ASSUME Clocked(s, lo) PROVE Clocked(LoadFragment(s, f), lo)
  BY DEF Follows
<1>1. PICK d : d = s.details[s.slevel] /\ Parsed(d, Ranks(s)) /\ ListTrue(d, s.origin) /\ d # NoDetails
  BY DEF Player, Ready, Details, Parsed, Clocked
<1>2. PICK i \in 1 .. Listed : f = d.frags[i]
  BY <1>1 DEF Chosen
<1>3. f \in Fragments(Ranks(s))
  BY <1>1, ChosenTyped
<1>4. f # NoFrag
  <2>1. f.level \in Ranks(s) /\ NoFrag.level = -1
    BY <1>3 DEF Fragments, NoFrag
  <2>2. -1 \notin Ranks(s)
    <3>1. PICK n \in Nat : n = s.n
      BY DEF Player
    <3>2. -1 \notin 0 .. n - 1
      OBVIOUS
    <3>. QED
      BY <3>1, <3>2 DEF Ranks
  <2>. QED
    BY Zenon, <2>1, <2>2
<1>5. PICK sn \in Nat : sn = d.startSN /\ f.sn = f.slice /\ f.slice = sn + i - 1
  <2>1. d.startSN \in Nat /\ Numbered(d.frags, d.startSN)
    BY <1>1 DEF ListTrue
  <2>. QED
    BY <1>2, <2>1 DEF Numbered
<1>6. PICK t : t = LoadFragment(s, f)
  OBVIOUS
<1>7. /\ t.freq = f /\ t.frag = f /\ t.state = "FRAG_LOADING" /\ t.details = s.details
      /\ t.origin = s.origin /\ t.slevel = s.slevel /\ t.req = s.req /\ t.last = s.last
      /\ t.buf = s.buf /\ t.pos = s.pos /\ t.prev = s.prev /\ t.metadata = s.metadata
      /\ t.startpos = s.startpos
  <2>1. Keeps(s, t, {"freq", "frag", "requested", "next", "state"})
        /\ t.freq = f /\ t.frag = f /\ t.state = "FRAG_LOADING"
    BY <1>6, LoadFragmentFact DEF Player
  <2>. QED
    BY <2>1 DEF Keeps, Keys
<1>8. Pending(t) /\ t.state \in Loads /\ ~Pending(s)
  BY <1>4, <1>7 DEF Pending, Loads, Ready, Clocked, Underway
<1>9. /\ Windows(t, lo) /\ Plays(t)
      /\ \A l \in Levels : ListTrue(t.details[l], t.origin) /\ Details(t.details[l], {l})
  BY <1>7 DEF Clocked, Windows, Busy, Plays
<1>12. f.level = s.slevel /\ f.slice >= sn
  <2>1. Parsed(d, {s.slevel})
    BY <1>1 DEF Ready, Clocked, Details, Parsed
  <2>2. f \in Fragments({s.slevel})
    BY <1>1, <2>1, ChosenTyped
  <2>. QED
    BY <1>5, <2>2 DEF Fragments
<1>. SUFFICES After(t, lo) /\ Underway(t)
  BY <1>6, <1>9 DEF Clocked
<1>10. CASE s.origin # NaN
  <2>1. Zero(t) = s.origin /\ Zero(s) = s.origin
    BY <1>7, <1>10 DEF Zero
  <2>2. After(t, lo)
    BY <1>7, <2>1 DEF Clocked, After, Busy
  <2>3. TimesTrue(d.frags, sn, s.origin)
    BY <1>1, <1>5, TimesOf
  <2>4. ClockOf(f, s.origin)
    <3>1. PICK o \in Int : o = s.origin
      BY DEF Player
    <3>2. f.pts # NaN => f.pts = sn + i - 1 - o /\ f.pte = f.pts + 1
      BY <1>2, <2>3, <3>1 DEF TimesTrue
    <3>. QED
      BY <1>5, <3>1, <3>2 DEF ClockOf
  <2>5. t.slevel \in Levels /\ t.details[t.slevel] # NoDetails =>
          t.details[t.slevel].startSN >= Zero(t) - 1
    BY <1>7, <2>1 DEF Clocked, After, Ready
  <2>6. sn >= Zero(t) - 1 /\ Zero(t) \in Nat
    BY <1>1, <1>5, <2>1 DEF Clocked, After, Ready
  <2>7. f.slice >= Zero(t) - 1
    BY <1>5, <2>6
  <2>8. Underway(t)
    BY <1>4, <1>7, <1>8, <1>10, <1>12, <2>4, <2>5, <2>7 DEF Underway
  <2>. QED
    BY <2>2, <2>8
<1>11. CASE s.origin = NaN
  <2>1. PICK b \in 0 .. sn : f.pts = NaN /\ f.start = sn + i - 1 - b
    <3>1. Untimed(d.frags, sn)
      BY <1>1, <1>5, <1>11 DEF ListTrue
    <3>. QED
      BY <1>2, <1>5, <3>1 DEF Untimed, StartsAt
  <2>2. Zero(t) = b /\ b \in Nat /\ b <= sn
    BY <1>5, <1>7, <1>8, <1>11, <2>1 DEF Zero
  <2>3. /\ \A m \in Levels : lo[m] \in Nat /\ sn <= lo[m] + 1
        /\ Busy(s) => s.req.since \in Nat /\ sn <= s.req.since + 1
    BY <1>1, <1>5 DEF Clocked, Windows, Ready
  <2>4. After(t, lo)
    <3>1. \A m \in Levels : lo[m] >= b - 1
      BY <2>2, <2>3
    <3>2. Busy(t) => t.req.since >= b - 1
      <4>1. Busy(t) => Busy(s) /\ t.req = s.req
        BY <1>7 DEF Busy
      <4>. QED
        BY <2>2, <2>3, <4>1
    <3>3. t.details[t.last].startSN >= b - 1
      BY <1>1, <1>5, <1>7, <2>2 DEF Ready
    <3>. QED
      BY <2>2, <3>1, <3>2, <3>3 DEF After
  <2>5. ClockOf(f, s.origin)
    BY <1>5, <2>1 DEF ClockOf
  <2>6. t.details[t.slevel].startSN >= Zero(t) - 1
    BY <1>1, <1>5, <1>7, <2>2
  <2>7. Underway(t)
    <3>1. t.frag = f /\ f.pts = NaN /\ ClockOf(t.frag, t.origin)
      BY <1>7, <2>1, <2>5
    <3>2. /\ t.frag # NoFrag /\ t.state \in Loads
          /\ t.frag.level = t.slevel /\ t.frag.slice >= Zero(t) - 1
      BY <1>4, <1>5, <1>7, <1>8, <1>12, <2>2
    <3>3. (t.frag.pts # NaN => t.origin # NaN) /\ ClockOf(t.frag, t.origin)
      BY <3>1
    <3>. QED
      BY Zenon, <2>6, <3>2, <3>3 DEF Underway
  <2>. QED
    BY <2>4, <2>7
<1>. QED
  BY <1>10, <1>11

\* The end of the buffer, where the playhead is or was.
AtEnd(s, e) ==
    e \in Nat /\ e + s.origin \notin s.buf /\ e <= BufferEnd(s, s.pos) /\ BufferEnd(s, s.pos) \in Int

\* The fragment looked for at the end of the buffer continues it.
LEMMA FoundContinues ==
    ASSUME NEW s, Player(s), Ready(s), NEW e, Clocked(s, lo), s.metadata => AtEnd(s, e),
           NEW f, f # NoFrag, f = FindFragment(s.details[s.slevel], s.prev, e)
    PROVE  Continues(LoadFragment(s, f))
<1>0. PICK l \in Levels : l = s.slevel /\ s.details[l] # NoDetails
  BY DEF Ready
<1>1. PICK d :
        d = s.details[l] /\ l = s.slevel /\ Parsed(d, {l}) /\ ListTrue(d, s.origin) /\ d # NoDetails
  <2>1. Details(s.details[l], {l}) /\ ListTrue(s.details[l], s.origin)
    BY DEF Clocked
  <2>2. Parsed(s.details[l], {l})
    BY <1>0, <2>1 DEF Details, Parsed
  <2>. QED
    BY Zenon, <1>0, <2>1, <2>2
<1>2. PICK t : t = LoadFragment(s, f)
  OBVIOUS
<1>3. /\ t.freq = f /\ t.details = s.details /\ t.origin = s.origin
      /\ t.buf = s.buf /\ t.pos = s.pos /\ t.metadata = s.metadata
  <2>1. Keeps(s, t, {"freq", "frag", "requested", "next", "state"})
        /\ t.freq = f /\ t.frag = f /\ t.state = "FRAG_LOADING"
    BY <1>2, LoadFragmentFact DEF Player
  <2>. QED
    BY <2>1 DEF Keeps, Keys
<1>4. f \in Fragments({l})
  BY <1>1, FindTyped, ChosenTyped
<1>5. f.level = l /\ f.slice \in Int
  BY <1>4 DEF Fragments
<1>. SUFFICES ASSUME d.known, s.metadata PROVE Time(t, f.slice) <= BufferEnd(t, t.pos)
  BY <1>1, <1>2, <1>3, <1>5 DEF Continues
<1>6. PICK o \in Int, sn \in Nat :
        o = s.origin /\ sn = d.startSN /\ Numbered(d.frags, sn) /\ Right(d.frags, sn, o)
  BY <1>1 DEF ListTrue, Player
<1>7. s.prev # NoFrag => s.prev.sn \in Int /\ s.prev.sn # e + o
  BY <1>6 DEF AtEnd, Clocked, Plays
<1>8. e \in Nat
  BY DEF AtEnd
<1>9. f.slice - o <= e
  BY <1>1, <1>6, <1>7, <1>8, FindContinues
<1>10. BufferEnd(t, t.pos) = BufferEnd(s, s.pos)
  BY <1>3, SameEnd
<1>11. Time(t, f.slice) = f.slice - o
  BY <1>3, <1>5, <1>6 DEF Time, Clocked
<1>. QED
  BY <1>5, <1>6, <1>8, <1>9, <1>10, <1>11 DEF AtEnd

\* With no time known of the list nothing is promised.
LEMMA UnknownContinues ==
    ASSUME NEW s, Player(s), Ready(s), Clocked(s, lo), ~s.details[s.slevel].known,
           NEW f \in Chosen(s.details[s.slevel])
    PROVE  Continues(LoadFragment(s, f))
<1>1. PICK t : t = LoadFragment(s, f)
  OBVIOUS
<1>2. t.freq = f /\ t.details = s.details
  <2>1. Keeps(s, t, {"freq", "frag", "requested", "next", "state"})
        /\ t.freq = f /\ t.frag = f /\ t.state = "FRAG_LOADING"
    BY <1>1, LoadFragmentFact DEF Player
  <2>. QED
    BY <2>1 DEF Keeps, Keys
<1>3. Parsed(s.details[s.slevel], {s.slevel})
  BY DEF Ready, Clocked, Details, Parsed
<1>4. f.level = s.slevel
  BY <1>3, ChosenTyped DEF Fragments
<1>. QED
  BY <1>1, <1>2, <1>4 DEF Continues

LEMMA FetchFromFollows ==
    ASSUME NEW s, Player(s), Ready(s), NEW limit, NEW bufferEnd,
           FetchFrom(s, s.details[s.slevel], limit, bufferEnd),
           Clocked(s, lo) /\ s.metadata => AtEnd(s, bufferEnd)
    PROVE  Follows(s, p')
<1>1. PICK d : d = s.details[s.slevel] /\ Parsed(d, Ranks(s))
  BY DEF Player, Ready, Details, Parsed
<1>2. CASE d.known /\ limit > End(d) /\ s.metadata
  <2>1. p' = s
    BY Zenon, <1>1, <1>2 DEF FetchFrom
  <2>. QED
    BY <2>1 DEF Follows, AsksNothing
<1>3. CASE ~(d.known /\ limit > End(d) /\ s.metadata)
  <2>1. PICK f \in {IF s.requested /\ ~d.known THEN Guess(d, s.prev)
                    ELSE FindFragment(d, s.prev, bufferEnd)} :
           p' = IF f = NoFrag THEN s ELSE LoadFragment(s, f)
    BY Zenon, <1>1, <1>3 DEF FetchFrom
  <2>2. f \in Chosen(d) \cup {NoFrag}
    BY <1>1, <2>1, GuessTyped, FindTyped
  <2>3. CASE f = NoFrag
    BY <2>1, <2>3 DEF Follows, AsksNothing
  <2>4. CASE f # NoFrag
    <3>1. p' = LoadFragment(s, f)
      BY <2>1, <2>4
    <3>2. ASSUME Clocked(s, lo) PROVE Continues(LoadFragment(s, f))
      <4>1. CASE f = FindFragment(d, s.prev, bufferEnd)
        BY <1>1, <2>4, <3>2, <4>1, FoundContinues
      <4>2. CASE ~d.known
        BY <1>1, <2>2, <2>4, <3>2, <4>2, UnknownContinues
      <4>. QED
        BY <2>1, <4>1, <4>2
    <3>. QED
      BY <1>1, <2>2, <2>4, <3>1, <3>2, LoadFragmentFollows
  <2>. QED
    BY <2>3, <2>4
<1>. QED
  BY <1>2, <1>3

\* The live edge is in the playlist.
LEMMA SyncAfterStart ==
    ASSUME SliceDuration = 1, NEW d, NEW ls, Parsed(d, ls)
    PROVE  /\ LiveSyncPosition(d) \in Int /\ Start(d) \in Int
           /\ LiveSyncPosition(d) >= Start(d)
<1>1. Start(d) \in Int
  BY PlaylistAssumption DEF Start, Parsed, Lists, Fragments
<1>2. Listed \in Nat /\ LiveSync \in Nat
  BY PlaylistAssumption, VariantsAssumption
<1>. QED
  BY <1>1, <1>2 DEF LiveSyncPosition

LEMMA FetchPayloadFollows ==
    ASSUME NEW s, Player(s), Ready(s), FetchPayload(s, s.details[s.slevel])
    PROVE  Follows(s, p')
<1>1. PICK d : d = s.details[s.slevel] /\ Parsed(d, Ranks(s))
  BY DEF Player, Ready, Details, Parsed
<1>2. PICK bufferEnd, sync :
         /\ bufferEnd = BufferEnd(s, Position(s)) /\ sync = LiveSyncPosition(d)
         /\ IF bufferEnd < Start(d)
            THEN \E t \in {IF s.metadata THEN [s EXCEPT !.seeking = TRUE, !.pos = sync]
                           ELSE [s EXCEPT !.next = sync]} : FetchFrom(t, d, sync, bufferEnd)
            ELSE FetchFrom(s, d, bufferEnd, bufferEnd)
  BY Zenon, <1>1 DEF FetchPayload
<1>. SUFFICES ASSUME Clocked(s, lo) PROVE Follows(s, p')
  BY DEF Follows
<1>3. s.metadata => AtEnd(s, bufferEnd)
  <2>. SUFFICES ASSUME s.metadata PROVE AtEnd(s, bufferEnd)
    OBVIOUS
  <2>1. bufferEnd = BufferEnd(s, s.pos)
    BY <1>2 DEF Position
  <2>2. SliceDuration = 1 /\ s.origin \in Int /\ Plays(s)
    BY DEF Clocked, Player
  <2>3. bufferEnd \in Nat /\ bufferEnd + s.origin \notin s.buf
    BY <2>1, <2>2, PlayheadEnds
  <2>. QED
    BY <2>1, <2>3 DEF AtEnd
<1>4. CASE ~(bufferEnd < Start(d))
  BY <1>1, <1>2, <1>3, <1>4, FetchFromFollows
<1>5. CASE bufferEnd < Start(d)
  <2>1. PICK t \in {IF s.metadata THEN [s EXCEPT !.seeking = TRUE, !.pos = sync]
                    ELSE [s EXCEPT !.next = sync]} : FetchFrom(t, d, sync, bufferEnd)
    BY Zenon, <1>2, <1>5
  <2>2. Keeps(s, t, {"seeking", "pos", "next"}) /\ (s.metadata => t.pos = sync)
        /\ (~s.metadata => t.pos = s.pos)
    <3>1. CASE s.metadata
      <4>1. t = [s EXCEPT !.seeking = TRUE, !.pos = sync]
        BY <2>1, <3>1
      <4>. QED
        BY <3>1, <4>1 DEF Keeps, Keys, Player
    <3>2. CASE ~s.metadata
      <4>1. t = [s EXCEPT !.next = sync]
        BY <2>1, <3>2
      <4>. QED
        BY <3>2, <4>1 DEF Keeps, Keys, Player
    <3>. QED
      BY <3>1, <3>2
  <2>3. /\ t.req = s.req /\ t.slevel = s.slevel /\ t.details = s.details
        /\ t.state = s.state /\ t.last = s.last /\ t.origin = s.origin /\ t.freq = s.freq
        /\ t.frag = s.frag /\ t.buf = s.buf /\ t.prev = s.prev /\ t.metadata = s.metadata
        /\ t.startpos = s.startpos
    BY <2>2 DEF Keeps, Keys
  <2>4. sync \in Int /\ Start(d) \in Int /\ sync >= Start(d)
    BY <1>1, <1>2, SyncAfterStart DEF Clocked
  <2>5. s.metadata => AtEnd(t, bufferEnd) /\ sync >= 0
    <3>. SUFFICES ASSUME s.metadata PROVE AtEnd(t, bufferEnd) /\ sync >= 0
      OBVIOUS
    <3>1. bufferEnd \in Nat /\ bufferEnd + t.origin \notin t.buf /\ sync > bufferEnd
      BY <1>3, <1>5, <2>3, <2>4 DEF AtEnd
    <3>2. PICK e : e = BufferEnd(t, sync)
      OBVIOUS
    <3>3. e \in Int /\ e >= sync
      <4>1. /\ SliceDuration = 1 /\ t.origin \in Int /\ t.origin # NaN
            /\ IsFiniteSet(t.buf) /\ t.buf \subseteq Int
        BY <2>3 DEF Clocked, Player, Plays
      <4>. QED
        BY <2>4, <3>2, <4>1, BufferEnds
    <3>4. t.pos = sync
      BY <2>2
    <3>. QED
      BY <2>4, <3>1, <3>2, <3>3, <3>4 DEF AtEnd
  <2>6. Clocked(t, lo)
    <3>1. Plays(t)
      BY <2>2, <2>3, <2>4, <2>5 DEF Clocked, Plays
    <3>2. Zero(t) = Zero(s) /\ (Busy(t) <=> Busy(s)) /\ (Pending(t) <=> Pending(s))
      BY <2>3 DEF Zero, Busy, Pending
    <3>3. Windows(t, lo) /\ After(t, lo) /\ Underway(t)
      BY <2>3, <3>2 DEF Clocked, Windows, After, Underway
    <3>. QED
      BY <2>3, <3>1, <3>3 DEF Clocked
  <2>7. Ready(t)
    BY <2>3 DEF Ready
  <2>8. Player(t)
    BY <2>2 DEF Keeps, Keys, Player, Ranks
  <2>9. Follows(t, p')
    BY <1>1, <2>1, <2>3, <2>5, <2>7, <2>8, FetchFromFollows
  <2>. QED
    BY <2>3, <2>6, <2>9 DEF Follows, AsksNothing
<1>. QED
  BY <1>4, <1>5

LEMMA TickFollows ==
    ASSUME NEW s, Good(s), abr \in Levels, Tick(s)
    PROVE  Follows(s, p')
<1>1. CASE s.state = "IDLE"
  <2>1. DoTickIdle(s)
    BY <1>1 DEF Tick
  <2>2. CASE full \/ s.n = 0
    BY <2>1, <2>2 DEF DoTickIdle, Follows, AsksNothing
  <2>3. CASE ~(full \/ s.n = 0)
    <3>1. PICK t : /\ t = AskForLevel(s)
                   /\ IF t.details[t.slevel] = NoDetails \/ t.last # t.slevel
                      THEN p' = [t EXCEPT !.state = "WAITING_LEVEL"]
                      ELSE FetchPayload(t, t.details[t.slevel])
      BY Zenon, <2>1, <2>3 DEF DoTickIdle
    <3>2. /\ Good(t) /\ Keeps(s, t, {"timer", "level", "req", "down", "forced", "slevel"})
          /\ t.slevel \in Ranks(t)
      BY <3>1, AskForLevelFact
    <3>3. t.state = "IDLE" /\ t.slevel \in Levels
      BY <1>1, <3>2 DEF Keeps, Keys, Good, Player
    <3>4. Calm(s, t)
      BY <1>1, <3>1, AskForLevelCalm DEF Good
    <3>5. CASE t.details[t.slevel] = NoDetails \/ t.last # t.slevel
      <4>1. PICK u : u = [t EXCEPT !.state = "WAITING_LEVEL"]
        OBVIOUS
      <4>2. Calm(t, u)
        BY <3>2, <3>3, <4>1 DEF Calm, Good, Player, Keys, Pending, Sends, Loads, AsksNothing
      <4>. QED
        BY <3>1, <3>4, <3>5, <4>1, <4>2, CalmFollows, CalmThenFollows
    <3>6. CASE ~(t.details[t.slevel] = NoDetails \/ t.last # t.slevel)
      <4>1. Ready(t) /\ FetchPayload(t, t.details[t.slevel])
        BY <3>1, <3>3, <3>6 DEF Ready
      <4>2. Follows(t, p')
        BY <3>2, <4>1, FetchPayloadFollows DEF Good
      <4>. QED
        BY <3>4, <4>2, CalmThenFollows
    <3>. QED
      BY <3>5, <3>6
  <2>. QED
    BY <2>2, <2>3
<1>2. CASE s.state = "WAITING_LEVEL" /\ s.details[s.slevel] # NoDetails
  <2>1. PICK u : u = [s EXCEPT !.state = "IDLE"]
    OBVIOUS
  <2>2. p' = u
    BY <1>2, <2>1 DEF Tick
  <2>3. Calm(s, u)
    BY <1>2, <2>1 DEF Calm, Good, Player, Keys, Pending, Sends, Loads, AsksNothing
  <2>. QED
    BY <2>2, <2>3, CalmFollows
<1>3. CASE ~(s.state = "IDLE") /\ ~(s.state = "WAITING_LEVEL" /\ s.details[s.slevel] # NoDetails)
  <2>1. p' = s
    BY Zenon, <1>3 DEF Tick
  <2>. QED
    BY <2>1 DEF Follows, AsksNothing
<1>. QED
  BY <1>1, <1>2, <1>3

LEMMA AppendedFollows ==
    ASSUME NEW s, Good(s), s.state = "PARSING"
    PROVE  Follows(s, Appended(s, s.frag)) /\ Appended(s, s.frag).freq = NoFrag
<1>0. Appended(s, s.frag).freq = NoFrag
  BY AppendedFact DEF Keeps, Keys, Good, Parses
<1>. SUFFICES ASSUME Clocked(s, lo) PROVE Clocked(Appended(s, s.frag), lo)
  BY <1>0 DEF Follows, AsksNothing
<1>1. PICK f \in Fragments(Ranks(s)) : f = s.frag /\ s.freq = NoFrag
  BY DEF Good, Player, Parses
<1>2. PICK r : r = Appended(s, f)
  OBVIOUS
<1>3. /\ Keeps(s, r, {"origin", "buf", "details", "prev", "frag", "state", "metadata",
                      "pos", "next", "startpos"})
      /\ r.frag = NoFrag /\ r.state = "IDLE"
  BY <1>1, <1>2, AppendedFact
<1>4. PICK o, pts, pte : Timing(s, r, o, pts, pte) /\ Buffered(s, r, pts)
  BY <1>1, <1>2, AppendedFact
<1>5. r.req = s.req /\ r.last = s.last /\ r.freq = NoFrag /\ r.slevel = s.slevel
  BY <1>1, <1>3 DEF Keeps, Keys
<1>6. SliceDuration = 1 /\ Pending(s) /\ ~Pending(r)
  BY <1>3, <1>5 DEF Clocked, Pending
<1>7. o \in Nat /\ o = Zero(s) /\ r.origin = o /\ (s.origin = o \/ s.origin = NaN)
  <2>1. PICK a \in Int, b \in Int : a = f.slice /\ b = f.start
    BY DEF Fragments
  <2>2. o = IF s.origin = NaN THEN a * 1 - b ELSE s.origin
    BY <1>1, <1>4, <1>6, <2>1 DEF Timing
  <2>3. o = IF s.origin = NaN THEN a - b ELSE s.origin
    BY <2>2
  <2>4. Zero(s) = IF s.origin # NaN THEN s.origin ELSE a - b
    BY <1>1, <1>6, <2>1 DEF Zero
  <2>5. Zero(s) \in Nat
    BY DEF Clocked, After
  <2>. QED
    BY <1>4, <2>3, <2>4, <2>5 DEF Timing
<1>8. o # NaN /\ Zero(r) = o
  BY <1>7 DEF NaN, Zero
<1>9. TimeOf(f, o, pts, pte)
  <2>1. PICK a \in Int : a = f.slice
    BY DEF Fragments
  <2>2. pts = a * 1 - o /\ pte = pts + 1 /\ pts \in Int /\ pte \in Int
    BY <1>1, <1>4, <1>6, <2>1 DEF Timing
  <2>3. pts = a - o
    BY <1>7, <2>2
  <2>. QED
    BY <2>1, <2>2, <2>3 DEF TimeOf
<1>10. ClockOf(f, o)
  <2>1. ClockOf(f, s.origin) /\ (f.pts # NaN => s.origin # NaN)
    BY <1>1, <1>6 DEF Clocked, Underway
  <2>2. CASE s.origin = o
    BY <2>1, <2>2
  <2>3. CASE s.origin = NaN
    BY <2>1, <2>3 DEF ClockOf
  <2>. QED
    BY <1>7, <2>2, <2>3
<1>16. f \in Fragments({s.slevel}) /\ f.level = s.slevel
  BY <1>1, <1>6 DEF Clocked, Underway, Fragments
<1>11. \A l \in Levels :
         /\ ListTrue(r.details[l], o) /\ Details(r.details[l], {l})
         /\ r.details[l] # NoDetails =>
              s.details[l] # NoDetails /\ r.details[l].startSN = s.details[l].startSN
  <2>1. SUFFICES ASSUME NEW l \in Levels
                 PROVE  /\ ListTrue(r.details[l], o) /\ Details(r.details[l], {l})
                        /\ r.details[l] # NoDetails =>
                             /\ s.details[l] # NoDetails
                             /\ r.details[l].startSN = s.details[l].startSN
    BY Zenon
  <2>2. PICK d : d = s.details[l] /\ Details(d, {l}) /\ ListTrue(d, s.origin)
    BY DEF Clocked
  <2>3. PICK e : e = UpdateFragPTSDTS(d, f, pts, pte)
    OBVIOUS
  <2>4. r.details[l] = IF l = s.slevel THEN e ELSE d
    <3>1. r.details = [s.details EXCEPT ![s.slevel] = UpdateFragPTSDTS(@, f, pts, pte)]
      BY <1>1, <1>4 DEF Timing
    <3>2. DOMAIN s.details = Levels
      BY DEF Good, Player
    <3>. QED
      BY <2>2, <2>3, <3>1, <3>2
  <2>5. CASE l = s.slevel
    <3>1. d # NoDetails => d.startSN >= o - 1
      BY <1>6, <1>7, <2>2, <2>5 DEF Clocked, Underway
    <3>2. /\ ListTrue(e, o) /\ (d = NoDetails => e = NoDetails)
          /\ d # NoDetails => e # NoDetails /\ e.startSN = d.startSN
      BY <1>7, <1>9, <1>10, <1>16, <2>2, <2>3, <2>5, <3>1, UpdateTrue
    <3>3. Details(e, {l})
      BY <1>9, <1>16, <2>2, <2>3, <2>5, UpdateTyped DEF TimeOf
    <3>. QED
      BY <2>2, <2>4, <2>5, <3>2, <3>3
  <2>6. CASE l # s.slevel
    <3>1. ListTrue(d, o)
      BY <1>7, <1>8, <2>2 DEF ListTrue
    <3>. QED
      BY <2>2, <2>4, <2>6, <3>1
  <2>. QED
    BY <2>5, <2>6
<1>12. Windows(r, lo)
  BY <1>5, <1>11 DEF Clocked, Windows, Busy
<1>13. After(r, lo)
  <2>1. /\ Zero(r) \in Nat /\ \A m \in Levels : lo[m] >= Zero(r) - 1
        /\ Busy(r) => r.req.since >= Zero(r) - 1
    BY <1>5, <1>7, <1>8 DEF Clocked, After, Busy
  <2>2. r.last \in Levels /\ r.details[r.last] # NoDetails =>
          r.details[r.last].startSN >= Zero(r) - 1
    BY <1>5, <1>7, <1>8, <1>11 DEF Clocked, After
  <2>. QED
    BY <2>1, <2>2 DEF After
<1>14. Underway(r)
  BY <1>6 DEF Underway
<1>15. \A l \in Levels : ListTrue(r.details[l], r.origin) /\ Details(r.details[l], {l})
  BY <1>7, <1>11
<1>17. Plays(r)
  <2>1. PICK a \in Int : a = f.slice /\ a = f.sn /\ a >= o - 1 /\ pts = a - o
    BY <1>1, <1>6, <1>7, <1>9, <1>10 DEF Clocked, Underway, Fragments, TimeOf, ClockOf
  <2>2. /\ r.buf = s.buf \cup {a} /\ r.prev.sn = a /\ r.metadata = TRUE /\ r.startpos = NaN
        /\ r.pos = IF s.metadata THEN s.pos
                   ELSE IF BufferEnd(r, s.startpos) > s.startpos THEN s.startpos ELSE pts
    BY <1>1, <1>4, <2>1 DEF Buffered
  <2>3. /\ IsFiniteSet(s.buf) /\ s.buf \subseteq Int /\ s.startpos \in Int
        /\ \A c \in s.buf : s.origin # NaN /\ c >= s.origin - 1
        /\ s.metadata =>
             s.origin # NaN /\ s.pos \in Int /\ (s.pos >= 0 \/ s.pos + s.origin \in s.buf)
    BY DEF Clocked, Plays
  <2>4. IsFiniteSet(r.buf) /\ r.buf \subseteq Int /\ \A c \in r.buf : c >= o - 1
    <3>1. IsFiniteSet(s.buf \cup {a})
      BY <2>3, FS_AddElement
    <3>2. \A c \in s.buf : c >= o - 1
      BY <1>7, <2>3
    <3>. QED
      BY <2>1, <2>2, <2>3, <3>1, <3>2
  <2>5. r.pos \in Int /\ (r.pos >= 0 \/ r.pos + o \in r.buf)
    <3>1. CASE s.metadata
      BY <1>7, <2>2, <2>3, <3>1
    <3>2. CASE ~s.metadata /\ BufferEnd(r, s.startpos) > s.startpos
      <4>1. PICK x \in Int : x = s.startpos /\ r.pos = x
        BY <2>2, <2>3, <3>2
      <4>2. (x + o) \div 1 = x + o
        BY <1>7, <4>1
      <4>3. x + o \notin r.buf => BufferEnd(r, x) = x
        BY <1>6, <1>7, <1>8, <4>2 DEF BufferEnd
      <4>. QED
        BY <3>2, <4>1, <4>3
    <3>3. CASE ~s.metadata /\ ~(BufferEnd(r, s.startpos) > s.startpos)
      BY <1>7, <2>1, <2>2, <3>3
    <3>. QED
      BY <3>1, <3>2, <3>3
  <2>. QED
    BY <1>7, <1>8, <2>2, <2>4, <2>5 DEF Plays, NaN
<1>. QED
  BY <1>1, <1>2, <1>6, <1>12, <1>13, <1>14, <1>15, <1>17 DEF Clocked

\* An answer for level l from the window that began with slice base comes no
\* earlier than what is known of the level and no later than what s asks for.
Covers(s, l, base) ==
    /\ base \in Nat /\ base <= lo[l] /\ base >= Zero(s) - 1
    /\ Busy(s) => base <= s.req.since
    /\ s.details[l] # NoDetails => s.details[l].startSN <= base

LEMMA HeardFollows ==
    ASSUME NEW s, Player(s), s.level \in Levels, NEW base, Covers(s, s.level, base),
           NEW new, Parsed(new, Ranks(s)), new = ParseLevelPlaylist(s.level, base),
           NEW u, Heard(s, u, new)
    PROVE  Follows(s, u)
<1>. SUFFICES ASSUME Clocked(s, lo) PROVE Clocked(u, lo)
  BY DEF Follows, AsksNothing, Heard
<1>1. PICK l \in Levels : l = s.level
  OBVIOUS
<1>2. PICK old : old = s.details[l] /\ Details(old, {l}) /\ ListTrue(old, s.origin)
  BY DEF Clocked
<1>3. PICK d : d = IF old = NoDetails THEN new ELSE MergeDetails(old, new)
  OBVIOUS
<1>4. /\ u.last = l /\ u.req = s.req /\ u.origin = s.origin
      /\ u.frag = s.frag /\ u.freq = s.freq /\ u.slevel = s.slevel
      /\ u.state = IF s.state = "WAITING_LEVEL" THEN "IDLE" ELSE s.state
  BY <1>1 DEF Heard
<1>5. \A m \in Levels : u.details[m] = IF m = l THEN d ELSE s.details[m]
  <2>1. DOMAIN s.details = Levels
    BY DEF Player
  <2>2. u.details = [s.details EXCEPT ![l] = d]
    <3>1. d = IF s.details[l] = NoDetails THEN new ELSE MergeDetails(s.details[l], new)
      BY <1>2, <1>3
    <3>2. u.details = [s.details EXCEPT ![l] =
                         IF @ = NoDetails THEN new ELSE MergeDetails(@, new)]
      BY Zenon, <1>1 DEF Heard
    <3>. QED
      BY <3>1, <3>2
  <2>. QED
    BY <2>1, <2>2
<1>6. /\ SliceDuration = 1 /\ lo \in [Levels -> Nat]
      /\ \A m \in Levels : lo[l] <= lo[m] + 1
  BY DEF Clocked
<1>7. /\ base \in Nat /\ base <= lo[l] /\ base >= Zero(s) - 1
      /\ Busy(s) => base <= s.req.since
      /\ old # NoDetails => old.startSN <= base
  BY <1>1, <1>2 DEF Covers
<1>8. Zero(s) \in Nat /\ (s.origin # NaN => Zero(s) = s.origin)
  BY DEF Clocked, After, Zero
<1>16. Parsed(new, {l})
  BY <1>1, <1>7, ParseTyped
<1>9. ListTrue(d, s.origin) /\ d.startSN = base /\ Parsed(d, {l})
  <2>1. /\ new.startSN = base /\ new.known = FALSE /\ Numbered(new.frags, base)
        /\ Untimed(new.frags, base) /\ \A i \in 1 .. Listed : new.frags[i].start = i - 1
    <3>1. AsAnswered(ParseLevelPlaylist(s.level, base), base)
      BY <1>6, <1>7, ParseTrue
    <3>. QED
      BY <3>1 DEF AsAnswered
  <2>2. CASE old = NoDetails
    BY <1>3, <1>7, <1>16, <2>1, <2>2 DEF ListTrue
  <2>3. CASE old # NoDetails
    <3>1. Parsed(old, {l})
      BY <1>2, <2>3 DEF Details, Parsed
    <3>2. PICK o : o = s.origin /\ (o \in Nat \/ o = NaN)
      BY <1>8
    <3>3. /\ o # NaN => new.startSN >= o - 1
          /\ new.startSN \in Nat /\ old.startSN <= new.startSN
          /\ Numbered(new.frags, new.startSN) /\ Untimed(new.frags, new.startSN)
      BY <1>7, <1>8, <2>1, <2>3, <3>2
    <3>4. ListTrue(MergeDetails(old, new), o) /\ MergeDetails(old, new).startSN = new.startSN
      <4>1. Mergeable(old, new, o)
        BY <1>2, <2>1, <3>2, <3>3 DEF Mergeable
      <4>. QED
        BY <1>16, <3>1, <4>1, MergeTrue
    <3>5. Parsed(MergeDetails(old, new), {l})
      BY <1>16, <3>1, MergeTyped
    <3>. QED
      BY <1>3, <2>1, <2>3, <3>2, <3>4, <3>5
  <2>. QED
    BY <2>2, <2>3
<1>10. (Pending(u) <=> Pending(s)) /\ (Pending(s) => u.state = s.state)
  BY <1>4 DEF Pending, Clocked, Underway, Loads
<1>11. Zero(u) = Zero(s)
  BY <1>4, <1>10 DEF Zero
<1>12. \A m \in Levels : ListTrue(u.details[m], u.origin) /\ Details(u.details[m], {m})
  BY <1>4, <1>5, <1>9, ParsedIsDetails DEF Clocked
<1>13. Windows(u, lo)
  <2>1. Busy(u) => u.req.since \in Nat
    BY <1>4 DEF Clocked, Windows, Busy
  <2>2. SUFFICES ASSUME NEW m \in Levels, u.details[m] # NoDetails
                 PROVE  /\ u.details[m].startSN <= lo[m]
                        /\ \A k \in Levels : u.details[m].startSN <= lo[k] + 1
                        /\ Busy(u) => u.details[m].startSN <= u.req.since + 1
                        /\ Busy(u) /\ m = u.req.level => u.details[m].startSN <= u.req.since
    BY <2>1 DEF Windows
  <2>3. CASE m = l
    <3>1. u.details[m].startSN = base
      BY <1>5, <1>9, <2>3
    <3>2. \A k \in Levels : base <= lo[k] + 1
      BY <1>6, <1>7
    <3>3. Busy(u) => base <= u.req.since /\ base <= u.req.since + 1
      BY <1>4, <1>7, <2>1 DEF Busy
    <3>. QED
      BY <1>7, <2>3, <3>1, <3>2, <3>3
  <2>4. CASE m # l
    BY <1>4, <1>5, <2>2, <2>4 DEF Clocked, Windows, Busy
  <2>. QED
    BY <2>3, <2>4
<1>14. After(u, lo)
  <2>1. u.details[u.last].startSN >= Zero(u) - 1
    BY <1>4, <1>5, <1>7, <1>9, <1>11
  <2>2. /\ Zero(u) \in Nat /\ \A m \in Levels : lo[m] >= Zero(u) - 1
        /\ Busy(u) => u.req.since >= Zero(u) - 1
    BY <1>4, <1>11 DEF Clocked, After, Busy
  <2>. QED
    BY <2>1, <2>2 DEF After
<1>15. Underway(u)
  <2>1. SUFFICES ASSUME Pending(u) PROVE Underway(u)
    BY DEF Underway
  <2>2. /\ u.state \in Loads /\ u.frag # NoFrag /\ (u.frag.pts # NaN => u.origin # NaN)
        /\ ClockOf(u.frag, u.origin) /\ u.frag.level = u.slevel /\ u.frag.slice >= Zero(u) - 1
    BY <1>4, <1>10, <1>11, <2>1 DEF Clocked, Underway
  <2>3. u.slevel \in Levels /\ u.details[u.slevel] # NoDetails =>
          u.details[u.slevel].startSN >= Zero(u) - 1
    <3>1. CASE u.slevel = l
      BY <1>5, <1>7, <1>9, <1>11, <3>1
    <3>2. CASE u.slevel # l
      BY <1>4, <1>5, <1>10, <1>11, <2>1, <3>2 DEF Clocked, Underway
    <3>. QED
      BY <3>1, <3>2
  <2>. QED
    BY <2>2, <2>3 DEF Underway
<1>17. Plays(u)
  <2>1. /\ u.buf = s.buf /\ u.pos = s.pos /\ u.prev = s.prev /\ u.metadata = s.metadata
        /\ u.startpos = s.startpos \/ u.startpos = LiveSyncPosition(u.details[l])
    BY <1>1 DEF Heard
  <2>2. LiveSyncPosition(u.details[l]) \in Int
    BY <1>5, <1>6, <1>9, SyncAfterStart
  <2>. QED
    BY <1>4, <2>1, <2>2 DEF Clocked, Plays
<1>. QED
  BY <1>6, <1>12, <1>13, <1>14, <1>15, <1>17 DEF Clocked

LEMMA OnLevelLoadedFollows ==
    ASSUME NEW s, Answered(s), abr \in Levels, NEW base, Covers(s, s.level, base),
           NEW new, Parsed(new, Ranks(s)), new = ParseLevelPlaylist(s.level, base),
           OnLevelLoaded(s, s.level, new)
    PROVE  Follows(s, p')
<1>1. PICK u : Good(u) /\ Heard(s, u, new) /\ Tick(u)
  BY OnLevelLoadedFact
<1>2. Player(s) /\ s.level \in Levels
  BY DEF Answered, Player
<1>3. Follows(s, u)
  BY <1>1, <1>2, HeardFollows
<1>4. Follows(u, p')
  BY <1>1, TickFollows
<1>. QED
  BY <1>1, <1>3, <1>4 DEF Follows, AsksNothing, Heard

\* A failure drops a list, or sets aside a level.
LEMMA OnPlaylistErrorCalm ==
    ASSUME NEW s, Player(s), s.level \in Levels, NEW b
    PROVE  Calm(s, OnPlaylistError(s, s.level, b))
<1>1. PICK l \in Levels : l = s.level
  OBVIOUS
<1>2. PICK state : state = IF s.state = "WAITING_LEVEL" THEN "IDLE" ELSE s.state
  OBVIOUS
<1>3. PICK r : r = OnPlaylistError(s, l, b)
  OBVIOUS
<1>4. DOMAIN s = Keys /\ DOMAIN s.details = Levels
  BY DEF Player
<1>5. \/ r = WaitNoMore(Redundant(s, l))
      \/ r = WaitNoMore([s EXCEPT !.forced = l - 1, !.down = l = s.level])
      \/ r = WaitNoMore([s EXCEPT !.level = None])
      \/ r = ArmTimer(s) \/ r = [CleanTimer(s) EXCEPT !.level = None, !.state = "ERROR"]
  <2>1. CASE HasRedundant(s, l)
    BY Zenon, <1>3, <2>1 DEF OnPlaylistError
  <2>2. CASE ~HasRedundant(s, l) /\ Recoverable(s, l)
    BY Zenon, <1>3, <2>2 DEF OnPlaylistError
  <2>3. CASE ~HasRedundant(s, l) /\ ~Recoverable(s, l) /\ s.details[l] # NoDetails
    BY Zenon, <1>3, <2>3 DEF OnPlaylistError
  <2>4. CASE ~HasRedundant(s, l) /\ ~Recoverable(s, l) /\ s.details[l] = NoDetails
    BY Zenon, <1>3, <2>4 DEF OnPlaylistError
  <2>. QED
    BY <2>1, <2>2, <2>3, <2>4
<1>6. \A v : DOMAIN v = Keys =>
        /\ Keeps(v, WaitNoMore(v), {"state"})
        /\ WaitNoMore(v).state = IF v.state = "WAITING_LEVEL" THEN "IDLE" ELSE v.state
  BY DEF WaitNoMore, Keeps, Keys
<1>7. CASE r = WaitNoMore(Redundant(s, l))
  <2>1. PICK url, details : /\ url = [s.url EXCEPT ![l] = (@ + 1) % s.urls[l]]
                            /\ details = [s.details EXCEPT ![l] = NoDetails]
    OBVIOUS
  <2>2. PICK v : v = Redundant(s, l)
    OBVIOUS
  <2>3. v = [s EXCEPT !.url = url, !.details = details]
    BY <1>4, <2>1, <2>2 DEF Redundant, Keys
  <2>4. Keeps(s, v, {"url", "details"}) /\ v.details = details
    BY <1>4, <2>3 DEF Keeps, Keys
  <2>5. /\ Keeps(v, r, {"state"})
        /\ r.state = IF v.state = "WAITING_LEVEL" THEN "IDLE" ELSE v.state
    BY <1>6, <1>7, <2>2, <2>4 DEF Keeps
  <2>6. /\ r.details = details /\ r.origin = s.origin /\ r.last = s.last /\ r.req = s.req
        /\ r.freq = s.freq /\ r.frag = s.frag /\ r.slevel = s.slevel /\ r.state = state
        /\ r.buf = s.buf /\ r.pos = s.pos /\ r.prev = s.prev /\ r.metadata = s.metadata
        /\ r.startpos = s.startpos
    BY <1>2, <2>4, <2>5 DEF Keeps, Keys
  <2>7. \A m \in Levels : details[m] = s.details[m] \/ details[m] = NoDetails
    BY <1>4, <2>1
  <2>. QED
    BY <1>1, <1>2, <1>3, <2>6, <2>7 DEF Calm, Pending, Sends, Loads, AsksNothing
<1>8. CASE r = WaitNoMore([s EXCEPT !.forced = l - 1, !.down = l = s.level])
  <2>1. PICK down : down = (l = s.level)
    OBVIOUS
  <2>2. PICK v : v = [s EXCEPT !.forced = l - 1, !.down = down]
    OBVIOUS
  <2>3. r = WaitNoMore(v)
    BY Zenon, <1>8, <2>1, <2>2
  <2>4. Keeps(s, v, {"forced", "down"})
    BY <1>4, <2>2 DEF Keeps, Keys
  <2>5. /\ Keeps(v, r, {"state"})
        /\ r.state = IF v.state = "WAITING_LEVEL" THEN "IDLE" ELSE v.state
    BY <1>6, <2>3, <2>4 DEF Keeps
  <2>6. /\ r.details = s.details /\ r.origin = s.origin /\ r.last = s.last /\ r.req = s.req
        /\ r.freq = s.freq /\ r.frag = s.frag /\ r.slevel = s.slevel /\ r.state = state
        /\ r.buf = s.buf /\ r.pos = s.pos /\ r.prev = s.prev /\ r.metadata = s.metadata
        /\ r.startpos = s.startpos
    BY <1>2, <2>4, <2>5 DEF Keeps, Keys
  <2>. QED
    BY <1>1, <1>2, <1>3, <2>6 DEF Calm, Pending, Sends, Loads, AsksNothing
<1>9. CASE r = WaitNoMore([s EXCEPT !.level = None])
  <2>2. PICK v : v = [s EXCEPT !.level = None]
    OBVIOUS
  <2>4. Keeps(s, v, {"level"})
    BY <1>4, <2>2 DEF Keeps, Keys
  <2>5. /\ Keeps(v, r, {"state"})
        /\ r.state = IF v.state = "WAITING_LEVEL" THEN "IDLE" ELSE v.state
    <3>1. r = WaitNoMore(v)
      BY Zenon, <1>9, <2>2
    <3>2. DOMAIN v = DOMAIN s /\ v.state = s.state
      BY <1>4, <2>2 DEF Keys
    <3>. QED
      BY <1>6, <2>4, <3>1, <3>2 DEF Keeps
  <2>6. /\ r.details = s.details /\ r.origin = s.origin /\ r.last = s.last /\ r.req = s.req
        /\ r.freq = s.freq /\ r.frag = s.frag /\ r.slevel = s.slevel /\ r.state = state
        /\ r.buf = s.buf /\ r.pos = s.pos /\ r.prev = s.prev /\ r.metadata = s.metadata
        /\ r.startpos = s.startpos
    BY <1>2, <2>4, <2>5 DEF Keeps, Keys
  <2>. QED
    BY <1>1, <1>2, <1>3, <2>6 DEF Calm, Pending, Sends, Loads, AsksNothing
<1>10. CASE r = ArmTimer(s)
  <2>1. /\ r.details = s.details /\ r.origin = s.origin /\ r.last = s.last /\ r.req = s.req
        /\ r.freq = s.freq /\ r.frag = s.frag /\ r.slevel = s.slevel /\ r.state = s.state
        /\ r.buf = s.buf /\ r.pos = s.pos /\ r.prev = s.prev /\ r.metadata = s.metadata
        /\ r.startpos = s.startpos
    BY <1>4, <1>10, ArmTimerFact DEF Keeps, Keys
  <2>. QED
    BY <1>1, <1>3, <2>1 DEF Calm, Pending, Sends, Loads, AsksNothing
<1>11. CASE r = [CleanTimer(s) EXCEPT !.level = None, !.state = "ERROR"]
  <2>1. /\ r.details = s.details /\ r.origin = s.origin /\ r.last = s.last /\ r.req = s.req
        /\ r.freq = s.freq /\ r.frag = s.frag /\ r.slevel = s.slevel /\ r.state = "ERROR"
        /\ r.buf = s.buf /\ r.pos = s.pos /\ r.prev = s.prev /\ r.metadata = s.metadata
        /\ r.startpos = s.startpos
    BY <1>4, <1>11 DEF CleanTimer, Keys
  <2>. QED
    BY <1>1, <1>3, <2>1 DEF Calm, Pending, Sends, Loads, AsksNothing
<1>. QED
  BY <1>5, <1>7, <1>8, <1>9, <1>10, <1>11

LEMMA FragFailedCalm ==
    ASSUME NEW s, Player(s), NEW errors, NEW e, NEW l,
           e = [s EXCEPT !.errors = errors, !.freq = NoFrag]
    PROVE  Calm(s, RetryLater(LevelOfFragFailed(e, l)))
<1>1. DOMAIN s.details = Levels /\ DOMAIN e = Keys /\ e.freq = NoFrag
      /\ e.details = s.details /\ e.origin = s.origin /\ e.last = s.last /\ e.req = s.req
      /\ e.buf = s.buf /\ e.pos = s.pos /\ e.prev = s.prev /\ e.metadata = s.metadata
      /\ e.startpos = s.startpos
  BY DEF Player, Keys
<1>2. PICK t : t = LevelOfFragFailed(e, l)
  OBVIOUS
<1>3. /\ DOMAIN t = Keys /\ t.freq = NoFrag
      /\ t.origin = s.origin /\ t.last = s.last /\ t.req = s.req
      /\ t.buf = s.buf /\ t.pos = s.pos /\ t.prev = s.prev /\ t.metadata = s.metadata
      /\ t.startpos = s.startpos
      /\ \A m \in Levels : t.details[m] = s.details[m] \/ t.details[m] = NoDetails
  <2>1. CASE t = Redundant(e, l)
    <3>1. PICK url, details : /\ url = [e.url EXCEPT ![l] = (@ + 1) % e.urls[l]]
                              /\ details = [e.details EXCEPT ![l] = NoDetails]
      OBVIOUS
    <3>2. t = [e EXCEPT !.url = url, !.details = details]
      BY <1>1, <2>1, <3>1 DEF Redundant, Keys
    <3>3. /\ DOMAIN t = Keys /\ t.freq = NoFrag /\ t.details = details
          /\ t.origin = s.origin /\ t.last = s.last /\ t.req = s.req
          /\ t.buf = s.buf /\ t.pos = s.pos /\ t.prev = s.prev /\ t.metadata = s.metadata
          /\ t.startpos = s.startpos
      BY <1>1, <3>2 DEF Keys
    <3>. QED
      BY <1>1, <3>1, <3>3
  <2>2. CASE t = [e EXCEPT !.forced = l - 1]
    BY <1>1, <2>2 DEF Keys
  <2>3. CASE t = e
    BY <1>1, <2>3
  <2>. QED
    BY <1>2, <2>1, <2>2, <2>3 DEF LevelOfFragFailed
<1>4. PICK r : r = RetryLater(t)
  OBVIOUS
<1>5. /\ r.freq = NoFrag /\ r.details = t.details /\ r.state # "PARSING"
      /\ r.origin = s.origin /\ r.last = s.last /\ r.req = s.req
      /\ r.buf = s.buf /\ r.pos = s.pos /\ r.prev = s.prev /\ r.metadata = s.metadata
      /\ r.startpos = s.startpos
  <2>1. CASE r = [t EXCEPT !.state = "ERROR"]
    BY <1>3, <2>1 DEF Keys
  <2>2. CASE t.fragErrors # MaxRetry
    <3>1. PICK a, b, c : a = t.fragErrors + 1 /\ b = (t.requested /\ t.metadata)
                         /\ c = IF t.metadata THEN t.next ELSE t.startpos
      OBVIOUS
    <3>2. r = [t EXCEPT !.state = "FRAG_LOADING_WAITING_RETRY", !.fragErrors = a,
                        !.requested = b, !.next = c]
      BY <1>3, <1>4, <2>2, <3>1 DEF RetryLater, Keys
    <3>. QED
      BY <1>3, <3>2 DEF Keys
  <2>. QED
    BY <1>4, <2>1, <2>2 DEF RetryLater
<1>. QED
  BY <1>2, <1>3, <1>4, <1>5 DEF Calm, Pending, Sends, AsksNothing

LEMMA ManifestCalm ==
    ASSUME NEW v
    PROVE  Calm(NewPlayer, OnManifestLoaded(NewPlayer, v))
<1>1. \E a, b, c : OnManifestLoaded(NewPlayer, v) = [NewPlayer EXCEPT !.n = a, !.urls = b, !.first = c]
  BY Zenon DEF OnManifestLoaded
<1>2. PICK a, b, c : OnManifestLoaded(NewPlayer, v) = [NewPlayer EXCEPT !.n = a, !.urls = b, !.first = c]
  BY Zenon, <1>1
<1>3. PICK t : t = OnManifestLoaded(NewPlayer, v)
  OBVIOUS
<1>4. /\ t.details = NewPlayer.details /\ t.origin = NewPlayer.origin /\ t.last = NewPlayer.last
      /\ t.req = NewPlayer.req /\ t.freq = NewPlayer.freq /\ t.frag = NewPlayer.frag
      /\ t.state = NewPlayer.state /\ t.slevel = NewPlayer.slevel
      /\ t.buf = NewPlayer.buf /\ t.pos = NewPlayer.pos /\ t.prev = NewPlayer.prev
      /\ t.metadata = NewPlayer.metadata /\ t.startpos = NewPlayer.startpos
  BY <1>2, <1>3, NewPlayerFields DEF Keys
<1>5. Calm(NewPlayer, t)
  BY <1>4 DEF Calm, Pending, Sends, AsksNothing
<1>. QED
  BY <1>3, <1>5

LEMMA StartFollows ==
    ASSUME NEW s, Good(s)
    PROVE  LET m == StartLevels(s)
               t == StartStream(m)
           IN Calm(s, m) /\ Calm(m, t) /\ ~Pending(t) /\ Follows(s, t)
<1>1. PICK m : m = StartLevels(s)
  OBVIOUS
<1>2. PICK t : t = StartStream(m)
  OBVIOUS
<1>3. Calm(s, m)
  BY <1>1, StartLevelsCalm DEF Good
<1>4. Player(m)
  BY <1>1, StartLevelsFact DEF Restarting
<1>5. Calm(m, t) /\ ~Pending(t)
  BY <1>2, <1>4, StartStreamCalm
<1>6. Follows(s, t)
  BY <1>3, <1>5, CalmFollows, CalmThenFollows
<1>. QED
  BY <1>1, <1>2, <1>3, <1>5, <1>6

LEMMA MasterFollows ==
    ASSUME Inv, MasterLoaded PROVE Follows(p, p')
<1>1. PICK s : s = StartStream(StartLevels(OnManifestLoaded(p, Variants))) /\ Tick(s)
  BY Zenon DEF MasterLoaded
<1>2. p = NewPlayer
  BY DEF MasterLoaded, Inv, Sound, Good, Player
<1>3. PICK m : m = OnManifestLoaded(p, Variants)
  OBVIOUS
<1>4. Good(m)
  <2>1. Cardinality(Range(Variants)) <= Cardinality(Range(Variants))
    BY VariantsAssumption, Names
  <2>. QED
    BY <1>2, <1>3, <2>1, VariantsAssumption, ManifestGood
<1>5. Calm(p, m)
  BY <1>2, <1>3, ManifestCalm
<1>6. PICK k : k = StartLevels(m) /\ s = StartStream(k)
  BY <1>1, <1>3
<1>7. Good(s) /\ Calm(m, k) /\ Calm(k, s)
  BY <1>4, <1>6, StartGood, StartFollows
<1>8. Follows(s, p')
  BY <1>1, <1>7, TickFollows DEF Inv
<1>. QED
  BY <1>5, <1>7, <1>8, CalmThenFollows

\* A request is of this moment.
Fresh(s) == Busy(s) => s.req.level \in Levels /\ s.req.since = lo[s.req.level]

\* A player that knows of nothing yet.
Blank(s) == Fresh(s) /\ s.origin = NaN /\ \A l \in Levels : s.details[l] = NoDetails

LEMMA CalmBlank ==
    ASSUME NEW s, NEW t, Calm(s, t), Blank(s)
    PROVE  Blank(t)
<1>1. t.origin = NaN /\ \A l \in Levels : t.details[l] = NoDetails
  BY DEF Calm, Blank
<1>2. Fresh(t)
  BY DEF Calm, Blank, Fresh, Sends, Busy
<1>. QED
  BY <1>1, <1>2 DEF Blank

LEMMA MediaFollows ==
    ASSUME Inv, MediaPlaylistLoaded PROVE Follows(p, p')
<1>1. PICK s, t, base : Doubled(s, t, base)
  BY MediaFact
<1>2. PICK m : m = OnManifestLoaded(NewPlayer, <<0>>)
  OBVIOUS
<1>3. PICK k : k = StartLevels(m)
  OBVIOUS
<1>4. PICK a : a = AskForLevel(s)
  OBVIOUS
<1>5. /\ p = NewPlayer /\ Good(m) /\ s = StartStream(k) /\ Good(s) /\ s.state = "IDLE"
      /\ Keeps(a, t, {"state", "extra"}) /\ t.state = "WAITING_LEVEL"
      /\ Answered(t) /\ t.level = 0 /\ base \in 0 .. lo[0]
      /\ Parsed(ParseLevelPlaylist(0, base), Ranks(t))
      /\ OnLevelLoaded(t, 0, ParseLevelPlaylist(0, base))
  BY Zenon, <1>1, <1>2, <1>3, <1>4 DEF Doubled
<1>6. Calm(p, m)
  BY <1>2, <1>5, ManifestCalm
<1>7. Calm(m, k) /\ Calm(k, s) /\ ~Pending(s)
  BY <1>3, <1>5, StartFollows
<1>8. Calm(s, a)
  BY <1>4, <1>5, AskForLevelCalm DEF Inv, Good
<1>9. a.state = "IDLE"
  BY <1>4, <1>5, AskForLevelFact DEF Inv, Keeps, Keys
<1>10. Calm(a, t) /\ ~Pending(t)
  <2>1. /\ t.details = a.details /\ t.origin = a.origin /\ t.last = a.last /\ t.req = a.req
        /\ t.freq = a.freq /\ t.frag = a.frag /\ t.slevel = a.slevel
        /\ t.buf = a.buf /\ t.pos = a.pos /\ t.prev = a.prev /\ t.metadata = a.metadata
        /\ t.startpos = a.startpos
    BY <1>5 DEF Keeps, Keys
  <2>. QED
    BY <1>5, <1>7, <1>8, <1>9, <2>1 DEF Calm, Pending, Sends, Loads, AsksNothing
<1>11. Blank(p)
  BY <1>5 DEF NewPlayer, Blank, Fresh, Busy, NoReq
<1>12. Blank(t)
  BY <1>6, <1>7, <1>8, <1>10, <1>11, CalmBlank
<1>13. 0 \in Levels
  BY <1>5 DEF Answered, Player
<1>14. Covers(t, 0, base)
  <2>1. Zero(t) = 0
    BY <1>10, <1>12 DEF Zero, Blank
  <2>2. lo[0] \in Nat /\ base \in Nat /\ base <= lo[0]
    BY <1>5, <1>13 DEF Inv
  <2>3. Busy(t) => base <= t.req.since
    <3>1. Busy(t) => t.req.level = 0
      BY <1>5 DEF Answered, Asks
    <3>. QED
      BY <1>12, <2>2, <3>1 DEF Blank, Fresh
  <2>4. t.details[0] = NoDetails
    BY <1>12, <1>13 DEF Blank
  <2>. QED
    BY <2>1, <2>2, <2>3, <2>4 DEF Covers
<1>15. Follows(t, p')
  BY <1>5, <1>14, OnLevelLoadedFollows DEF Inv
<1>16. Follows(s, p')
  BY <1>8, <1>10, <1>15, CalmThenFollows
<1>. QED
  BY <1>6, <1>7, <1>16, CalmThenFollows

LEMMA PlaylistLoadedFollows ==
    ASSUME Inv, PlaylistLoaded PROVE Follows(p, p')
<1>1. PICK s, base : Arrived(s, base)
  BY PlaylistLoadedFact
<1>. SUFFICES ASSUME Clocked(p, lo) PROVE Follows(p, p')
  BY DEF Follows
<1>2. /\ s.details = p.details /\ s.origin = p.origin /\ s.last = p.last /\ s.freq = p.freq
      /\ s.frag = p.frag /\ s.slevel = p.slevel /\ s.state = p.state /\ ~Busy(s)
      /\ s.buf = p.buf /\ s.pos = p.pos /\ s.prev = p.prev /\ s.metadata = p.metadata
      /\ s.startpos = p.startpos
  BY <1>1 DEF Arrived, Keeps, Keys
<1>3. Calm(p, s)
  BY <1>2 DEF Calm, Pending, AsksNothing
<1>5. PICK l \in Levels : l = s.level /\ l = p.req.level /\ Busy(p) /\ base \in p.req.since .. lo[l]
  BY <1>1 DEF Arrived, Answered, Player
<1>6. Covers(s, l, base)
  <2>1. /\ p.req.since \in Nat /\ p.req.since >= Zero(p) - 1 /\ Zero(p) \in Nat
        /\ p.details[l] # NoDetails => p.details[l].startSN \in Nat
                                       /\ p.details[l].startSN <= p.req.since
    BY <1>5 DEF Clocked, Windows, After, ListTrue
  <2>2. lo[l] \in Nat
    BY <1>5 DEF Inv
  <2>3. base \in Nat /\ base <= lo[l] /\ base >= p.req.since
    BY <1>5, <2>1, <2>2
  <2>4. Zero(s) = Zero(p)
    BY <1>2 DEF Zero, Pending
  <2>. QED
    BY <1>2, <2>1, <2>3, <2>4 DEF Covers
<1>7. Follows(s, p')
  BY <1>1, <1>5, <1>6, OnLevelLoadedFollows DEF Arrived, Inv
<1>. QED
  BY <1>3, <1>7, CalmThenFollows

LEMMA PlaylistRetriedFollows ==
    ASSUME Inv, PlaylistRetried PROVE Follows(p, p')
<1>1. Good(p) /\ Busy(p)
  BY NewPlayerFields DEF Inv, Sound, PlaylistRetried, Busy, NoReq
<1>2. PICK r : r = Request(p.req.level, p.req.url, p.req.tries + 1)
  OBVIOUS
<1>3. p.req.level \in Levels /\ r.level = p.req.level /\ r.since = lo[r.level]
  BY <1>1, <1>2 DEF Request, Good, Asks, Player
<1>4. PICK t : t = p'
  OBVIOUS
<1>5. t = [p EXCEPT !.req = r]
  BY <1>2, <1>4 DEF PlaylistRetried
<1>6. /\ Keeps(p, t, Keys \ Clockwork)
      /\ t.slevel = p.slevel /\ t.req = r
  BY <1>1, <1>5 DEF Good, Player, Keys, Keeps, Clockwork
<1>7. Sends(p, t)
  BY <1>3, <1>6 DEF Sends
<1>. QED
  BY <1>4, <1>6, <1>7, KeepsCalm

LEMMA PlaylistFailsFollows ==
    ASSUME Inv, PlaylistFails PROVE Follows(p, p')
<1>1. Good(p) /\ Busy(p)
  BY NewPlayerFields DEF Inv, Sound, PlaylistFails, Busy, NoReq
<1>2. PICK b : p' = OnPlaylistError([Failed(p, p.req.level) EXCEPT !.req = NoReq], p.req.level, b)
  BY Zenon DEF PlaylistFails
<1>3. PICK s : s = [Failed(p, p.req.level) EXCEPT !.req = NoReq]
  OBVIOUS
<1>4. PICK errors :
         errors = [p.errors EXCEPT ![p.req.level] = Least({@ + 1, p.urls[p.req.level]})]
  OBVIOUS
<1>5. s = [p EXCEPT !.errors = errors, !.req = NoReq]
  <2>1. Failed(p, p.req.level) = [p EXCEPT !.errors = errors]
    BY <1>1, <1>4 DEF Failed, Good, Player, Keys
  <2>. QED
    BY <1>1, <1>3, <2>1 DEF Good, Player, Keys
<1>6. Keeps(p, s, {"errors", "req"}) /\ s.req = NoReq
  BY <1>1, <1>5 DEF Good, Player, Keys, Keeps
<1>7. Calm(p, s)
  <2>1. /\ s.details = p.details /\ s.origin = p.origin /\ s.last = p.last /\ s.freq = p.freq
        /\ s.frag = p.frag /\ s.slevel = p.slevel /\ s.state = p.state /\ ~Busy(s)
        /\ s.buf = p.buf /\ s.pos = p.pos /\ s.prev = p.prev /\ s.metadata = p.metadata
        /\ s.startpos = p.startpos
    BY <1>6 DEF Keeps, Keys, Busy, NoReq
  <2>. QED
    BY <2>1 DEF Calm, Pending, AsksNothing
<1>8. Player(s)
  BY <1>1, <1>6 DEF Good, Player, Keeps, Keys, Ranks
<1>9. s.level = p.req.level /\ s.level \in Levels
  BY <1>1, <1>6 DEF Good, Player, Asks, Keeps, Keys
<1>10. Calm(s, p')
  BY <1>2, <1>3, <1>8, <1>9, OnPlaylistErrorCalm
<1>. QED
  BY <1>7, <1>10, CalmFollows, CalmThenFollows

LEMMA TimerFollows ==
    ASSUME Inv, TimerFires \/ OrphanFires PROVE Follows(p, p')
<1>1. Good(p)
  BY NewPlayerFields DEF Inv, Sound, TimerFires, OrphanFires
<1>2. PICK s : /\ p' = Reload(s)
               /\ s = [p EXCEPT !.timer = "fired"] \/ s = [p EXCEPT !.orphans = p.orphans - 1]
  <2>1. CASE TimerFires
    BY <2>1 DEF TimerFires
  <2>2. CASE OrphanFires
    <3>1. [p EXCEPT !.orphans = @ - 1] = [p EXCEPT !.orphans = p.orphans - 1]
      BY <1>1 DEF Good, Player, Keys
    <3>2. p' = Reload([p EXCEPT !.orphans = @ - 1])
      BY Zenon, <2>2 DEF OrphanFires
    <3>. QED
      BY Zenon, <3>1, <3>2
  <2>. QED
    BY <2>1, <2>2
<1>3. Keeps(p, s, {"timer", "orphans"})
  BY <1>1, <1>2 DEF Good, Player, Keys, Keeps
<1>4. /\ Keeps(p, s, Keys \ Clockwork)
      /\ s.slevel = p.slevel /\ s.req = p.req /\ DOMAIN s = Keys /\ s.level = p.level
  BY <1>3 DEF Keys, Keeps, Clockwork
<1>5. Calm(p, s)
  BY <1>4, KeepsCalm DEF Sends
<1>6. s.level \in Levels \cup {None}
  BY <1>1, <1>4 DEF Good, Player
<1>7. Follows(s, p')
  BY <1>2, <1>4, <1>6, ReloadCalm, CalmFollows
<1>. QED
  BY <1>5, <1>7, CalmThenFollows

LEMMA FragLoadedFollows ==
    ASSUME Inv, FragLoaded PROVE Follows(p, p')
<1>1. Good(p) /\ p.freq # NoFrag
  BY NewPlayerFields DEF Inv, Sound, FragLoaded
<1>2. PICK errors : errors = [p.errors EXCEPT ![p.freq.level] = 0]
  OBVIOUS
<1>3. PICK t : t = [p EXCEPT !.freq = NoFrag, !.forced = None, !.errors = errors]
  OBVIOUS
<1>4. [p EXCEPT !.freq = NoFrag, !.forced = None, !.errors[p.freq.level] = 0] = t
  BY <1>1, <1>2, <1>3 DEF Good, Player, Keys
<1>5. p' = IF t.details[p.freq.level] = NoDetails THEN t
           ELSE [t EXCEPT !.state = "PARSING", !.fragErrors = 0]
  BY Zenon, <1>4 DEF FragLoaded
<1>6. /\ DOMAIN t = Keys /\ t.freq = NoFrag
      /\ t.details = p.details /\ t.origin = p.origin /\ t.last = p.last /\ t.req = p.req
      /\ t.frag = p.frag /\ t.slevel = p.slevel /\ t.state = p.state
      /\ t.buf = p.buf /\ t.pos = p.pos /\ t.prev = p.prev /\ t.metadata = p.metadata
      /\ t.startpos = p.startpos
  BY <1>1, <1>3 DEF Good, Player, Keys
<1>7. PICK u : u = p'
  OBVIOUS
<1>8. /\ u.freq = NoFrag /\ (u.state = p.state \/ u.state = "PARSING")
      /\ u.details = p.details /\ u.origin = p.origin /\ u.last = p.last /\ u.req = p.req
      /\ u.frag = p.frag /\ u.slevel = p.slevel
      /\ u.buf = p.buf /\ u.pos = p.pos /\ u.prev = p.prev /\ u.metadata = p.metadata
      /\ u.startpos = p.startpos
  <2>1. CASE u = t
    BY <1>6, <2>1
  <2>2. CASE u = [t EXCEPT !.state = "PARSING", !.fragErrors = 0]
    BY <1>6, <2>2 DEF Keys
  <2>. QED
    BY <1>5, <1>7, <2>1, <2>2
<1>9. Calm(p, u)
  BY <1>1, <1>8 DEF Calm, Pending, Sends, Loads, AsksNothing
<1>. QED
  BY <1>7, <1>9, CalmFollows

LEMMA FragParsedFollows ==
    ASSUME Inv, FragParsed PROVE Follows(p, p')
<1>1. Good(p) /\ p.state = "PARSING"
  BY NewPlayerFields DEF Inv, Sound, FragParsed
<1>2. PICK s : s = Appended(p, p.frag) /\ Tick(s)
  BY Zenon DEF FragParsed
<1>3. Follows(p, s) /\ s.freq = NoFrag /\ Good(s)
  BY <1>1, <1>2, AppendedFollows, AppendedGood
<1>4. Follows(s, p')
  BY <1>2, <1>3, TickFollows DEF Inv
<1>. QED
  BY <1>3, <1>4 DEF Follows, AsksNothing

LEMMA FragFailsFollows ==
    ASSUME Inv, FragFails PROVE Follows(p, p')
<1>1. Good(p) /\ p.freq # NoFrag
  BY NewPlayerFields DEF Inv, Sound, FragFails
<1>2. p' = RetryLater(LevelOfFragFailed([Failed(p, p.freq.level) EXCEPT !.freq = NoFrag],
                                        p.freq.level))
  BY Zenon DEF FragFails
<1>3. PICK errors :
         errors = [p.errors EXCEPT ![p.freq.level] = Least({@ + 1, p.urls[p.freq.level]})]
  OBVIOUS
<1>4. PICK e : e = [Failed(p, p.freq.level) EXCEPT !.freq = NoFrag]
  OBVIOUS
<1>5. e = [p EXCEPT !.errors = errors, !.freq = NoFrag]
  <2>1. Failed(p, p.freq.level) = [p EXCEPT !.errors = errors]
    BY <1>1, <1>3 DEF Failed, Good, Player, Keys
  <2>. QED
    BY <1>1, <1>4, <2>1 DEF Good, Player, Keys
<1>. QED
  BY <1>1, <1>2, <1>4, <1>5, FragFailedCalm, CalmFollows DEF Good

LEMMA RetryTickSeekFollows ==
    ASSUME Inv, RetryDue \/ TickDue \/ Seeking PROVE Follows(p, p')
<1>1. CASE RetryDue
  <2>1. Good(p) /\ p.state = "FRAG_LOADING_WAITING_RETRY" /\ p' = [p EXCEPT !.state = "IDLE"]
    BY <1>1, NewPlayerFields DEF Inv, Sound, RetryDue
  <2>2. Calm(p, p')
    BY <2>1 DEF Calm, Good, Player, Keys, Pending, Sends, Loads, AsksNothing
  <2>. QED
    BY <2>2, CalmFollows
<1>2. CASE TickDue
  <2>1. CASE p = NewPlayer
    <3>1. p.state = "STOPPED"
      BY <2>1, NewPlayerFields
    <3>2. p' = p
      BY <1>2, <3>1 DEF TickDue, Tick
    <3>. QED
      BY <3>2 DEF Follows, AsksNothing
  <2>2. CASE Good(p)
    BY <1>2, <2>2, TickFollows DEF TickDue, Inv
  <2>. QED
    BY <2>1, <2>2 DEF Inv, Sound
<1>3. CASE Seeking
  <2>1. PICK s, t : /\ Good(p) /\ Keeps(p, s, {"seeking"}) /\ Good(t) /\ Tick(t)
                    /\ \/ t = s
                       \/ /\ Keeps(s, t, {"frag", "freq", "prev", "state"})
                          /\ t.freq = NoFrag /\ t.prev = NoFrag /\ t.state = "IDLE"
    BY <1>3, SeekingFact
  <2>2. /\ t.details = p.details /\ t.origin = p.origin /\ t.last = p.last /\ t.req = p.req
        /\ t.slevel = p.slevel /\ t.buf = p.buf /\ t.pos = p.pos /\ t.metadata = p.metadata
        /\ t.startpos = p.startpos
    BY <2>1 DEF Keeps, Keys
  <2>3. \/ t.freq = p.freq /\ t.frag = p.frag /\ t.state = p.state /\ t.prev = p.prev
        \/ t.freq = NoFrag /\ t.state = "IDLE" /\ t.prev = NoFrag
    BY <2>1 DEF Keeps, Keys
  <2>4. Calm(p, t)
    BY <2>2, <2>3 DEF Calm, Pending, Sends, AsksNothing
  <2>5. Follows(t, p')
    BY <2>1, TickFollows DEF Inv
  <2>. QED
    BY <2>4, <2>5, CalmThenFollows
<1>. QED
  BY <1>1, <1>2, <1>3

LEMMA StopLoadFollows ==
    ASSUME Inv, StopLoad PROVE Follows(p, p')
<1>1. Good(p)
  BY NewPlayerFields DEF Inv, Sound, StopLoad
<1>2. PICK s : s = [p EXCEPT !.canload = FALSE]
  OBVIOUS
<1>3. PICK t : t = Stop(s)
  OBVIOUS
<1>4. p' = t
  BY <1>2, <1>3 DEF StopLoad, Uses
<1>5. /\ DOMAIN s = Keys /\ s.details = p.details /\ s.origin = p.origin /\ s.last = p.last
      /\ s.req = p.req
      /\ s.buf = p.buf /\ s.pos = p.pos /\ s.metadata = p.metadata /\ s.startpos = p.startpos
  BY <1>1, <1>2 DEF Good, Player, Keys
<1>6. /\ t.freq = NoFrag /\ t.state = "STOPPED" /\ t.details = p.details
      /\ t.origin = p.origin /\ t.last = p.last /\ t.req = p.req /\ t.prev = NoFrag
      /\ t.buf = p.buf /\ t.pos = p.pos /\ t.metadata = p.metadata /\ t.startpos = p.startpos
  BY <1>3, <1>5, StopFact DEF Keeps, Keys
<1>7. Calm(p, t)
  BY <1>6 DEF Calm, Pending, Sends, AsksNothing
<1>. QED
  BY <1>4, <1>7, CalmFollows

LEMMA StartLoadFollows ==
    ASSUME Inv, StartLoad PROVE Follows(p, p')
<1>1. Good(p)
  BY NewPlayerFields DEF Inv, Sound, StartLoad
<1>2. PICK s : s = StartStream(StartLevels(p)) /\ Tick(s)
  BY Zenon DEF StartLoad, Uses
<1>3. PICK m : m = StartLevels(p) /\ s = StartStream(m)
  BY <1>2
<1>5. Good(s) /\ Calm(p, m) /\ Calm(m, s)
  BY <1>1, <1>3, StartGood, StartFollows
<1>4. Follows(s, p')
  BY <1>2, <1>5, TickFollows DEF Inv
<1>. QED
  BY <1>4, <1>5, CalmThenFollows

LEMMA ManualFollows ==
    ASSUME Inv, NEW l \in Levels \cup {None}, SetManualLevel(l) PROVE Follows(p, p')
<1>1. DOMAIN p = Keys
  BY NewPlayerFields DEF Inv, Sound, Good, Player
<1>2. PICK start : start = IF p.startlevel = None THEN l ELSE p.startlevel
  OBVIOUS
<1>3. PICK s : s = [p EXCEPT !.manual = l, !.startlevel = start]
  OBVIOUS
<1>4. p' = IF l = None THEN s ELSE SetLevel(s, l)
  BY Zenon, <1>2, <1>3 DEF SetManualLevel, Uses
<1>5. /\ Keeps(p, s, Keys \ Clockwork)
      /\ s.slevel = p.slevel /\ s.req = p.req /\ DOMAIN s = Keys
  BY <1>1, <1>3 DEF Keys, Keeps, Clockwork
<1>6. Calm(p, s)
  BY <1>5, KeepsCalm DEF Sends
<1>7. CASE l = None
  BY <1>4, <1>6, <1>7, CalmFollows
<1>8. CASE l # None
  <2>1. Follows(s, p')
    BY <1>4, <1>5, <1>8, SetLevelCalm, CalmFollows
  <2>. QED
    BY <1>6, <2>1, CalmThenFollows
<1>. QED
  BY <1>7, <1>8

LEMMA SlideClocked ==
    ASSUME Inv, NEW l \in Levels, Slide(l), Clocked(p, lo)
    PROVE  Clocked(p, lo')
<1>1. PICK w : w = [lo EXCEPT ![l] = @ + 1]
  OBVIOUS
<1>2. lo' = w /\ \A m \in Levels : lo[l] <= lo[m]
  BY <1>1 DEF Slide
<1>3. /\ lo \in [Levels -> Nat] /\ \A k, m \in Levels : lo[k] <= lo[m] + 1
  BY DEF Clocked
<1>4. /\ w \in [Levels -> Nat]
      /\ \A m \in Levels : lo[m] <= w[m] /\ w[m] = IF m = l THEN lo[m] + 1 ELSE lo[m]
  BY <1>1, <1>3
<1>5. \A k, m \in Levels : w[k] <= w[m] + 1
  BY <1>2, <1>3, <1>4
<1>6. \A k \in Levels : p.details[k] # NoDetails => p.details[k].startSN \in Nat
  BY DEF Clocked, ListTrue
<1>7. Windows(p, w)
  BY <1>3, <1>4, <1>6 DEF Clocked, Windows
<1>8. After(p, w)
  BY <1>3, <1>4 DEF Clocked, After
<1>. QED
  BY <1>2, <1>4, <1>5, <1>7, <1>8 DEF Clocked

LEMMA ClockedInit ==
    ASSUME SliceDuration = 1, Init PROVE Clocked(p, lo)
<1>1. p = NewPlayer /\ lo = [l \in Levels |-> 0]
  BY DEF Init
<1>2. /\ p.details = [l \in Levels |-> NoDetails] /\ p.req = NoReq /\ p.freq = NoFrag
      /\ p.state = "STOPPED" /\ p.origin = NaN
      /\ p.buf = {} /\ p.prev = NoFrag /\ p.metadata = FALSE /\ p.startpos = -1
  BY <1>1 DEF NewPlayer
<1>3. ~Busy(p) /\ ~Pending(p) /\ Zero(p) = 0
  BY <1>2 DEF Busy, NoReq, Pending, Zero
<1>4. lo \in [Levels -> Nat] /\ \A l \in Levels : lo[l] = 0
  BY <1>1
<1>5. \A l \in Levels : p.details[l] = NoDetails
  BY <1>2
<1>6. Windows(p, lo) /\ Underway(p)
  BY <1>3, <1>5 DEF Windows, Underway
<1>7. After(p, lo)
  BY <1>3, <1>4, <1>5 DEF After
<1>8. \A l \in Levels : ListTrue(p.details[l], p.origin) /\ Details(p.details[l], {l})
  BY <1>5 DEF ListTrue, Details
<1>9. Plays(p)
  BY <1>2, FS_EmptySet DEF Plays
<1>10. \A l, m \in Levels : lo[l] <= lo[m] + 1
  BY <1>4
<1>11. SliceDuration = 1 /\ lo \in [Levels -> Nat]
  BY <1>4
<1>. QED
  BY Zenon, <1>6, <1>7, <1>8, <1>9, <1>10, <1>11 DEF Clocked

\* Of every step: the times stay right, and what it asks for continues the buffer.
Keeping == Clocked(p', lo') /\ (AsksNothing(p, p') \/ Continues(p'))

LEMMA ClockedStep == Inv /\ Clocked(p, lo) /\ [Next]_vars => Keeping
<1>. SUFFICES ASSUME Inv, Clocked(p, lo), [Next]_vars PROVE Keeping
  OBVIOUS
<1>1. Follows(p, p') /\ lo' = lo => Keeping
  <2>. SUFFICES ASSUME Follows(p, p'), lo' = lo PROVE Keeping
    OBVIOUS
  <2>1. Clocked(p', lo) /\ (AsksNothing(p, p') \/ Continues(p'))
    BY DEF Follows
  <2>. QED
    BY <2>1 DEF Keeping
<1>2. CASE MasterLoaded
  BY <1>1, <1>2, MasterFollows DEF MasterLoaded
<1>3. CASE MediaPlaylistLoaded
  BY <1>1, <1>3, MediaFollows DEF MediaPlaylistLoaded
<1>4. CASE PlaylistLoaded
  BY <1>1, <1>4, PlaylistLoadedFollows DEF PlaylistLoaded
<1>5. CASE PlaylistRetried
  BY <1>1, <1>5, PlaylistRetriedFollows DEF PlaylistRetried
<1>6. CASE PlaylistFails
  BY <1>1, <1>6, PlaylistFailsFollows DEF PlaylistFails
<1>7. CASE TimerFires \/ OrphanFires
  BY <1>1, <1>7, TimerFollows DEF TimerFires, OrphanFires
<1>8. CASE FragLoaded
  BY <1>1, <1>8, FragLoadedFollows DEF FragLoaded
<1>9. CASE FragParsed
  BY <1>1, <1>9, FragParsedFollows DEF FragParsed
<1>10. CASE FragFails
  BY <1>1, <1>10, FragFailsFollows DEF FragFails
<1>11. CASE RetryDue \/ TickDue \/ Seeking
  BY <1>1, <1>11, RetryTickSeekFollows DEF RetryDue, TickDue, Seeking
<1>12. CASE StopLoad
  BY <1>1, <1>12, StopLoadFollows DEF StopLoad
<1>13. CASE StartLoad
  BY <1>1, <1>13, StartLoadFollows DEF StartLoad
<1>14. ASSUME NEW l \in Levels \cup {None}, SetManualLevel(l) PROVE Keeping
  BY <1>1, <1>14, ManualFollows DEF SetManualLevel
<1>15. p' = p /\ lo' = lo => Keeping
  BY DEF Keeping, AsksNothing
<1>16. CASE BufferFills \/ BufferDrains
  BY <1>15, <1>16 DEF BufferFills, BufferDrains
<1>17. ASSUME NEW l \in Levels, BandwidthChanges(l) PROVE Keeping
  BY <1>15, <1>17 DEF BandwidthChanges
<1>18. ASSUME NEW l \in Levels, Slide(l) PROVE Keeping
  <2>1. Clocked(p, lo') /\ p' = p
    BY <1>18, SlideClocked DEF Slide
  <2>. QED
    BY <2>1 DEF Keeping, AsksNothing
<1>19. CASE UNCHANGED vars
  BY <1>15, <1>19 DEF vars
<1>. QED
  BY <1>2, <1>3, <1>4, <1>5, <1>6, <1>7, <1>8, <1>9, <1>10, <1>11, <1>12, <1>13, <1>14,
     <1>16, <1>17, <1>18, <1>19 DEF Next

LEMMA ClockedPlaced == Inv /\ Clocked(p, lo) => Placed
<1>. SUFFICES ASSUME Inv, Clocked(p, lo), NEW l \in Levels, p.details[l].known,
                     NEW i \in 1 .. Len(p.details[l].frags),
                     Time(p, p.details[l].frags[i].slice) >= 0
              PROVE  p.details[l].frags[i].start = Time(p, p.details[l].frags[i].slice)
  BY DEF Placed
<1>1. Good(p)
  <2>1. NewPlayer.details[l].known = FALSE
    BY DEF NewPlayer, NoDetails
  <2>. QED
    BY <2>1 DEF Inv, Sound
<1>2. PICK d : d = p.details[l] /\ ListTrue(d, p.origin) /\ Details(d, Ranks(p))
  BY <1>1 DEF Clocked, Good, Player
<1>3. d # NoDetails
  BY <1>2 DEF NoDetails
<1>4. i \in 1 .. Listed
  BY <1>2, <1>3, ListLen DEF Details
<1>5. PICK sn \in Nat : sn = d.startSN /\ Numbered(d.frags, sn) /\ Right(d.frags, sn, p.origin)
  BY <1>2, <1>3 DEF ListTrue
<1>6. PICK o \in Int : o = p.origin
  BY <1>1 DEF Good, Player
<1>7. d.frags[i].slice = sn + i - 1
  BY <1>4, <1>5 DEF Numbered
<1>8. Time(p, d.frags[i].slice) = sn + i - 1 - o
  <2>1. SliceDuration = 1
    BY DEF Clocked
  <2>. QED
    BY <1>4, <1>6, <1>7, <2>1 DEF Time
<1>9. sn + i - 1 >= o
  BY <1>2, <1>4, <1>6, <1>8
<1>10. d.frags[i].start = sn + i - 1 - o
  BY <1>4, <1>5, <1>6, <1>9 DEF Right, StartsAt
<1>. QED
  BY <1>2, <1>8, <1>10

\* Once a fragment of a playlist was parsed, every fragment of the playlist starts
\* at the time the player shows its slice (updateFragPTSDTS and mergeDetails,
\* level-helper.js), for slices of one second, any streams, playlists of any
\* length, and any number of refreshes, switches, failures, retries and calls of
\* the user.  With longer slices numbers name other slices and it does not hold.
THEOREM PlacedHolds == ASSUME SliceDuration = 1 PROVE Spec => []Placed
<1>1. Init => Inv /\ Clocked(p, lo)
  BY InvInit, ClockedInit
<1>2. Inv /\ Clocked(p, lo) /\ [Next]_vars => (Inv /\ Clocked(p, lo))'
  BY InvStep, ClockedStep DEF Keeping
<1>3. Inv /\ Clocked(p, lo) => Placed
  BY ClockedPlaced
<1>. QED
  BY <1>1, <1>2, <1>3, PTL DEF Spec

\* A fragment asked for continues the buffer: with times known, no step asks for a
\* fragment that starts after the end of what is buffered at the playhead, or where
\* the playhead was just sent (_findFragment, _ensureFragmentAtLivePoint of
\* stream-controller.js), for slices of one second, any streams, playlists of any
\* length, and any number of refreshes, switches, failures, retries, jumps and calls
\* of the user.
THEOREM NoSkipHolds == ASSUME SliceDuration = 1 PROVE Spec => NoSkip
<1>. DEFINE Step == LET f == p'.freq
                        d == p'.details[f.level]
                    IN f # NoFrag /\ f # p.freq /\ d.known /\ p'.metadata =>
                         Time(p', f.slice) <= BufferEnd(p', p'.pos)
<1>1. Init => Inv /\ Clocked(p, lo)
  BY InvInit, ClockedInit
<1>2. Inv /\ Clocked(p, lo) /\ [Next]_vars => (Inv /\ Clocked(p, lo))'
  BY InvStep, ClockedStep DEF Keeping
<1>3. Inv /\ Clocked(p, lo) /\ [Next]_vars => [Step]_vars
  <2>. SUFFICES ASSUME Inv, Clocked(p, lo), [Next]_vars PROVE Step
    OBVIOUS
  <2>1. AsksNothing(p, p') \/ Continues(p')
    BY ClockedStep DEF Keeping
  <2>. QED
    BY <2>1 DEF AsksNothing, Continues
<1>. QED
  BY <1>1, <1>2, <1>3, PTL DEF Spec, NoSkip

=============================================================================
