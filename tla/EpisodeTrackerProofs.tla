-------------------------- MODULE EpisodeTrackerProofs --------------------------
(***************************************************************************)
(* Theorems about Timelines and EpisodeTracker, for every number of calls, *)
(* claims and messages, every set of replies and every context length.     *)
(*                                                                         *)
(* First the pure part: what merging keeps, which tokens are trained on    *)
(* and where a sample is cut.  The recursive functions of Timelines are    *)
(* reasoned about through LeastNumber: the set of the numbers up to n for  *)
(* which something holds contains n if it contains 0 and every next one.   *)
(*                                                                         *)
(* Then the tracker.  The invariant says of every timeline, saved or about *)
(* to be, that what the model says in it is a call's reply after that      *)
(* call's prompt (GoodLine), that no two end with the same call and no     *)
(* call under way is in any (LinesInv, OnceInv), that the list is one      *)
(* owner's unless a timeline came late (OwnersInv), and that the owner's   *)
(* answers are in the list unless a reset has wiped them (KeptInv), whose  *)
(* revert then takes the claim (WipedInv).                                 *)
(***************************************************************************)
EXTENDS EpisodeTracker, FiniteSetTheorems, WellFoundedInduction, TLAPS

-----------------------------------------------------------------------------
(* Induction.  The theorems on induction of the library take a predicate;   *)
(* the fact that a nonempty set of numbers has a least one takes none.      *)

Less == OpToRel(<, Nat)

\* The numbers are well-founded.
LEMMA LessIsWellFounded == IsWellFoundedOn(Less, Nat)
BY NatLessThanWellFounded DEF Less, OpToRel

\* A nonempty set of numbers has a least one.
LEMMA LeastNumber ==
  ASSUME NEW T, T \subseteq Nat, T # {}
  PROVE  \E n \in T : \A m \in T : n <= m
<1>1. \E n \in T : \A m \in T : ~(<<m, n>> \in Less)
  BY WFMin, LessIsWellFounded
<1>2. Less = {ss \in Nat \X Nat : ss[1] < ss[2]}
  BY DEF Less, OpToRel
<1>3. PICK n \in T : \A m \in T : ~(<<m, n>> \in Less)
  BY <1>1
<1>4. ASSUME NEW m \in T
      PROVE  n <= m
  <2>1. m \in Nat /\ n \in Nat
    OBVIOUS
  <2>2. ~(m < n)
    BY <1>2, <1>3, <2>1
  <2> QED BY <2>1, <2>2
<1> QED BY <1>4

\* What holds of 0 and of every next number up to n, holds up to n.
LEMMA UpTo ==
  ASSUME NEW n \in Nat, NEW S, 0 \in S, \A i \in 0..n : i < n /\ i \in S => i + 1 \in S
  PROVE  \A i \in 0..n : i \in S
<1> SUFFICES ASSUME (0..n) \ S # {}
             PROVE  FALSE
  OBVIOUS
<1>0. (0..n) \ S \subseteq Nat
  OBVIOUS
<1>1. PICK m \in (0..n) \ S : \A i \in (0..n) \ S : m <= i
  BY <1>0, LeastNumber
<1>2. m # 0 /\ m - 1 \in 0..n /\ m - 1 < n
  BY <1>1
<1>3. m - 1 \in S
  BY <1>1, <1>2
<1>4. (m - 1) + 1 \in S
  BY <1>2, <1>3
<1>5. (m - 1) + 1 = m
  BY <1>1
<1> QED BY <1>1, <1>4, <1>5

-----------------------------------------------------------------------------
(* The least and the greatest of a set of numbers *)

\* Min is in the set, and no greater than any number in it.
LEMMA MinIsLeast ==
  ASSUME NEW T, T \subseteq Nat, T # {}
  PROVE  Min(T) \in T /\ \A m \in T : Min(T) <= m
<1>1. \E n \in T : \A m \in T : n <= m
  BY LeastNumber
<1> QED BY <1>1 DEF Min

\* A recursion over 0..n has a solution: the function that the definition chooses.
StepsOn(n, X) == [1..n -> [X -> X]]
Runs(n, X, base, F) == {f \in [0..n -> X] : f[0] = base /\ \A i \in 1..n : f[i] = F[i][f[i - 1]]}

LEMMA Recursion ==
  ASSUME NEW n \in Nat, NEW X, NEW base \in X, NEW F \in StepsOn(n, X)
  PROVE  Runs(n, X, base, F) # {}
<1>0. F \in [1..n -> [X -> X]]
  BY DEF StepsOn
<1> DEFINE Solves(f, m) == \A i \in 0..m : f[i] = IF i = 0 THEN base ELSE F[i][f[i - 1]]
<1> DEFINE S == {m \in 0..n : \E f \in [0..m -> X] : Solves(f, m)}
<1>1. 0 \in S
  <2> DEFINE g == [i \in 0..0 |-> base]
  <2>1. g \in [0..0 -> X] /\ Solves(g, 0)
    OBVIOUS
  <2>2. \E f \in [0..0 -> X] : Solves(f, 0)
    BY <2>1
  <2> QED BY <2>2
<1>2. ASSUME NEW m \in 0..n, m < n, m \in S
      PROVE  m + 1 \in S
  <2>1. PICK f \in [0..m -> X] : Solves(f, m)
    BY <1>2
  <2>2. m \in Nat /\ m + 1 \in 1..n /\ m \in 0..m
    BY <1>2
  <2> DEFINE g == [i \in 0..m + 1 |-> IF i = m + 1 THEN F[m + 1][f[m]] ELSE f[i]]
  <2>3. g \in [0..m + 1 -> X]
    BY <1>0, <2>2
  <2>4. \A i \in 0..m : g[i] = f[i]
    BY <2>2
  <2>5. g[m + 1] = F[m + 1][f[m]]
    BY <2>2
  <2>6. Solves(g, m + 1)
    <3> HIDE DEF g
    <3> SUFFICES ASSUME NEW i \in 0..m + 1
                 PROVE  g[i] = IF i = 0 THEN base ELSE F[i][g[i - 1]]
      OBVIOUS
    <3>1. CASE i = m + 1
      <4>1. i # 0 /\ i - 1 = m
        BY <2>2, <3>1
      <4> QED BY <2>2, <2>4, <2>5, <3>1, <4>1
    <3>2. CASE i = 0
      <4>1. 0 \in 0..m /\ g[0] = f[0]
        BY <2>2, <2>4
      <4>2. f[0] = base
        BY <2>1, <4>1
      <4> QED BY <3>2, <4>1, <4>2
    <3>3. CASE i \in 1..m
      <4>1. i - 1 \in 0..m /\ i \in 0..m /\ i # 0
        BY <2>2, <3>3
      <4> QED BY <2>1, <2>4, <4>1
    <3> QED BY <2>2, <3>1, <3>2, <3>3
  <2>7. \E h \in [0..m + 1 -> X] : Solves(h, m + 1)
    BY <2>3, <2>6
  <2>8. m + 1 \in 0..n
    BY <2>2
  <2> QED BY <2>7, <2>8
<1>3. n \in S
  <2> HIDE DEF S
  <2> QED BY <1>1, <1>2, UpTo
<1>4. PICK f \in [0..n -> X] : Solves(f, n)
  BY <1>3
<1>5. f[0] = base /\ \A i \in 1..n : f[i] = F[i][f[i - 1]]
  <2>1. 0 \in 0..n /\ \A i \in 1..n : i \in 0..n /\ i # 0
    OBVIOUS
  <2> QED BY <1>4, <2>1
<1> QED BY <1>5 DEF Runs

\* A member that is no greater than any other is the least.
LEMMA MinIs ==
  ASSUME NEW T, T \subseteq Nat, NEW x \in T, \A m \in T : x <= m
  PROVE  Min(T) = x
<1>1. Min(T) \in T /\ Min(T) <= x /\ x <= Min(T)
  BY MinIsLeast
<1>2. Min(T) \in Nat /\ x \in Nat
  BY <1>1
<1> QED BY <1>1, <1>2

\* A member that is no less than any other is the greatest.
LEMMA MaxIs ==
  ASSUME NEW T, T \subseteq Nat, NEW x \in T, \A m \in T : m <= x
  PROVE  Max(T) = x
<1>1. Max(T) \in T /\ \A m \in T : Max(T) >= m
  <2>1. \A m \in T : x >= m
    OBVIOUS
  <2> QED BY <2>1 DEF Max
<1>2. Max(T) >= x /\ Max(T) <= x
  BY <1>1
<1>3. Max(T) \in Nat /\ x \in Nat
  BY <1>1
<1> QED BY <1>2, <1>3

-----------------------------------------------------------------------------
(* Sequences *)

\* Functions from 1..n are sequences, and a short sequence is its elements.
LEMMA IsSequence ==
  ASSUME NEW T, NEW n \in Nat, NEW f \in [1..n -> T]
  PROVE  f \in Seq(T) /\ Len(f) = n
OBVIOUS

LEMMA Tuple1 == ASSUME NEW T, NEW s \in Seq(T), Len(s) = 1 PROVE s = <<s[1]>>
OBVIOUS
LEMMA Tuple2 == ASSUME NEW T, NEW s \in Seq(T), Len(s) = 2 PROVE s = <<s[1], s[2]>>
OBVIOUS
LEMMA Tuple3 == ASSUME NEW T, NEW s \in Seq(T), Len(s) = 3 PROVE s = <<s[1], s[2], s[3]>>
OBVIOUS

\* What SubSeq takes out of a sequence.
LEMMA PartOf ==
  ASSUME NEW T, NEW s \in Seq(T), NEW m \in 1..Len(s), NEW n \in 0..Len(s), m <= n + 1
  PROVE  /\ SubSeq(s, m, n) \in Seq(T)
         /\ Len(SubSeq(s, m, n)) = n + 1 - m
         /\ \A i \in 1..(n + 1 - m) : SubSeq(s, m, n)[i] = s[m + i - 1]
OBVIOUS

\* Three tokens in a row of a sequence, or two, or one.
LEMMA Parts ==
  ASSUME NEW T, NEW s \in Seq(T), NEW m \in 1..Len(s)
  PROVE  /\ SubSeq(s, m, m) = <<s[m]>>
         /\ m + 1 <= Len(s) => SubSeq(s, m, m + 1) = <<s[m], s[m + 1]>>
         /\ m + 2 <= Len(s) => SubSeq(s, m, m + 2) = <<s[m], s[m + 1], s[m + 2]>>
<1>1. m \in Nat /\ Len(s) \in Nat /\ m <= Len(s)
  OBVIOUS
<1>2. SubSeq(s, m, m) = <<s[m]>>
  <2> DEFINE t == SubSeq(s, m, m)
  <2>1. m \in 0..Len(s) /\ m <= m + 1
    BY <1>1
  <2>2. t \in Seq(T) /\ Len(t) = m + 1 - m /\ \A i \in 1..(m + 1 - m) : t[i] = s[m + i - 1]
    BY <1>1, <2>1, PartOf
  <2> HIDE DEF t
  <2>3. Len(t) = 1 /\ t[1] = s[m]
    BY <1>1, <2>2
  <2>4. t = <<s[m]>>
    BY <2>2, <2>3, Tuple1
  <2> QED BY <2>4 DEF t
<1>3. ASSUME m + 1 <= Len(s)
      PROVE  SubSeq(s, m, m + 1) = <<s[m], s[m + 1]>>
  <2> DEFINE t == SubSeq(s, m, m + 1)
  <2>1. m + 1 \in 0..Len(s) /\ m <= (m + 1) + 1
    BY <1>1, <1>3
  <2>2. t \in Seq(T) /\ Len(t) = (m + 1) + 1 - m /\ \A i \in 1..((m + 1) + 1 - m) : t[i] = s[m + i - 1]
    BY <1>1, <2>1, PartOf
  <2> HIDE DEF t
  <2>3. Len(t) = 2 /\ t[1] = s[m] /\ t[2] = s[m + 1]
    BY <1>1, <2>2
  <2>4. t = <<s[m], s[m + 1]>>
    BY <2>2, <2>3, Tuple2
  <2> QED BY <2>4 DEF t
<1>4. ASSUME m + 2 <= Len(s)
      PROVE  SubSeq(s, m, m + 2) = <<s[m], s[m + 1], s[m + 2]>>
  <2> DEFINE t == SubSeq(s, m, m + 2)
  <2>1. m + 2 \in 0..Len(s) /\ m <= (m + 2) + 1
    BY <1>1, <1>4
  <2>2. t \in Seq(T) /\ Len(t) = (m + 2) + 1 - m /\ \A i \in 1..((m + 2) + 1 - m) : t[i] = s[m + i - 1]
    BY <1>1, <2>1, PartOf
  <2> HIDE DEF t
  <2>3. Len(t) = 3 /\ t[1] = s[m] /\ t[2] = s[m + 1] /\ t[3] = s[m + 2]
    BY <1>1, <2>2
  <2>4. t = <<s[m], s[m + 1], s[m + 2]>>
    BY <2>2, <2>3, Tuple3
  <2> QED BY <2>4 DEF t
<1> QED BY <1>2, <1>3, <1>4

\* The template with one or two words in it.
LEMMA JoinedOne ==
  ASSUME NEW T, NEW a \in T, NEW b \in T, NEW c \in T, NEW d \in T
  PROVE  <<a>> \o <<b>> \o <<c, d>> = <<a, b, c, d>>
<1>1. \A x, y \in Seq(T) : /\ x \o y \in Seq(T) /\ Len(x \o y) = Len(x) + Len(y)
                           /\ \A i \in 1..Len(x) : (x \o y)[i] = x[i]
                           /\ \A i \in 1..Len(y) : (x \o y)[Len(x) + i] = y[i]
  OBVIOUS
<1>2. \A x \in T : <<x>> \in Seq(T) /\ Len(<<x>>) = 1 /\ <<x>>[1] = x
  OBVIOUS
<1>3. \A x, y \in T : /\ <<x, y>> \in Seq(T) /\ Len(<<x, y>>) = 2
                      /\ <<x, y>>[1] = x /\ <<x, y>>[2] = y
  OBVIOUS
<1>4. <<a>> \o <<b>> \o <<c, d>> = <<a, b, c, d>>
  <2> DEFINE p == <<a>> \o <<b>>
             r == <<c, d>>
             q == p \o r
  <2>1. p \in Seq(T) /\ Len(p) = 2 /\ p[1] = a /\ p[2] = b
    BY <1>1, <1>2
  <2> HIDE DEF p
  <2>2. r \in Seq(T) /\ Len(r) = 2 /\ r[1] = c /\ r[2] = d
    BY <1>3
  <2> HIDE DEF r
  <2>3. /\ q \in Seq(T) /\ Len(q) = 2 + 2
        /\ \A i \in 1..2 : q[i] = p[i]
        /\ \A i \in 1..2 : q[2 + i] = r[i]
    <3>1. /\ q \in Seq(T) /\ Len(q) = Len(p) + Len(r)
          /\ \A i \in 1..Len(p) : q[i] = p[i]
          /\ \A i \in 1..Len(r) : q[Len(p) + i] = r[i]
      BY <1>1, <2>1, <2>2
    <3> HIDE DEF q
    <3> QED BY <2>1, <2>2, <3>1
  <2>4. q[2 + 1] = r[1] /\ q[2 + 2] = r[2]
    BY <2>3
  <2>5. q \in Seq(T) /\ Len(q) = 4 /\ q[1] = a /\ q[2] = b /\ q[3] = c /\ q[4] = d
    BY <2>1, <2>2, <2>3, <2>4
  <2> HIDE DEF q
  <2>6. q = <<q[1], q[2], q[3], q[4]>>
    BY <2>5
  <2> QED BY <2>5, <2>6 DEF p, q, r
<1> QED BY <1>4

LEMMA JoinedTwo ==
  ASSUME NEW T, NEW a \in T, NEW b \in T, NEW c \in T, NEW d \in T, NEW e \in T
  PROVE  <<a>> \o <<b, c>> \o <<d, e>> = <<a, b, c, d, e>>
<1>1. \A x, y \in Seq(T) : /\ x \o y \in Seq(T) /\ Len(x \o y) = Len(x) + Len(y)
                           /\ \A i \in 1..Len(x) : (x \o y)[i] = x[i]
                           /\ \A i \in 1..Len(y) : (x \o y)[Len(x) + i] = y[i]
  OBVIOUS
<1>2. \A x \in T : <<x>> \in Seq(T) /\ Len(<<x>>) = 1 /\ <<x>>[1] = x
  OBVIOUS
<1>3. \A x, y \in T : /\ <<x, y>> \in Seq(T) /\ Len(<<x, y>>) = 2
                      /\ <<x, y>>[1] = x /\ <<x, y>>[2] = y
  OBVIOUS
<1>4. <<a>> \o <<b, c>> \o <<d, e>> = <<a, b, c, d, e>>
  <2> DEFINE p == <<a>> \o <<b, c>>
             r == <<d, e>>
             q == p \o r
  <2>1. p \in Seq(T) /\ Len(p) = 3 /\ p[1] = a /\ p[2] = b /\ p[3] = c
    BY <1>1, <1>2, <1>3
  <2> HIDE DEF p
  <2>2. r \in Seq(T) /\ Len(r) = 2 /\ r[1] = d /\ r[2] = e
    BY <1>3
  <2> HIDE DEF r
  <2>3. /\ q \in Seq(T) /\ Len(q) = 3 + 2
        /\ \A i \in 1..3 : q[i] = p[i]
        /\ \A i \in 1..2 : q[3 + i] = r[i]
    <3>1. /\ q \in Seq(T) /\ Len(q) = Len(p) + Len(r)
          /\ \A i \in 1..Len(p) : q[i] = p[i]
          /\ \A i \in 1..Len(r) : q[Len(p) + i] = r[i]
      BY <1>1, <2>1, <2>2
    <3> HIDE DEF q
    <3> QED BY <2>1, <2>2, <3>1
  <2>4. q[3 + 1] = r[1] /\ q[3 + 2] = r[2]
    BY <2>3
  <2>5. q \in Seq(T) /\ Len(q) = 5 /\ q[1] = a /\ q[2] = b /\ q[3] = c /\ q[4] = d /\ q[5] = e
    BY <2>1, <2>2, <2>3, <2>4
  <2> HIDE DEF q
  <2>6. q = <<q[1], q[2], q[3], q[4], q[5]>>
    BY <2>5
  <2> QED BY <2>5, <2>6 DEF p, q, r
<1> QED BY <1>4

-----------------------------------------------------------------------------
(* Merging *)

Msgs == Messages(Texts, Calls)

\* Only what the model said has a call, and only it can be cut short.
LEMMA MessageFields ==
  \A m \in Msgs : /\ m.text \in Texts
                  /\ m.author \in {"env", "llm"} /\ m.lack \in BOOLEAN
                  /\ m.author = "llm" <=> m.tokens \in Calls
                  /\ m.author = "env" => m.tokens = NoCall /\ m.lack = FALSE
BY TrackerAssumption DEF Msgs, Messages

\* What merging makes of a timeline: the texts stay, and what the model said stays.
Refines(line, orig) ==
  /\ Len(line) = Len(orig)
  /\ \A j \in 1..Len(orig) : /\ line[j].text = orig[j].text
                             /\ line[j].lack = orig[j].lack
                             /\ orig[j].author = "llm" => line[j] = orig[j]

\* Mergeable, place by place.
LEMMA MergeableByIndex ==
  ASSUME NEW source \in Seq(Msgs), NEW target \in Seq(Msgs)
  PROVE  Mergeable(source, target) <=>
           /\ Len(source) >= Len(target)
           /\ \A i \in 1..Len(target) : source[i].text = target[i].text
BY DEF Mergeable

\* Toggling changes no text and nothing the model said, and makes the model's all that is
\* the model's in the target.
LEMMA ToggleKeeps ==
  ASSUME NEW source \in Seq(Msgs), NEW target \in Seq(Msgs), Mergeable(source, target)
  PROVE  /\ Toggle(source, target) \in Seq(Msgs)
         /\ Refines(Toggle(source, target), source)
         /\ \A j \in 1..Len(target) :
              target[j].author = "llm" => Toggle(source, target)[j].author = "llm"
         /\ \A j \in 1..Len(source) : Toggle(source, target)[j].author = "llm" =>
              \/ source[j].author = "llm" /\ Toggle(source, target)[j] = source[j]
              \/ /\ j \in 1..Len(target) /\ target[j].author = "llm"
                 /\ Toggle(source, target)[j].tokens = target[j].tokens
<1> DEFINE new == Toggle(source, target)
           Turned(i) == i \in 1..Len(target) /\ target[i].author = "llm" /\ source[i].author # "llm"
<1>1. new = [i \in 1..Len(source) |->
               IF Turned(i) THEN [source[i] EXCEPT !.author = "llm", !.tokens = target[i].tokens]
               ELSE source[i]]
  <2>1. DOMAIN source = 1..Len(source) /\ DOMAIN target = 1..Len(target)
    OBVIOUS
  <2> QED BY <2>1, Zenon DEF Toggle, Turned
<1>2. Len(source) \in Nat /\ Len(target) \in Nat /\ Len(source) >= Len(target)
  BY MergeableByIndex
<1>3. \A i \in 1..Len(source) : source[i] \in Msgs
  OBVIOUS
<1>4. \A i \in 1..Len(target) : target[i] \in Msgs /\ i \in 1..Len(source)
  BY <1>2
<1>5. \A i \in 1..Len(source) :
        Turned(i) => LET t == [source[i] EXCEPT !.author = "llm", !.tokens = target[i].tokens]
                     IN  /\ t \in Msgs /\ t.text = source[i].text /\ t.lack = source[i].lack
                         /\ t.author = "llm" /\ t.tokens = target[i].tokens
  <2> SUFFICES ASSUME NEW i \in 1..Len(source), Turned(i)
               PROVE  LET t == [source[i] EXCEPT !.author = "llm", !.tokens = target[i].tokens]
                      IN  /\ t \in Msgs /\ t.text = source[i].text /\ t.lack = source[i].lack
                          /\ t.author = "llm" /\ t.tokens = target[i].tokens
    OBVIOUS
  <2>1. source[i] \in Msgs /\ target[i] \in Msgs
    BY <1>3, <1>4
  <2>2. target[i].tokens \in Calls /\ source[i].author = "env"
    BY <2>1, MessageFields
  <2> QED BY <2>1, <2>2 DEF Msgs, Messages
<1>6. \A i \in 1..Len(source) : new[i] \in Msgs
  BY <1>1, <1>3, <1>5
<1>7. new \in Seq(Msgs) /\ Len(new) = Len(source)
  <2>1. new \in [1..Len(source) -> Msgs]
    BY <1>1, <1>6
  <2> QED BY <1>2, <2>1, IsSequence
<1>8. \A i \in 1..Len(source) :
        /\ Turned(i) => /\ new[i].text = source[i].text /\ new[i].lack = source[i].lack
                        /\ new[i].author = "llm" /\ new[i].tokens = target[i].tokens
        /\ ~Turned(i) => new[i] = source[i]
  BY <1>1, <1>5
<1> HIDE DEF new
<1>9. Refines(new, source)
  BY <1>7, <1>8 DEF Refines
<1>10. \A j \in 1..Len(target) : target[j].author = "llm" => new[j].author = "llm"
  BY <1>4, <1>8
<1>11. \A j \in 1..Len(source) : new[j].author = "llm" =>
              \/ source[j].author = "llm" /\ new[j] = source[j]
              \/ /\ j \in 1..Len(target) /\ target[j].author = "llm"
                 /\ new[j].tokens = target[j].tokens
  BY <1>8
<1> QED BY <1>7, <1>9, <1>10, <1>11 DEF new

\* How far a merge has come.  Of a timeline tl[i], the texts stay, and what the model
\* said in it is said in one that is not absorbed; nothing else counts as said.
MergeStates(tl) ==
  [lines : {ls \in TimelineLists : Len(ls) = Len(tl)}, absorbed : SUBSET (1..Len(tl))]

Covered(tl, st, i) ==
  \E s \in (1..Len(tl)) \ st.absorbed :
    /\ Mergeable(tl[s], tl[i])
    /\ \A j \in 1..Len(tl[i]) : tl[i][j].author = "llm" => st.lines[s][j].author = "llm"

Origin(tl, s, j, tokens) ==
  \E i \in 1..Len(tl) : /\ j \in 1..Len(tl[i])
                        /\ tl[i][j].author = "llm" /\ tl[i][j].tokens = tokens
                        /\ \A m \in 1..j : tl[i][m].text = tl[s][m].text

\* Two timelines in which the same answer is the model's, and a list in which some of the
\* timelines have no answer in common.
Shares(a, b) ==
  \E i \in 1..Len(a), j \in 1..Len(b) :
    a[i].author = "llm" /\ b[j].author = "llm" /\ a[i].tokens = b[j].tokens
Parted(lines, some) == \A i, j \in some : i # j => ~Shares(lines[i], lines[j])

MergeInv(tl, st) ==
  /\ st \in MergeStates(tl)
  /\ \A i \in 1..Len(tl) : Refines(st.lines[i], tl[i])
  /\ \A i \in 1..Len(tl) : Covered(tl, st, i)
  /\ \A s \in 1..Len(tl) : \A j \in 1..Len(tl[s]) :
       st.lines[s][j].author = "llm" => Origin(tl, s, j, st.lines[s][j].tokens)
  /\ Parted(tl, 1..Len(tl)) => Parted(st.lines, (1..Len(tl)) \ st.absorbed)

\* The two timelines have been looked at together.
Settled(tl, st, s, t) == s \in st.absorbed \/ t \in st.absorbed \/ ~Mergeable(tl[s], tl[t])

\* A continuation of a continuation is one.
LEMMA MergeableTrans ==
  ASSUME NEW a \in Seq(Msgs), NEW b \in Seq(Msgs), NEW c \in Seq(Msgs),
         Mergeable(a, b), Mergeable(b, c)
  PROVE  Mergeable(a, c)
<1>1. Len(a) \in Nat /\ Len(b) \in Nat /\ Len(c) \in Nat
  OBVIOUS
<1>2. Len(a) >= Len(b) /\ \A i \in 1..Len(b) : a[i].text = b[i].text
  BY MergeableByIndex
<1>3. Len(b) >= Len(c) /\ \A i \in 1..Len(c) : b[i].text = c[i].text
  BY MergeableByIndex
<1>4. Len(a) >= Len(c) /\ \A i \in 1..Len(c) : a[i].text = c[i].text
  BY <1>1, <1>2, <1>3
<1> QED BY <1>4, MergeableByIndex

\* Whether one timeline continues another does not change while they are merged.
LEMMA MergeableRefined ==
  ASSUME NEW a \in Seq(Msgs), NEW b \in Seq(Msgs), NEW c \in Seq(Msgs), NEW d \in Seq(Msgs),
         Refines(c, a), Refines(d, b)
  PROVE  Mergeable(c, d) <=> Mergeable(a, b)
<1>1. /\ Len(c) = Len(a) /\ \A j \in 1..Len(a) : c[j].text = a[j].text
      /\ Len(d) = Len(b) /\ \A j \in 1..Len(b) : d[j].text = b[j].text
  BY DEF Refines
<1>2. Len(a) \in Nat /\ Len(b) \in Nat
  OBVIOUS
<1>3. (Len(a) >= Len(b) /\ \A i \in 1..Len(b) : a[i].text = b[i].text)
        <=> (Len(c) >= Len(d) /\ \A i \in 1..Len(d) : c[i].text = d[i].text)
  <2>1. CASE Len(a) >= Len(b)
    <3>1. \A i \in 1..Len(b) : i \in 1..Len(a)
      BY <1>2, <2>1
    <3>2. \A i \in 1..Len(b) : c[i].text = a[i].text /\ d[i].text = b[i].text
      BY <1>1, <3>1
    <3> QED BY <1>1, <2>1, <3>2
  <2>2. CASE ~(Len(a) >= Len(b))
    BY <1>1, <2>2
  <2> QED BY <2>1, <2>2
<1> QED BY <1>3, MergeableByIndex

\* Two timelines that have an answer in common have it either way.
LEMMA SharesBack ==
  ASSUME NEW a, NEW b, Shares(a, b)
  PROVE  Shares(b, a)
BY DEF Shares

\* Of three timelines with nothing in common two may be put together.
LEMMA SharesEither ==
  ASSUME NEW line, NEW a, NEW b, NEW c, Shares(line, c),
         \A i \in 1..Len(line) : line[i].author = "llm" =>
           \/ \E j \in 1..Len(a) : a[j].author = "llm" /\ a[j].tokens = line[i].tokens
           \/ \E j \in 1..Len(b) : b[j].author = "llm" /\ b[j].tokens = line[i].tokens
  PROVE  Shares(a, c) \/ Shares(b, c)
<1>1. PICK i \in 1..Len(line), n \in 1..Len(c) :
        line[i].author = "llm" /\ c[n].author = "llm" /\ line[i].tokens = c[n].tokens
  BY DEF Shares
<1>2. CASE \E j \in 1..Len(a) : a[j].author = "llm" /\ a[j].tokens = line[i].tokens
  BY <1>1, <1>2 DEF Shares
<1>3. CASE \E j \in 1..Len(b) : b[j].author = "llm" /\ b[j].tokens = line[i].tokens
  BY <1>1, <1>3 DEF Shares
<1> QED BY <1>1, <1>2, <1>3

\* One timeline is offered to another.
LEMMA AbsorbKeeps ==
  ASSUME NEW tl \in TimelineLists, NEW st, MergeInv(tl, st),
         NEW s \in 1..Len(tl), NEW t \in 1..Len(tl), s # t
  PROVE  /\ MergeInv(tl, Absorb(st, s, t))
         /\ st.absorbed \subseteq Absorb(st, s, t).absorbed
         /\ Settled(tl, Absorb(st, s, t), s, t)
<1> DEFINE n == Len(tl)
           new == Absorb(st, s, t)
           line == Toggle(st.lines[s], st.lines[t])
<1>1. /\ st.lines \in TimelineLists /\ Len(st.lines) = n /\ st.absorbed \subseteq 1..n
      /\ st = [lines |-> st.lines, absorbed |-> st.absorbed]
  BY DEF MergeInv, MergeStates
<1>2. n \in Nat /\ (\A i \in 1..n : tl[i] \in Seq(Msgs) /\ st.lines[i] \in Seq(Msgs))
  BY <1>1 DEF TimelineLists, Msgs
<1>3. \A i \in 1..n : Refines(st.lines[i], tl[i])
  BY DEF MergeInv
<1>4. Mergeable(st.lines[s], st.lines[t]) <=> Mergeable(tl[s], tl[t])
  BY <1>2, <1>3, MergeableRefined
<1>5. CASE s \in st.absorbed \/ t \in st.absorbed \/ ~Mergeable(st.lines[s], st.lines[t])
  <2>1. new = st
    BY <1>5 DEF Absorb
  <2> QED BY <1>4, <1>5, <2>1 DEF Settled
<1>6. CASE s \notin st.absorbed /\ t \notin st.absorbed /\ Mergeable(st.lines[s], st.lines[t])
  <2>1. new = [lines |-> [st.lines EXCEPT ![s] = line], absorbed |-> st.absorbed \cup {t}]
    BY <1>6 DEF Absorb
  <2>2. /\ line \in Seq(Msgs)
        /\ Refines(line, st.lines[s])
        /\ \A j \in 1..Len(st.lines[t]) : st.lines[t][j].author = "llm" => line[j].author = "llm"
        /\ \A j \in 1..Len(st.lines[s]) : line[j].author = "llm" =>
              \/ st.lines[s][j].author = "llm" /\ line[j] = st.lines[s][j]
              \/ /\ j \in 1..Len(st.lines[t]) /\ st.lines[t][j].author = "llm"
                 /\ line[j].tokens = st.lines[t][j].tokens
    BY <1>2, <1>6, ToggleKeeps
  <2> HIDE DEF line
  <2>3. /\ new.lines \in TimelineLists /\ Len(new.lines) = n
        /\ new.lines[s] = line /\ \A i \in 1..n : i # s => new.lines[i] = st.lines[i]
    BY <1>1, <2>1, <2>2 DEF TimelineLists, Msgs
  <2>4. new.absorbed = st.absorbed \cup {t}
    BY <2>1
  <2>5. new \in MergeStates(tl)
    BY <1>1, <2>1, <2>3, <2>4 DEF MergeStates
  <2> HIDE DEF new
  <2>6. ASSUME NEW i \in 1..n
        PROVE  Refines(new.lines[i], tl[i])
    <3>1. CASE i # s
      BY <1>3, <2>3, <3>1
    <3>2. CASE i = s
      BY <1>3, <2>2, <2>3, <3>2 DEF Refines
    <3> QED BY <3>1, <3>2
  <2>7. ASSUME NEW i \in 1..n
        PROVE  Covered(tl, new, i)
    <3>1. PICK c \in (1..n) \ st.absorbed :
            /\ Mergeable(tl[c], tl[i])
            /\ \A j \in 1..Len(tl[i]) : tl[i][j].author = "llm" => st.lines[c][j].author = "llm"
      BY DEF MergeInv, Covered
    <3>2. CASE c = t
      <4>1. Mergeable(tl[s], tl[i])
        BY <1>2, <1>4, <1>6, <3>1, <3>2, MergeableTrans
      <4>2. Len(tl[i]) <= Len(tl[t]) /\ Len(st.lines[t]) = Len(tl[t])
        BY <1>2, <1>3, <3>1, <3>2, MergeableByIndex DEF Refines
      <4>3. \A j \in 1..Len(tl[i]) : tl[i][j].author = "llm" => line[j].author = "llm"
        BY <1>2, <2>2, <3>1, <3>2, <4>2
      <4>4. s \in (1..n) \ new.absorbed
        BY <1>6, <2>4
      <4> QED BY <2>3, <4>1, <4>3, <4>4 DEF Covered
    <3>3. CASE c = s
      <4>1. \A j \in 1..Len(tl[i]) : tl[i][j].author = "llm" => line[j].author = "llm"
        <5>1. Len(tl[i]) <= Len(tl[s]) /\ Len(st.lines[s]) = Len(tl[s])
          BY <1>2, <1>3, <3>1, <3>3, MergeableByIndex DEF Refines
        <5> QED BY <1>2, <2>2, <3>1, <3>3, <5>1 DEF Refines
      <4>2. s \in (1..n) \ new.absorbed
        BY <1>6, <2>4
      <4> QED BY <2>3, <3>1, <3>3, <4>1, <4>2 DEF Covered
    <3>4. CASE c # s /\ c # t
      <4>1. c \in (1..n) \ new.absorbed /\ new.lines[c] = st.lines[c]
        BY <2>3, <2>4, <3>4
      <4> QED BY <3>1, <4>1 DEF Covered
    <3> QED BY <3>2, <3>3, <3>4
  <2>8. ASSUME NEW i \in 1..n, NEW j \in 1..Len(tl[i]), new.lines[i][j].author = "llm"
        PROVE  Origin(tl, i, j, new.lines[i][j].tokens)
    <3>1. CASE i # s \/ (st.lines[s][j].author = "llm" /\ line[j] = st.lines[s][j])
      <4>1. new.lines[i][j] = st.lines[i][j]
        BY <2>3, <3>1
      <4> QED BY <2>8, <4>1 DEF MergeInv
    <3>2. CASE /\ i = s /\ j \in 1..Len(st.lines[t]) /\ st.lines[t][j].author = "llm"
               /\ line[j].tokens = st.lines[t][j].tokens
      <4>1. j \in 1..Len(tl[t])
        BY <1>3, <3>2 DEF Refines
      <4>2. Origin(tl, t, j, st.lines[t][j].tokens)
        BY <3>2, <4>1 DEF MergeInv
      <4>3. \A m \in 1..j : tl[t][m].text = tl[s][m].text
        <5>1. \A m \in 1..Len(tl[t]) : tl[s][m].text = tl[t][m].text
          BY <1>2, <1>4, <1>6, MergeableByIndex
        <5>2. 1..j \subseteq 1..Len(tl[t])
          BY <1>2, <4>1
        <5> QED BY <5>1, <5>2
      <4> QED BY <2>3, <3>2, <4>2, <4>3 DEF Origin
    <3>3. j \in 1..Len(st.lines[s]) \/ i # s
      BY <1>3 DEF Refines
    <3> QED BY <2>2, <2>3, <2>8, <3>1, <3>2, <3>3
  <2>9. ASSUME Parted(tl, 1..n)
        PROVE  Parted(new.lines, (1..n) \ new.absorbed)
    <3>1. Parted(st.lines, (1..n) \ st.absorbed)
      BY <2>9 DEF MergeInv
    <3>2. ASSUME NEW i \in (1..n) \ new.absorbed, i # s
          PROVE  ~Shares(line, st.lines[i])
      <4>1. i \in (1..n) \ st.absorbed /\ i # t /\ s \in (1..n) \ st.absorbed /\ t \in (1..n) \ st.absorbed
        BY <1>6, <2>4
      <4>2. ~Shares(st.lines[s], st.lines[i]) /\ ~Shares(st.lines[t], st.lines[i])
        BY <3>1, <3>2, <4>1 DEF Parted
      <4>3. Len(line) = Len(st.lines[s])
        BY <2>2 DEF Refines
      <4>4. \A j \in 1..Len(line) : line[j].author = "llm" =>
              \/ \E m \in 1..Len(st.lines[s]) :
                   st.lines[s][m].author = "llm" /\ st.lines[s][m].tokens = line[j].tokens
              \/ \E m \in 1..Len(st.lines[t]) :
                   st.lines[t][m].author = "llm" /\ st.lines[t][m].tokens = line[j].tokens
        BY <2>2, <4>3
      <4> DEFINE a == st.lines[s]
                 b == st.lines[t]
                 c == st.lines[i]
      <4>5. \A j \in 1..Len(line) : line[j].author = "llm" =>
              \/ \E m \in 1..Len(a) : a[m].author = "llm" /\ a[m].tokens = line[j].tokens
              \/ \E m \in 1..Len(b) : b[m].author = "llm" /\ b[m].tokens = line[j].tokens
        BY <4>4
      <4>6. ~Shares(a, c) /\ ~Shares(b, c)
        BY <4>2
      <4> HIDE DEF a, b, c
      <4>7. ~Shares(line, c)
        BY <4>5, <4>6, SharesEither
      <4> QED BY <4>7 DEF c
    <3>3. ASSUME NEW i \in (1..n) \ new.absorbed, NEW j \in (1..n) \ new.absorbed, i # j
          PROVE  ~Shares(new.lines[i], new.lines[j])
      <4>1. CASE i = s
        BY <2>3, <3>2, <3>3, <4>1
      <4>2. CASE j = s
        BY <2>3, <3>2, <3>3, <4>2, SharesBack
      <4>3. CASE i # s /\ j # s
        BY <2>3, <2>4, <3>1, <3>3, <4>3 DEF Parted
      <4> QED BY <4>1, <4>2, <4>3
    <3> QED BY <3>3 DEF Parted
  <2>10. MergeInv(tl, new)
    BY <2>5, <2>6, <2>7, <2>8, <2>9 DEF MergeInv
  <2> QED BY <2>4, <2>10 DEF Settled, new
<1> QED BY <1>5, <1>6

\* A pair that has been offered stays settled.
LEMMA SettledStays ==
  ASSUME NEW tl, NEW st, NEW new, st.absorbed \subseteq new.absorbed,
         NEW s, NEW t, Settled(tl, st, s, t)
  PROVE  Settled(tl, new, s, t)
BY DEF Settled

\* The inner loop.
LEMMA RoundKeeps ==
  ASSUME NEW tl \in TimelineLists, NEW st, MergeInv(tl, st), NEW s \in 1..Len(tl)
  PROVE  /\ MergeInv(tl, Round(st, s))
         /\ st.absorbed \subseteq Round(st, s).absorbed
         /\ \A t \in 1..s - 1 : Settled(tl, Round(st, s), s, t)
<1> DEFINE n == s - 1
           Solves(f) == f = [m \in 0..n |-> IF m = 0 THEN st ELSE Absorb(f[m - 1], s, s - m)]
           offered == CHOOSE f : Solves(f)
           X == {x \in MergeStates(tl) : MergeInv(tl, x)}
           F == [m \in 1..n |-> [x \in X |-> Absorb(x, s, s - m)]]
<1>1. n \in Nat /\ Len(tl) \in Nat /\ s \in Nat
  OBVIOUS
<1>2. \A m \in 1..n : s - m \in 1..Len(tl) /\ s - m # s
  BY <1>1
<1>3. \A x : x \in X <=> MergeInv(tl, x)
  BY DEF MergeInv
<1>4. st \in X
  BY <1>3
<1> HIDE DEF X
<1>5. F \in StepsOn(n, X)
  <2>1. ASSUME NEW x \in X, NEW m \in 1..n
        PROVE  Absorb(x, s, s - m) \in X
    BY <1>2, <1>3, AbsorbKeeps
  <2> QED BY <2>1 DEF StepsOn
<1>6. \E f : Solves(f)
  <2>1. Runs(n, X, st, F) # {}
    <3> HIDE DEF F, n
    <3> QED BY <1>1, <1>4, <1>5, Recursion
  <2>2. PICK f \in [0..n -> X] : f[0] = st /\ \A m \in 1..n : f[m] = F[m][f[m - 1]]
    BY <2>1 DEF Runs
  <2>3. \A m \in 1..n : f[m] = Absorb(f[m - 1], s, s - m)
    <3> TAKE m \in 1..n
    <3>1. m - 1 \in 0..n
      BY <1>1
    <3>2. f[m - 1] \in X
      BY <2>2, <3>1
    <3> QED BY <2>2, <3>2
  <2>4. Solves(f)
    <3>1. \A m \in 0..n : m = 0 \/ m \in 1..n
      BY <1>1
    <3> QED BY <2>2, <2>3, <3>1
  <2> QED BY <2>4
<1>7. Solves(offered)
  BY <1>6
<1>8. Round(st, s) = offered[n]
  BY DEF Round
<1> HIDE DEF offered
<1>9. offered[0] = st /\ \A m \in 1..n : offered[m] = Absorb(offered[m - 1], s, s - m)
  BY <1>1, <1>7
<1> DEFINE Fine(m) == /\ MergeInv(tl, offered[m])
                      /\ st.absorbed \subseteq offered[m].absorbed
                      /\ \A t \in s - m..n : Settled(tl, offered[m], s, t)
           S == {m \in 0..n : Fine(m)}
<1>10. 0 \in S
  BY <1>1, <1>9
<1>11. ASSUME NEW m \in 0..n, m < n, m \in S
       PROVE  m + 1 \in S
  <2>1. m + 1 \in 1..n /\ (m + 1) - 1 = m
    BY <1>1, <1>11
  <2>2. Fine(m)
    BY <1>11
  <2>3. offered[m + 1] = Absorb(offered[m], s, s - (m + 1))
    BY <1>9, <2>1
  <2>4. /\ MergeInv(tl, offered[m + 1])
        /\ offered[m].absorbed \subseteq offered[m + 1].absorbed
        /\ Settled(tl, offered[m + 1], s, s - (m + 1))
    BY <1>2, <2>1, <2>2, <2>3, AbsorbKeeps
  <2>5. \A t \in s - (m + 1)..n : t = s - (m + 1) \/ t \in s - m..n
    BY <1>1
  <2>6. \A t \in s - (m + 1)..n : Settled(tl, offered[m + 1], s, t)
    BY <2>2, <2>4, <2>5, SettledStays
  <2>7. m + 1 \in 0..n
    BY <2>1
  <2> HIDE DEF n
  <2> QED BY <2>2, <2>4, <2>6, <2>7
<1>12. n \in S
  <2> HIDE DEF S
  <2> QED BY <1>1, <1>10, <1>11, UpTo
<1> QED BY <1>1, <1>8, <1>12

\* The invariant of the merge holds before its first round.
LEMMA MergeBegins ==
  ASSUME NEW tl \in TimelineLists
  PROVE  MergeInv(tl, [lines |-> tl, absorbed |-> {}])
<1> DEFINE st == [lines |-> tl, absorbed |-> {}]
<1>1. /\ Len(tl) \in Nat
      /\ \A i \in 1..Len(tl) : tl[i] \in Seq(Msgs) /\ Len(tl[i]) \in Nat
  BY DEF TimelineLists, Msgs
<1>2. st \in MergeStates(tl) /\ st.lines = tl /\ st.absorbed = {}
  BY DEF MergeStates
<1> HIDE DEF st
<1>3. \A i \in 1..Len(tl) : Refines(st.lines[i], tl[i])
  BY <1>2 DEF Refines
<1>4. \A i \in 1..Len(tl) : Covered(tl, st, i)
  BY <1>1, <1>2, MergeableByIndex DEF Covered
<1>5. \A s \in 1..Len(tl) : \A j \in 1..Len(tl[s]) :
        st.lines[s][j].author = "llm" => Origin(tl, s, j, st.lines[s][j].tokens)
  BY <1>2 DEF Origin
<1>6. (1..Len(tl)) \ st.absorbed = 1..Len(tl)
  BY <1>2
<1> QED BY <1>2, <1>3, <1>4, <1>5, <1>6 DEF MergeInv, st

\* The outer loop: every pair of timelines has been looked at together.
LEMMA AbsorbedMeets ==
  ASSUME NEW tl \in TimelineLists
  PROVE  /\ MergeInv(tl, Absorbed(tl))
         /\ \A s \in 1..Len(tl) : \A t \in 1..s - 1 : Settled(tl, Absorbed(tl), s, t)
<1> DEFINE n == Len(tl)
           st == [lines |-> tl, absorbed |-> {}]
           Solves(f) == f = [i \in 0..n |-> IF i = 0 THEN st ELSE Round(f[i - 1], n + 1 - i)]
           visited == CHOOSE f : Solves(f)
           X == {x \in MergeStates(tl) : MergeInv(tl, x)}
           F == [i \in 1..n |-> [x \in X |-> Round(x, n + 1 - i)]]
<1>1. n \in Nat /\ \A i \in 1..n : n + 1 - i \in 1..n
  BY DEF TimelineLists
<1>2. \A x : x \in X <=> MergeInv(tl, x)
  BY DEF MergeInv
<1>3. st \in X
  BY <1>2, MergeBegins
<1> HIDE DEF X
<1>4. F \in StepsOn(n, X)
  <2>1. ASSUME NEW x \in X, NEW i \in 1..n
        PROVE  Round(x, n + 1 - i) \in X
    BY <1>1, <1>2, RoundKeeps
  <2> QED BY <2>1 DEF StepsOn
<1>5. \E f : Solves(f)
  <2>1. Runs(n, X, st, F) # {}
    <3> HIDE DEF F, n, st
    <3> QED BY <1>1, <1>3, <1>4, Recursion
  <2>2. PICK f \in [0..n -> X] : f[0] = st /\ \A i \in 1..n : f[i] = F[i][f[i - 1]]
    BY <2>1 DEF Runs
  <2>3. \A i \in 1..n : f[i] = Round(f[i - 1], n + 1 - i)
    <3> TAKE i \in 1..n
    <3>1. i - 1 \in 0..n
      BY <1>1
    <3>2. f[i - 1] \in X
      BY <2>2, <3>1
    <3> QED BY <2>2, <3>2
  <2>4. Solves(f)
    <3>1. \A i \in 0..n : i = 0 \/ i \in 1..n
      BY <1>1
    <3> QED BY <2>2, <2>3, <3>1
  <2> QED BY <2>4
<1>6. Solves(visited)
  BY <1>5
<1>7. Absorbed(tl) = visited[n]
  BY DEF Absorbed
<1> HIDE DEF visited
<1>8. visited[0] = st /\ \A i \in 1..n : visited[i] = Round(visited[i - 1], n + 1 - i)
  <2> HIDE DEF n, st
  <2>1. 0 \in 0..n /\ \A i \in 1..n : i \in 0..n /\ i # 0
    BY <1>1
  <2> QED BY <1>6, <2>1
<1> DEFINE Fine(i) == /\ MergeInv(tl, visited[i])
                      /\ \A s \in n + 1 - i..n : \A t \in 1..s - 1 : Settled(tl, visited[i], s, t)
           S == {i \in 0..n : Fine(i)}
<1>9. 0 \in S
  <2>1. MergeInv(tl, visited[0])
    BY <1>8, MergeBegins
  <2>2. 0 \in 0..n /\ n + 1 - 0..n = {}
    BY <1>1
  <2> QED BY <2>1, <2>2
<1>10. ASSUME NEW i \in 0..n, i < n, i \in S
       PROVE  i + 1 \in S
  <2>1. i + 1 \in 1..n /\ (i + 1) - 1 = i /\ i + 1 \in 0..n
    BY <1>1, <1>10
  <2>2. Fine(i)
    BY <1>10
  <2>3. visited[i + 1] = Round(visited[i], n + 1 - (i + 1))
    BY <1>8, <2>1
  <2>4. /\ MergeInv(tl, visited[i + 1])
        /\ visited[i].absorbed \subseteq visited[i + 1].absorbed
        /\ \A t \in 1..(n + 1 - (i + 1)) - 1 : Settled(tl, visited[i + 1], n + 1 - (i + 1), t)
    BY <1>1, <2>1, <2>2, <2>3, RoundKeeps
  <2>5. \A s \in n + 1 - (i + 1)..n : s = n + 1 - (i + 1) \/ s \in n + 1 - i..n
    BY <1>1
  <2>6. \A s \in n + 1 - (i + 1)..n : \A t \in 1..s - 1 : Settled(tl, visited[i + 1], s, t)
    BY <2>2, <2>4, <2>5, SettledStays
  <2> HIDE DEF n
  <2> QED BY <2>1, <2>4, <2>6
<1>11. n \in S
  <2> HIDE DEF S, n
  <2> QED BY <1>1, <1>9, <1>10, UpTo
<1>12. Fine(n) /\ n + 1 - n = 1
  BY <1>1, <1>11
<1> QED BY <1>7, <1>12

\* The timelines that are left: those not absorbed, each once and in their order.
LEMMA UnabsorbedPicks ==
  ASSUME NEW tl \in TimelineLists, NEW st, st \in MergeStates(tl)
  PROVE  /\ Unabsorbed(st) \in TimelineLists
         /\ \E g \in [1..Len(Unabsorbed(st)) -> (1..Len(tl)) \ st.absorbed] :
              /\ \A a \in 1..Len(Unabsorbed(st)) : Unabsorbed(st)[a] = st.lines[g[a]]
              /\ \A a, b \in 1..Len(Unabsorbed(st)) : a < b => g[a] < g[b]
              /\ \A i \in (1..Len(tl)) \ st.absorbed :
                   \E a \in 1..Len(Unabsorbed(st)) : g[a] = i
<1> DEFINE n == Len(st.lines)
           Next1(x, i) == IF i \in st.absorbed THEN x ELSE Append(x, st.lines[i])
           Solves(f) == f = [i \in 0..n |-> IF i = 0 THEN <<>>
                                            ELSE IF i \in st.absorbed THEN f[i - 1]
                                            ELSE Append(f[i - 1], st.lines[i])]
           kept == CHOOSE f : Solves(f)
           X == TimelineLists
           F == [i \in 1..n |-> [x \in X |-> Next1(x, i)]]
<1>1. n \in Nat /\ n = Len(tl) /\ st.lines \in TimelineLists
  BY DEF MergeStates, TimelineLists
<1>2. \A i \in 1..n : st.lines[i] \in Seq(Msgs)
  BY <1>1 DEF TimelineLists, Msgs
<1>3. <<>> \in X
  BY DEF TimelineLists
<1>4. ASSUME NEW x \in X, NEW i \in 1..n
      PROVE  Next1(x, i) \in X
  BY <1>2 DEF TimelineLists, Msgs
<1> HIDE DEF X
<1>5. F \in StepsOn(n, X)
  BY <1>4 DEF StepsOn
<1>6. \E f : Solves(f)
  <2>1. Runs(n, X, <<>>, F) # {}
    <3> HIDE DEF F, n
    <3> QED BY <1>1, <1>3, <1>5, Recursion
  <2>2. PICK f \in [0..n -> X] : f[0] = <<>> /\ \A i \in 1..n : f[i] = F[i][f[i - 1]]
    BY <2>1 DEF Runs
  <2>3. \A i \in 1..n : f[i] = Next1(f[i - 1], i)
    <3> TAKE i \in 1..n
    <3>1. i - 1 \in 0..n
      BY <1>1
    <3>2. f[i - 1] \in X
      BY <2>2, <3>1
    <3> QED BY <2>2, <3>2
  <2>4. Solves(f)
    <3>1. \A i \in 0..n : i = 0 \/ i \in 1..n
      BY <1>1
    <3> QED BY <2>2, <2>3, <3>1
  <2> QED BY <2>4
<1>7. Solves(kept)
  BY <1>6
<1>8. Unabsorbed(st) = kept[n]
  BY DEF Unabsorbed
<1> HIDE DEF kept
<1>9. kept[0] = <<>> /\ \A i \in 1..n : kept[i] = Next1(kept[i - 1], i)
  <2> HIDE DEF n
  <2>1. 0 \in 0..n /\ \A i \in 1..n : i \in 0..n /\ i # 0
    BY <1>1
  <2> QED BY <1>7, <2>1
<1> HIDE DEF Next1
<1> DEFINE Picks(i, g) ==
             /\ g \in [1..Len(kept[i]) -> (1..i) \ st.absorbed]
             /\ \A a \in 1..Len(kept[i]) : kept[i][a] = st.lines[g[a]]
             /\ \A a, b \in 1..Len(kept[i]) : a < b => g[a] < g[b]
             /\ \A k \in (1..i) \ st.absorbed : \E a \in 1..Len(kept[i]) : g[a] = k
           Fine(i) == /\ kept[i] \in X
                      /\ \E g : Picks(i, g)
           S == {i \in 0..n : Fine(i)}
<1>10. 0 \in S
  <2>1. kept[0] \in X /\ Len(kept[0]) = 0 /\ 1..0 = {}
    BY <1>3, <1>9
  <2> DEFINE g == [a \in {} |-> 0]
  <2>2. Picks(0, g)
    BY <2>1
  <2> HIDE DEF Picks, n
  <2>3. Fine(0)
    BY <2>1, <2>2
  <2>4. 0 \in 0..n
    BY <1>1
  <2> QED BY <2>3, <2>4
<1>11. ASSUME NEW i \in 0..n, i < n, i \in S
       PROVE  i + 1 \in S
  <2>1. i \in Nat /\ i + 1 \in 1..n /\ (i + 1) - 1 = i /\ i + 1 \in 0..n
    BY <1>1, <1>11
  <2>2. kept[i + 1] = Next1(kept[i], i + 1) /\ kept[i] \in X /\ kept[i + 1] \in X
    BY <1>4, <1>9, <1>11, <2>1
  <2>3. PICK g : Picks(i, g)
    BY <1>11
  <2>4. Len(kept[i]) \in Nat
    BY <2>2 DEF X, TimelineLists
  <2>5. CASE i + 1 \in st.absorbed
    <3>1. kept[i + 1] = kept[i]
      BY <2>2, <2>5 DEF Next1
    <3>2. (1..i + 1) \ st.absorbed = (1..i) \ st.absorbed
      BY <2>1, <2>5
    <3>3. Picks(i + 1, g)
      BY <2>3, <3>1, <3>2
    <3> HIDE DEF Picks, n
    <3> QED BY <2>1, <2>2, <3>3
  <2>6. CASE i + 1 \notin st.absorbed
    <3> DEFINE m == Len(kept[i]) + 1
               h == [a \in 1..m |-> IF a = m THEN i + 1 ELSE g[a]]
    <3>1. kept[i + 1] = Append(kept[i], st.lines[i + 1])
      BY <2>2, <2>6 DEF Next1
    <3>2. /\ Len(kept[i + 1]) = m /\ kept[i + 1][m] = st.lines[i + 1]
          /\ \A a \in 1..Len(kept[i]) : kept[i + 1][a] = kept[i][a]
      <4>1. kept[i] \in Seq(Seq(Msgs)) /\ st.lines[i + 1] \in Seq(Msgs)
        BY <1>2, <2>1, <2>2 DEF X, TimelineLists, Msgs
      <4> HIDE DEF n
      <4> QED BY <3>1, <4>1
    <3>3. h \in [1..m -> (1..i + 1) \ st.absorbed]
      <4>1. \A a \in 1..Len(kept[i]) : g[a] \in (1..i) \ st.absorbed
        BY <2>3
      <4>2. (1..i) \subseteq 1..i + 1 /\ i + 1 \in 1..i + 1
        BY <2>1
      <4>3. \A a \in 1..m : a # m => a \in 1..Len(kept[i])
        BY <2>4
      <4> HIDE DEF m, n, Picks
      <4> QED BY <2>6, <4>1, <4>2, <4>3
    <3>4. h[m] = i + 1 /\ \A a \in 1..Len(kept[i]) : h[a] = g[a]
      BY <2>4
    <3>5. \A a \in 1..m : a = m \/ a \in 1..Len(kept[i])
      BY <2>4
    <3>6. 1..Len(kept[i]) \subseteq 1..m /\ m \in 1..m
      BY <2>4
    <3> HIDE DEF h
    <3>7. \A a \in 1..m : kept[i + 1][a] = st.lines[h[a]]
      BY <2>3, <3>2, <3>4, <3>5
    <3>8. \A a, b \in 1..m : a < b => h[a] < h[b]
      <4> SUFFICES ASSUME NEW a \in 1..m, NEW b \in 1..m, a < b
                   PROVE  h[a] < h[b]
        OBVIOUS
      <4>1. a \in 1..Len(kept[i]) /\ g[a] \in 1..i
        <5>1. a \in 1..Len(kept[i])
          BY <2>4
        <5> QED BY <2>3, <5>1
      <4>2. CASE b = m
        BY <2>1, <3>4, <4>1, <4>2
      <4>3. CASE b \in 1..Len(kept[i])
        BY <2>3, <3>4, <4>1, <4>3
      <4> QED BY <3>5, <4>2, <4>3
    <3>9. \A k \in (1..i + 1) \ st.absorbed : \E a \in 1..m : h[a] = k
      <4> TAKE k \in (1..i + 1) \ st.absorbed
      <4>1. k = i + 1 \/ k \in (1..i) \ st.absorbed
        BY <2>1
      <4>2. CASE k = i + 1
        BY <3>4, <3>6, <4>2
      <4>3. CASE k \in (1..i) \ st.absorbed
        BY <2>3, <3>4, <3>6, <4>3
      <4> QED BY <4>1, <4>2, <4>3
    <3>10. Picks(i + 1, h)
      BY <3>2, <3>3, <3>7, <3>8, <3>9
    <3> HIDE DEF Picks, n
    <3> QED BY <2>1, <2>2, <3>10
  <2> QED BY <2>5, <2>6
<1>12. n \in S
  <2> HIDE DEF S, n
  <2>1. \A i \in 0..n : i \in S
    BY <1>1, <1>10, <1>11, UpTo
  <2>2. n \in 0..n
    BY <1>1
  <2> QED BY <2>1, <2>2
<1>13. kept[n] \in X /\ \E g : Picks(n, g)
  <2> HIDE DEF Picks, n
  <2> QED BY <1>12
<1> DEFINE left == Unabsorbed(st)
<1>14. PICK g : /\ g \in [1..Len(left) -> (1..n) \ st.absorbed]
                /\ \A a \in 1..Len(left) : left[a] = st.lines[g[a]]
                /\ \A a, b \in 1..Len(left) : a < b => g[a] < g[b]
                /\ \A k \in (1..n) \ st.absorbed : \E a \in 1..Len(left) : g[a] = k
  <2> HIDE DEF n
  <2> QED BY <1>8, <1>13
<1>15. left \in TimelineLists
  BY <1>8, <1>13 DEF X
<1> HIDE DEF left, n
<1> QED BY <1>1, <1>14, <1>15 DEF left

\* What the model said in orig, it said in line too, after the same texts.
Holds(line, orig) ==
  /\ Mergeable(line, orig)
  /\ \A j \in 1..Len(orig) : orig[j].author = "llm" => line[j].author = "llm"

\* This call is the model's in one of the timelines, at this place and after these texts.
SaidIn(tl, line, j) ==
  \E i \in 1..Len(tl) : /\ j \in 1..Len(tl[i])
                        /\ tl[i][j].author = "llm" /\ tl[i][j].tokens = line[j].tokens
                        /\ \A m \in 1..j : tl[i][m].text = line[m].text

\* What a merge promises.
MergedFrom(tl, merged) ==
  /\ \E g \in [1..Len(merged) -> 1..Len(tl)] :
       /\ \A a \in 1..Len(merged) : Refines(merged[a], tl[g[a]])
       /\ \A a, b \in 1..Len(merged) : a < b => g[a] < g[b]
  /\ \A i \in 1..Len(tl) : \E a \in 1..Len(merged) : Holds(merged[a], tl[i])
  /\ \A a \in 1..Len(merged) : \A j \in 1..Len(merged[a]) :
       merged[a][j].author = "llm" => SaidIn(tl, merged[a], j)
  /\ \A a, b \in 1..Len(merged) : a < b => ~Mergeable(merged[b], merged[a])
  /\ Parted(tl, 1..Len(tl)) => Parted(merged, 1..Len(merged))

\* merge_tracker_timelines, for every list of timelines: what is left are timelines of the
\* list with the same texts, in the same order; every timeline is the beginning of one that
\* is left, with all the model said in it still the model's; what is the model's in one that
\* is left was so in some timeline after the same texts; none that is left continues an earlier
\* one; and no answer is in two that are left if it was in one only.
THEOREM MergeMeets ==
  ASSUME NEW tl \in TimelineLists
  PROVE  /\ merge_tracker_timelines(tl) \in TimelineLists
         /\ MergedFrom(tl, merge_tracker_timelines(tl))
<1> DEFINE st == Absorbed(tl)
           merged == merge_tracker_timelines(tl)
           Left == (1..Len(tl)) \ st.absorbed
<1>1. /\ MergeInv(tl, st)
      /\ \A s \in 1..Len(tl) : \A t \in 1..s - 1 : Settled(tl, st, s, t)
  BY AbsorbedMeets
<1>2. merged = Unabsorbed(st)
  BY DEF merge_tracker_timelines
<1> HIDE DEF st, merged
<1>3. st \in MergeStates(tl)
  BY <1>1 DEF MergeInv
<1>4. /\ merged \in TimelineLists
      /\ \E g \in [1..Len(merged) -> Left] :
              /\ \A a \in 1..Len(merged) : merged[a] = st.lines[g[a]]
              /\ \A a, b \in 1..Len(merged) : a < b => g[a] < g[b]
              /\ \A i \in Left : \E a \in 1..Len(merged) : g[a] = i
  BY <1>2, <1>3, UnabsorbedPicks
<1>5. PICK g \in [1..Len(merged) -> Left] :
              /\ \A a \in 1..Len(merged) : merged[a] = st.lines[g[a]]
              /\ \A a, b \in 1..Len(merged) : a < b => g[a] < g[b]
              /\ \A i \in Left : \E a \in 1..Len(merged) : g[a] = i
  BY <1>4
<1>6. \A a \in 1..Len(merged) : g[a] \in Left /\ g[a] \in 1..Len(tl) /\ g[a] \in Nat
  OBVIOUS
<1>7. \A i \in 1..Len(tl) : Refines(st.lines[i], tl[i])
  BY <1>1 DEF MergeInv
<1>8. /\ \A i \in 1..Len(tl) : tl[i] \in Seq(Msgs)
      /\ \A a \in 1..Len(merged) : merged[a] \in Seq(Msgs)
  BY <1>4 DEF TimelineLists, Msgs
<1>9. \A a \in 1..Len(merged) : Refines(merged[a], tl[g[a]])
  BY <1>5, <1>6, <1>7
<1>10. \E h \in [1..Len(merged) -> 1..Len(tl)] :
         /\ \A a \in 1..Len(merged) : Refines(merged[a], tl[h[a]])
         /\ \A a, b \in 1..Len(merged) : a < b => h[a] < h[b]
  <2>1. g \in [1..Len(merged) -> 1..Len(tl)]
    OBVIOUS
  <2> QED BY <1>5, <1>9, <2>1
<1>11. ASSUME NEW i \in 1..Len(tl)
       PROVE  \E a \in 1..Len(merged) : Holds(merged[a], tl[i])
  <2>1. PICK s \in Left : /\ Mergeable(tl[s], tl[i])
                          /\ \A j \in 1..Len(tl[i]) :
                               tl[i][j].author = "llm" => st.lines[s][j].author = "llm"
    BY <1>1 DEF MergeInv, Covered
  <2>2. PICK a \in 1..Len(merged) : g[a] = s
    BY <1>5
  <2>3. merged[a] = st.lines[s] /\ Refines(merged[a], tl[s])
    BY <1>5, <1>9, <2>2
  <2>4. Refines(tl[i], tl[i])
    BY DEF Refines
  <2>5. Mergeable(merged[a], tl[i])
    BY <1>8, <2>1, <2>3, <2>4, MergeableRefined
  <2> QED BY <2>1, <2>3, <2>5 DEF Holds
<1>12. ASSUME NEW a \in 1..Len(merged), NEW j \in 1..Len(merged[a]),
              merged[a][j].author = "llm"
       PROVE  SaidIn(tl, merged[a], j)
  <2>1. j \in 1..Len(tl[g[a]]) /\ \A m \in 1..Len(tl[g[a]]) : merged[a][m].text = tl[g[a]][m].text
    BY <1>9 DEF Refines
  <2>2. Origin(tl, g[a], j, merged[a][j].tokens)
    <3>1. merged[a] = st.lines[g[a]] /\ g[a] \in 1..Len(tl)
      BY <1>5, <1>6
    <3>2. st.lines[g[a]][j].author = "llm" => Origin(tl, g[a], j, st.lines[g[a]][j].tokens)
      BY <1>1, <2>1, <3>1 DEF MergeInv
    <3> HIDE DEF Left
    <3> QED BY <1>12, <3>1, <3>2
  <2>3. Len(tl[g[a]]) \in Nat
    BY <1>6, <1>8
  <2>4. \A m \in 1..j : m \in 1..Len(tl[g[a]])
    BY <2>1, <2>3
  <2> QED BY <2>1, <2>2, <2>4 DEF Origin, SaidIn
<1>13. ASSUME NEW a \in 1..Len(merged), NEW b \in 1..Len(merged), a < b
       PROVE  ~Mergeable(merged[b], merged[a])
  <2>1. g[a] < g[b] /\ g[a] \in 1..g[b] - 1
    BY <1>5, <1>6, <1>13
  <2>2. ~Mergeable(tl[g[b]], tl[g[a]])
    BY <1>1, <1>6, <2>1 DEF Settled
  <2> QED BY <1>6, <1>8, <1>9, <2>2, MergeableRefined
<1>14. ASSUME Parted(tl, 1..Len(tl))
       PROVE  Parted(merged, 1..Len(merged))
  <2>1. Parted(st.lines, Left)
    BY <1>1, <1>14 DEF MergeInv
  <2>2. ASSUME NEW a \in 1..Len(merged), NEW b \in 1..Len(merged), a # b
        PROVE  ~Shares(merged[a], merged[b])
    <3>1. g[a] \in Left /\ g[b] \in Left /\ g[a] # g[b]
      <4>1. a < b \/ b < a
        BY <2>2
      <4> QED BY <1>5, <1>6, <4>1
    <3> QED BY <1>5, <2>1, <3>1 DEF Parted
  <2> QED BY <2>2 DEF Parted
<1> QED BY <1>4, <1>10, <1>11, <1>12, <1>13, <1>14 DEF MergedFrom, merged

\* Who still holds the list sees every timeline with its texts, and nothing made up.
LEMMA MergeInPlaceMeets ==
  ASSUME NEW tl \in TimelineLists
  PROVE  /\ MergedInPlace(tl) \in TimelineLists
         /\ Len(MergedInPlace(tl)) = Len(tl)
         /\ \A i \in 1..Len(tl) : Refines(MergedInPlace(tl)[i], tl[i])
         /\ \A a \in 1..Len(tl) : \A j \in 1..Len(MergedInPlace(tl)[a]) :
              MergedInPlace(tl)[a][j].author = "llm" => SaidIn(tl, MergedInPlace(tl)[a], j)
<1> DEFINE st == Absorbed(tl)
<1>1. MergeInv(tl, st)
  BY AbsorbedMeets
<1> HIDE DEF st
<1>2. st.lines \in TimelineLists /\ Len(st.lines) = Len(tl)
  BY <1>1 DEF MergeInv, MergeStates
<1>3. \A i \in 1..Len(tl) : Refines(st.lines[i], tl[i])
  BY <1>1 DEF MergeInv
<1>4. ASSUME NEW a \in 1..Len(tl), NEW j \in 1..Len(st.lines[a]), st.lines[a][j].author = "llm"
      PROVE  SaidIn(tl, st.lines[a], j)
  <2>1. j \in 1..Len(tl[a]) /\ \A m \in 1..Len(tl[a]) : st.lines[a][m].text = tl[a][m].text
    BY <1>3 DEF Refines
  <2>2. Origin(tl, a, j, st.lines[a][j].tokens)
    BY <1>1, <1>4, <2>1 DEF MergeInv
  <2>3. tl[a] \in Seq(Msgs)
    BY DEF TimelineLists, Msgs
  <2>4. \A m \in 1..j : m \in 1..Len(tl[a])
    BY <2>1, <2>3
  <2> QED BY <2>1, <2>2, <2>4 DEF Origin, SaidIn
<1> QED BY <1>2, <1>3, <1>4 DEF MergedInPlace, st

-----------------------------------------------------------------------------
(* The timelines of the tracker.  The calls are a parameter of these        *)
(* definitions, so that they can be compared before and after a step.       *)

LastCall(line) == line[Len(line)].tokens

\* What the model says in the j-th message is its reply to a call, after the call's
\* prompt.
SaidAs(c, line, j) ==
  LET k == line[j].tokens
  IN  /\ c[k].serve = "replied" /\ c[k].info = "safe"
      /\ Len(c[k].prompt) = j - 1 /\ c[k].reply = line[j].text
      /\ \A m \in 1..j - 1 : line[m].text = c[k].prompt[m]

\* A timeline begins with what the model was asked and ends with what it said.
GoodLine(c, line) ==
  /\ Len(line) >= 2
  /\ line[1].author = "env" /\ line[Len(line)].author = "llm"
  /\ \A j \in 1..Len(line) : /\ line[j].lack => line[j].text \in CutShort
                             /\ line[j].author = "llm" => SaidAs(c, line, j)

\* No call is at the end of two timelines.
GoodLines(c, lines) ==
  /\ lines \in TimelineLists
  /\ \A i \in 1..Len(lines) : GoodLine(c, lines[i])
  /\ \A i, j \in 1..Len(lines) : i # j => LastCall(lines[i]) # LastCall(lines[j])

OwnedLine(c, n, line) ==
  \A j \in 1..Len(line) : line[j].author = "llm" => c[line[j].tokens].claim = n
OwnedLines(c, n, lines) == \A i \in 1..Len(lines) : OwnedLine(c, n, lines[i])

\* Nothing but the last message is the model's, as it is before any merge.
Fresh(line) == \A j \in 1..Len(line) - 1 : line[j].author # "llm"
FreshLines(lines) == \A i \in 1..Len(lines) : Fresh(lines[i])

\* LearnedIn, message by message.
LearnedAt(c, k, line) ==
  LET n == Len(c[k].prompt)
  IN  /\ Len(line) > n
      /\ \A m \in 1..n : line[m].text = c[k].prompt[m]
      /\ line[n + 1].text = c[k].reply
      /\ line[n + 1].author = "llm"
LearnedOf(c, k, lines) == \E i \in 1..Len(lines) : LearnedAt(c, k, lines[i])

CallSet == [Calls -> [claim : Nat, prompt : Seq(Texts), reply : Replies \cup {"none", "overflow"},
                      wait : Waits, serve : Serves, info : Infos]]

\* A call that has been replied to stays as it is, but for the answer on its way.
Grows(c, d) ==
  \A k \in Calls : c[k].serve = "replied" =>
    /\ d[k].serve = "replied" /\ d[k].info = c[k].info /\ d[k].claim = c[k].claim
    /\ d[k].prompt = c[k].prompt /\ d[k].reply = c[k].reply

\* The timelines of a list are sequences of messages.
LEMMA LinesOf ==
  \A lines \in TimelineLists :
    /\ Len(lines) \in Nat
    /\ \A i \in 1..Len(lines) : /\ lines[i] \in Seq(Msgs) /\ Len(lines[i]) \in Nat
                                /\ \A j \in 1..Len(lines[i]) : lines[i][j] \in Msgs
BY DEF TimelineLists, Msgs

\* A good timeline stays good when calls go on.
LEMMA GrowsKeepsLine ==
  ASSUME NEW c, NEW d, Grows(c, d), NEW line \in Seq(Msgs), GoodLine(c, line)
  PROVE  /\ GoodLine(d, line)
         /\ \A n : OwnedLine(c, n, line) => OwnedLine(d, n, line)
<1>1. ASSUME NEW j \in 1..Len(line), line[j].author = "llm"
      PROVE  /\ SaidAs(d, line, j)
             /\ d[line[j].tokens].claim = c[line[j].tokens].claim
  <2>1. line[j].tokens \in Calls
    BY <1>1, MessageFields
  <2>2. SaidAs(c, line, j)
    BY <1>1 DEF GoodLine
  <2> QED BY <2>1, <2>2 DEF SaidAs, Grows
<1> QED BY <1>1 DEF GoodLine, OwnedLine

\* And so do good lists.
LEMMA GrowsKeepsLines ==
  ASSUME NEW c, NEW d, Grows(c, d), NEW lines, GoodLines(c, lines)
  PROVE  /\ GoodLines(d, lines)
         /\ \A n : OwnedLines(c, n, lines) => OwnedLines(d, n, lines)
         /\ \A k \in Calls : c[k].serve = "replied" /\ LearnedOf(c, k, lines) => LearnedOf(d, k, lines)
<1>1. lines \in TimelineLists /\ \A i \in 1..Len(lines) : lines[i] \in Seq(Msgs) /\ GoodLine(c, lines[i])
  BY LinesOf DEF GoodLines
<1>2. \A i \in 1..Len(lines) : GoodLine(d, lines[i])
  BY <1>1, GrowsKeepsLine
<1>3. GoodLines(d, lines)
  BY <1>1, <1>2 DEF GoodLines
<1>4. \A n : OwnedLines(c, n, lines) => OwnedLines(d, n, lines)
  BY <1>1, GrowsKeepsLine DEF OwnedLines
<1>5. \A k \in Calls : c[k].serve = "replied" /\ LearnedOf(c, k, lines) => LearnedOf(d, k, lines)
  <2> SUFFICES ASSUME NEW k \in Calls, c[k].serve = "replied", LearnedOf(c, k, lines)
               PROVE  LearnedOf(d, k, lines)
    OBVIOUS
  <2>1. d[k].prompt = c[k].prompt /\ d[k].reply = c[k].reply
    BY DEF Grows
  <2> QED BY <2>1 DEF LearnedOf, LearnedAt
<1> QED BY <1>3, <1>4, <1>5

\* Two lines of the tracker never end with the same call, so there are no more of them
\* than calls.
LEMMA LinesBounded ==
  ASSUME NEW c, NEW lines, GoodLines(c, lines)
  PROVE  Len(lines) \in 0..Cardinality(Calls)
<1> DEFINE n == Len(lines)
           f == [i \in 1..n |-> LastCall(lines[i])]
<1>1. n \in Nat /\ \A i \in 1..n : lines[i] \in Seq(Msgs) /\ GoodLine(c, lines[i])
  BY LinesOf DEF GoodLines
<1>2. \A i \in 1..n : LastCall(lines[i]) \in Calls
  <2> TAKE i \in 1..n
  <2>1. lines[i][Len(lines[i])] \in Msgs /\ lines[i][Len(lines[i])].author = "llm"
    BY <1>1 DEF GoodLine
  <2> QED BY <2>1, MessageFields DEF LastCall
<1>3. \A i, j \in 1..n : i # j => LastCall(lines[i]) # LastCall(lines[j])
  BY DEF GoodLines
<1> HIDE DEF n
<1>4. f \in Injection(1..n, Calls)
  BY <1>2, <1>3 DEF Injection, IsInjective
<1>5. Cardinality(1..n) <= Cardinality(Calls)
  BY <1>4, FS_Injection, TrackerAssumption
<1>6. Cardinality(1..n) = n
  BY <1>1, FS_Interval
<1>7. Cardinality(Calls) \in Nat
  BY FS_CardinalityType, TrackerAssumption
<1> QED BY <1>1, <1>5, <1>6, <1>7 DEF n

\* Timelines that have not been merged have no answer in common.
LEMMA FreshParted ==
  ASSUME NEW c, NEW lines, GoodLines(c, lines), FreshLines(lines)
  PROVE  Parted(lines, 1..Len(lines))
<1> SUFFICES ASSUME NEW a \in 1..Len(lines), NEW b \in 1..Len(lines), a # b, Shares(lines[a], lines[b])
             PROVE  FALSE
  BY DEF Parted
<1>1. \A i \in 1..Len(lines) : \A j \in 1..Len(lines[i]) : lines[i][j].author = "llm" => j = Len(lines[i])
  <2> SUFFICES ASSUME NEW i \in 1..Len(lines), NEW j \in 1..Len(lines[i]), j # Len(lines[i])
               PROVE  lines[i][j].author # "llm"
    OBVIOUS
  <2>1. Len(lines[i]) \in Nat
    BY LinesOf DEF GoodLines
  <2>2. j \in 1..Len(lines[i]) - 1
    BY <2>1
  <2> QED BY <2>2 DEF FreshLines, Fresh
<1>2. PICK i \in 1..Len(lines[a]), j \in 1..Len(lines[b]) :
        /\ lines[a][i].author = "llm" /\ lines[b][j].author = "llm"
        /\ lines[a][i].tokens = lines[b][j].tokens
  BY DEF Shares
<1>3. LastCall(lines[a]) = LastCall(lines[b])
  BY <1>1, <1>2 DEF LastCall
<1> QED BY <1>3 DEF GoodLines

\* A good timeline has a message to train on, and one before it.
LEMMA LineTokenizable ==
  ASSUME NEW c, NEW line \in Seq(Msgs), GoodLine(c, line)
  PROVE  /\ Tokenizable(line)
         /\ FirstTrained(line) \in 1..Len(line) /\ line[FirstTrained(line)].author = "llm"
         /\ \A i \in 1..FirstTrained(line) - 1 : line[i].author # "llm"
<1> DEFINE said == {i \in DOMAIN line : line[i].author = "llm"}
<1>1. Len(line) \in Nat /\ DOMAIN line = 1..Len(line)
  OBVIOUS
<1>2. said \subseteq Nat /\ said # {} /\ 1 \notin said
  BY <1>1 DEF GoodLine
<1>3. Min(said) \in said /\ \A m \in said : Min(said) <= m
  <2> HIDE DEF said
  <2> QED BY <1>2, MinIsLeast
<1>4. FirstTrained(line) = Min(said)
  BY <1>2 DEF FirstTrained
<1> DEFINE first == FirstTrained(line)
<1>5. first \in said /\ first \in 1..Len(line) /\ first # 1
  BY <1>1, <1>2, <1>3, <1>4
<1>6. \A i \in 1..first - 1 : i \notin said
  <2>1. first \in Nat /\ \A m \in said : first <= m
    BY <1>1, <1>3, <1>4, <1>5
  <2> HIDE DEF first, said
  <2> QED BY <2>1
<1>7. \A i \in 1..first - 1 : i \in DOMAIN line
  BY <1>1, <1>5
<1> QED BY <1>1, <1>5, <1>6, <1>7 DEF Tokenizable

\* Merging keeps what is said of the timelines of the tracker.
LEMMA MergedLineGood ==
  ASSUME NEW c, NEW tl \in TimelineLists, NEW line \in Seq(Msgs), NEW orig \in Seq(Msgs),
         \A i \in 1..Len(tl) : GoodLine(c, tl[i]), GoodLine(c, orig),
         Refines(line, orig),
         \A j \in 1..Len(line) : line[j].author = "llm" => SaidIn(tl, line, j)
  PROVE  /\ GoodLine(c, line)
         /\ LastCall(line) = LastCall(orig)
         /\ \A n : OwnedLines(c, n, tl) => OwnedLine(c, n, line)
<1>1. /\ Len(line) = Len(orig) /\ Len(line) \in Nat /\ Len(line) >= 2
      /\ orig[Len(line)].author = "llm" /\ line[Len(line)] = orig[Len(line)]
  BY DEF Refines, GoodLine
<1>2. LastCall(line) = LastCall(orig)
  BY <1>1 DEF LastCall
<1>3. ASSUME NEW j \in 1..Len(line), line[j].author = "llm"
      PROVE  /\ SaidAs(c, line, j) /\ j # 1
             /\ \A n : OwnedLines(c, n, tl) => c[line[j].tokens].claim = n
  <2>1. PICK i \in 1..Len(tl) : /\ j \in 1..Len(tl[i])
                                /\ tl[i][j].author = "llm" /\ tl[i][j].tokens = line[j].tokens
                                /\ \A m \in 1..j : tl[i][m].text = line[m].text
    BY <1>3 DEF SaidIn
  <2>2. SaidAs(c, tl[i], j) /\ j # 1
    BY <2>1 DEF GoodLine
  <2>3. j \in 1..j /\ \A m \in 1..j - 1 : m \in 1..j
    OBVIOUS
  <2>4. SaidAs(c, line, j)
    BY <2>1, <2>2, <2>3 DEF SaidAs
  <2>5. \A n : OwnedLines(c, n, tl) => c[line[j].tokens].claim = n
    BY <2>1 DEF OwnedLines, OwnedLine
  <2> QED BY <2>2, <2>4, <2>5
<1>4. line[1].author = "env"
  <2>1. 1 \in 1..Len(line) /\ line[1] \in Msgs
    BY <1>1
  <2> QED BY <1>3, <2>1, MessageFields
<1>5. \A j \in 1..Len(line) : line[j].lack => line[j].text \in CutShort
  BY <1>1 DEF Refines, GoodLine
<1>6. GoodLine(c, line)
  BY <1>1, <1>3, <1>4, <1>5 DEF GoodLine
<1> QED BY <1>2, <1>3, <1>6 DEF OwnedLine

\* What is learned from a timeline is learned from the one it was merged into.
LEMMA HoldsLearned ==
  ASSUME NEW c, NEW k, NEW line \in Seq(Msgs), NEW orig \in Seq(Msgs),
         Len(c[k].prompt) \in Nat, Holds(line, orig), LearnedAt(c, k, orig)
  PROVE  LearnedAt(c, k, line)
<1> DEFINE n == Len(c[k].prompt)
<1>1. Len(line) \in Nat /\ Len(orig) \in Nat /\ n \in Nat
  OBVIOUS
<1>2. Len(line) >= Len(orig) /\ \A i \in 1..Len(orig) : line[i].text = orig[i].text
  BY MergeableByIndex DEF Holds
<1>3. /\ Len(orig) > n /\ \A m \in 1..n : orig[m].text = c[k].prompt[m]
      /\ orig[n + 1].text = c[k].reply /\ orig[n + 1].author = "llm"
  BY DEF LearnedAt
<1> HIDE DEF n
<1>4. n + 1 \in 1..Len(orig) /\ (\A m \in 1..n : m \in 1..Len(orig)) /\ Len(line) > n
  BY <1>1, <1>2, <1>3
<1>5. line[n + 1].author = "llm"
  BY <1>3, <1>4 DEF Holds
<1> QED BY <1>2, <1>3, <1>4, <1>5 DEF LearnedAt, n

\* A timeline holds what it was made from.
LEMMA RefinesHolds ==
  ASSUME NEW line \in Seq(Msgs), NEW orig \in Seq(Msgs), Refines(line, orig)
  PROVE  Holds(line, orig)
<1>1. Len(line) >= Len(orig) /\ Len(orig) \in Nat
  BY DEF Refines
<1>2. Mergeable(line, orig)
  BY <1>1, MergeableByIndex DEF Refines
<1> QED BY <1>2 DEF Holds, Refines

\* Merging good timelines makes good ones, of the same owner, that teach what they taught.
LEMMA MergeGood ==
  ASSUME NEW c, NEW tl, GoodLines(c, tl)
  PROVE  LET merged == merge_tracker_timelines(tl)
         IN  /\ GoodLines(c, merged)
             /\ \A n : OwnedLines(c, n, tl) => OwnedLines(c, n, merged)
             /\ \A k : Len(c[k].prompt) \in Nat /\ LearnedOf(c, k, tl) => LearnedOf(c, k, merged)
             /\ FreshLines(tl) => Parted(merged, 1..Len(merged))
<1> DEFINE merged == merge_tracker_timelines(tl)
<1>1. tl \in TimelineLists /\ \A i \in 1..Len(tl) : tl[i] \in Seq(Msgs) /\ GoodLine(c, tl[i])
  BY LinesOf DEF GoodLines
<1>2. merged \in TimelineLists /\ MergedFrom(tl, merged)
  BY <1>1, MergeMeets
<1> HIDE DEF merged
<1>3. PICK g \in [1..Len(merged) -> 1..Len(tl)] :
        /\ \A a \in 1..Len(merged) : Refines(merged[a], tl[g[a]])
        /\ \A a, b \in 1..Len(merged) : a < b => g[a] < g[b]
  BY <1>2 DEF MergedFrom
<1>4. \A a \in 1..Len(merged) : merged[a] \in Seq(Msgs) /\ g[a] \in 1..Len(tl) /\ g[a] \in Nat
  BY <1>2, LinesOf
<1>5. \A a \in 1..Len(merged) :
        /\ GoodLine(c, merged[a])
        /\ LastCall(merged[a]) = LastCall(tl[g[a]])
        /\ \A n : OwnedLines(c, n, tl) => OwnedLine(c, n, merged[a])
  <2> TAKE a \in 1..Len(merged)
  <2>1. \A j \in 1..Len(merged[a]) : merged[a][j].author = "llm" => SaidIn(tl, merged[a], j)
    BY <1>2 DEF MergedFrom
  <2> QED BY <1>1, <1>3, <1>4, <2>1, MergedLineGood
<1>6. ASSUME NEW a \in 1..Len(merged), NEW b \in 1..Len(merged), a # b
      PROVE  LastCall(merged[a]) # LastCall(merged[b])
  <2>1. g[a] # g[b]
    BY <1>3, <1>4, <1>6
  <2> QED BY <1>4, <1>5, <2>1 DEF GoodLines
<1>7. GoodLines(c, merged)
  BY <1>2, <1>5, <1>6 DEF GoodLines
<1>8. \A n : OwnedLines(c, n, tl) => OwnedLines(c, n, merged)
  BY <1>5 DEF OwnedLines
<1>9. ASSUME NEW k, Len(c[k].prompt) \in Nat, LearnedOf(c, k, tl)
      PROVE  LearnedOf(c, k, merged)
  <2>1. PICK i \in 1..Len(tl) : LearnedAt(c, k, tl[i])
    BY <1>9 DEF LearnedOf
  <2>2. PICK a \in 1..Len(merged) : Holds(merged[a], tl[i])
    BY <1>2 DEF MergedFrom
  <2>3. LearnedAt(c, k, merged[a])
    BY <1>1, <1>4, <1>9, <2>1, <2>2, HoldsLearned
  <2> QED BY <2>3 DEF LearnedOf
<1>10. FreshLines(tl) => Parted(merged, 1..Len(merged))
  BY <1>2, FreshParted DEF MergedFrom
<1> QED BY <1>7, <1>8, <1>9, <1>10 DEF merged

\* So do the timelines that are changed in place.
LEMMA MergeInPlaceGood ==
  ASSUME NEW c, NEW tl, GoodLines(c, tl)
  PROVE  /\ GoodLines(c, MergedInPlace(tl))
         /\ \A k : Len(c[k].prompt) \in Nat /\ LearnedOf(c, k, tl) => LearnedOf(c, k, MergedInPlace(tl))
<1> DEFINE new == MergedInPlace(tl)
<1>1. tl \in TimelineLists /\ \A i \in 1..Len(tl) : tl[i] \in Seq(Msgs) /\ GoodLine(c, tl[i])
  BY LinesOf DEF GoodLines
<1>2. /\ new \in TimelineLists /\ Len(new) = Len(tl)
      /\ \A i \in 1..Len(tl) : Refines(new[i], tl[i])
      /\ \A a \in 1..Len(tl) : \A j \in 1..Len(new[a]) :
           new[a][j].author = "llm" => SaidIn(tl, new[a], j)
  BY <1>1, MergeInPlaceMeets
<1> HIDE DEF new
<1>3. \A a \in 1..Len(tl) : new[a] \in Seq(Msgs)
  BY <1>2, LinesOf
<1>4. \A a \in 1..Len(tl) : GoodLine(c, new[a]) /\ LastCall(new[a]) = LastCall(tl[a])
  BY <1>1, <1>2, <1>3, MergedLineGood
<1>5. GoodLines(c, new)
  BY <1>2, <1>4 DEF GoodLines
<1>6. ASSUME NEW k, Len(c[k].prompt) \in Nat, LearnedOf(c, k, tl)
      PROVE  LearnedOf(c, k, new)
  <2>1. PICK i \in 1..Len(tl) : LearnedAt(c, k, tl[i])
    BY <1>6 DEF LearnedOf
  <2>2. LearnedAt(c, k, new[i])
    BY <1>1, <1>2, <1>3, <1>6, <2>1, RefinesHolds, HoldsLearned
  <2> QED BY <1>2, <2>2 DEF LearnedOf
<1> QED BY <1>5, <1>6 DEF new

\* Saving one more timeline.
LEMMA AppendGood ==
  ASSUME NEW c, NEW lines, GoodLines(c, lines), NEW line \in Seq(Msgs), GoodLine(c, line),
         \A i \in 1..Len(lines) : LastCall(lines[i]) # LastCall(line)
  PROVE  /\ GoodLines(c, Append(lines, line))
         /\ \A n : OwnedLines(c, n, lines) /\ OwnedLine(c, n, line) => OwnedLines(c, n, Append(lines, line))
         /\ \A k : LearnedOf(c, k, lines) \/ LearnedAt(c, k, line) => LearnedOf(c, k, Append(lines, line))
         /\ FreshLines(lines) /\ Fresh(line) => FreshLines(Append(lines, line))
<1> DEFINE new == Append(lines, line)
           n == Len(lines)
<1>1. lines \in Seq(Seq(Msgs)) /\ line \in Seq(Msgs) /\ n \in Nat
  BY DEF GoodLines, TimelineLists, Msgs
<1>2. /\ new \in Seq(Seq(Msgs)) /\ Len(new) = n + 1 /\ new[n + 1] = line
      /\ \A i \in 1..n : new[i] = lines[i]
  BY <1>1
<1>3. new \in TimelineLists
  BY <1>2 DEF TimelineLists, Msgs
<1> HIDE DEF new
<1>4. \A i \in 1..n + 1 : i = n + 1 \/ i \in 1..n
  BY <1>1
<1>5. n + 1 \in 1..n + 1 /\ \A i \in 1..n : i \in 1..n + 1
  BY <1>1
<1>6. \A i \in 1..n : GoodLine(c, lines[i])
  BY DEF GoodLines
<1>7. \A i, j \in 1..n : i # j => LastCall(lines[i]) # LastCall(lines[j])
  BY DEF GoodLines
<1>8. \A i \in 1..n + 1 : GoodLine(c, new[i])
  BY <1>2, <1>4, <1>6
<1>9. \A i, j \in 1..n + 1 : i # j => LastCall(new[i]) # LastCall(new[j])
  BY <1>2, <1>4, <1>7
<1>10. GoodLines(c, new)
  BY <1>2, <1>3, <1>8, <1>9 DEF GoodLines
<1>11. \A m : OwnedLines(c, m, lines) /\ OwnedLine(c, m, line) => OwnedLines(c, m, new)
  BY <1>2, <1>4 DEF OwnedLines
<1>12. \A k : LearnedOf(c, k, lines) \/ LearnedAt(c, k, line) => LearnedOf(c, k, new)
  BY <1>2, <1>5 DEF LearnedOf
<1>13. FreshLines(lines) /\ Fresh(line) => FreshLines(new)
  BY <1>2, <1>4 DEF FreshLines
<1> QED BY <1>10, <1>11, <1>12, <1>13 DEF new

-----------------------------------------------------------------------------
(* Tokens *)

Tokens == {Begin, Word, Eos, Newline}

\* The token sequences that occur, element by element.
LEMMA TokenSeqs ==
  /\ {Begin, Word, Eos, Newline} \subseteq Tokens
  /\ LET s == <<Begin, Word, Eos, Newline>>
     IN  s \in Seq(Tokens) /\ Len(s) = 4 /\ s[1] = Begin /\ s[2] = Word /\ s[3] = Eos /\ s[4] = Newline
  /\ LET s == <<Begin, Word, Word, Eos, Newline>>
     IN  s \in Seq(Tokens) /\ Len(s) = 5 /\ s[2] = Word /\ s[3] = Word /\ s[4] = Eos
  /\ LET s == <<Word, Word, Eos>>
     IN  s \in Seq(Tokens) /\ Len(s) = 3 /\ s[1] = Word /\ s[2] = Word /\ s[3] = Eos
  /\ <<Word>> \in Seq(Tokens) /\ Len(<<Word>>) = 1 /\ <<Word>>[1] = Word
BY DEF Tokens

\* Where the template begins and ends, and what is around the word in it.
LEMMA TemplateIndices ==
  /\ FirstIndex(Templated, Begin) = 1
  /\ LastIndex(Templated, Eos) = 3
  /\ SubSeq(Templated, 1, 1) = <<Begin>>
  /\ SubSeq(Templated, 3, Len(Templated)) = <<Eos, Newline>>
<1>1. {i \in DOMAIN Templated : Templated[i] = Begin} = {1}
  BY DEF Templated, Begin, Word, Eos, Newline
<1>2. {i \in DOMAIN Templated : Templated[i] = Eos} = {3}
  BY DEF Templated, Begin, Word, Eos, Newline
<1>3. Min({1}) = 1 /\ Max({3}) = 3
  BY MinIs, MaxIs
<1>4. Len(Templated) = 4
  BY DEF Templated
<1>5. Templated \in Seq(Tokens) /\ Templated[1] = Begin /\ Templated[3] = Eos /\ Templated[4] = Newline
  BY TokenSeqs DEF Templated
<1>6. SubSeq(Templated, 1, 1) = <<Begin>>
  BY <1>4, <1>5, Parts
<1>7. SubSeq(Templated, 3, 4) = <<Eos, Newline>>
  <2>1. 3 \in 1..Len(Templated) /\ 3 + 1 <= Len(Templated)
    BY <1>4
  <2>2. SubSeq(Templated, 3, 3 + 1) = <<Templated[3], Templated[3 + 1]>>
    BY <1>5, <2>1, Parts
  <2> QED BY <1>5, <2>2
<1>8. FirstIndex(Templated, Begin) = 1 /\ LastIndex(Templated, Eos) = 3
  BY <1>1, <1>2, <1>3 DEF FirstIndex, LastIndex
<1> QED BY <1>4, <1>6, <1>7, <1>8

\* replace_token_ids puts the generated tokens in place of the word.
LEMMA CutTokens ==
  /\ Last(<<Word>>) = Word
  /\ ReplaceTokenIds(Templated, <<Word>>) = <<Begin, Word, Eos, Newline>>
  /\ Last(<<Word, Word, Eos>>) = Eos
  /\ ReplaceTokenIds(Templated, <<Word, Word, Eos>>) = <<Begin, Word, Word, Eos, Newline>>
<1>1. Last(<<Word>>) = Word /\ Last(<<Word, Word, Eos>>) = Eos /\ Word # Eos
  BY DEF Last, Word, Eos
<1>2. Front(<<Word, Word, Eos>>) = <<Word, Word>>
  <2> DEFINE s == <<Word, Word, Eos>>
  <2>1. s \in Seq(Tokens) /\ Len(s) = 3 /\ s[1] = Word /\ s[2] = Word
    BY TokenSeqs
  <2> HIDE DEF s
  <2>2. SubSeq(s, 1, 1 + 1) = <<s[1], s[1 + 1]>>
    BY <2>1, Parts
  <2>3. SubSeq(s, 1, Len(s) - 1) = <<Word, Word>>
    BY <2>1, <2>2
  <2> QED BY <2>3 DEF s, Front
<1>3. ReplaceTokenIds(Templated, <<Word>>) = <<Begin>> \o <<Word>> \o <<Eos, Newline>>
  BY <1>1, TemplateIndices DEF ReplaceTokenIds
<1>4. ReplaceTokenIds(Templated, <<Word, Word, Eos>>) = <<Begin>> \o <<Word, Word>> \o <<Eos, Newline>>
  BY <1>1, <1>2, TemplateIndices DEF ReplaceTokenIds
<1>5. Begin \in Tokens /\ Word \in Tokens /\ Eos \in Tokens /\ Newline \in Tokens
  BY DEF Tokens
<1>6. <<Begin>> \o <<Word>> \o <<Eos, Newline>> = <<Begin, Word, Eos, Newline>>
  BY <1>5, JoinedOne
<1>7. <<Begin>> \o <<Word, Word>> \o <<Eos, Newline>> = <<Begin, Word, Word, Eos, Newline>>
  BY <1>5, JoinedTwo
<1> QED BY <1>1, <1>3, <1>4, <1>6, <1>7

\* The first closing tag of a reply.
LEMMA FirstEos ==
  /\ FirstIndex(<<Begin, Word, Eos, Newline>>, Begin) = 1
  /\ FirstIndex(<<Begin, Word, Eos, Newline>>, Eos) = 3
  /\ FirstIndex(<<Begin, Word, Word, Eos, Newline>>, Begin) = 1
  /\ FirstIndex(<<Begin, Word, Word, Eos, Newline>>, Eos) = 4
<1> DEFINE a == <<Begin, Word, Eos, Newline>>
           b == <<Begin, Word, Word, Eos, Newline>>
<1>1. {i \in DOMAIN a : a[i] = Begin} = {1} /\ {i \in DOMAIN a : a[i] = Eos} = {3}
  BY DEF Begin, Word, Eos, Newline
<1>2. {i \in DOMAIN b : b[i] = Begin} = {1} /\ {i \in DOMAIN b : b[i] = Eos} = {4}
  BY DEF Begin, Word, Eos, Newline
<1>3. Min({1}) = 1 /\ Min({3}) = 3 /\ Min({4}) = 4
  BY MinIs
<1> HIDE DEF a, b
<1> QED BY <1>1, <1>2, <1>3 DEF FirstIndex, a, b

\* The tokens of what the model said, and those of them that are trained on.
LEMMA MaskOfReply ==
  ASSUME NEW msg \in Msgs, msg.author = "llm", msg.lack => msg.text \in CutShort
  PROVE  /\ msg.text \in CutShort => /\ TokensOf(msg) = <<Begin, Word, Eos, Newline>>
                                     /\ LossMask(msg) = IF msg.lack THEN {2} ELSE {2, 3}
         /\ msg.text \notin CutShort => /\ TokensOf(msg) = <<Begin, Word, Word, Eos, Newline>>
                                        /\ LossMask(msg) = {2, 3, 4}
<1>1. msg.tokens # NoCall
  BY MessageFields, TrackerAssumption
<1>2. CASE msg.text \in CutShort
  <2>1. TokensOf(msg) = <<Begin, Word, Eos, Newline>>
    BY <1>1, <1>2, CutTokens DEF TokensOf, Generated
  <2>2. DOMAIN <<Begin, Word, Eos, Newline>> = {1, 2, 3, 4}
    OBVIOUS
  <2>3. LossMask(msg) = {i \in {1, 2, 3, 4} : i # 1 /\ (3 = 0 \/ i < 3 \/ (i = 3 /\ ~msg.lack))}
    BY <2>1, <2>2, FirstEos DEF LossMask
  <2>4. LossMask(msg) = IF msg.lack THEN {2} ELSE {2, 3}
    BY <2>3
  <2> QED BY <1>2, <2>1, <2>4
<1>3. CASE msg.text \notin CutShort
  <2>1. TokensOf(msg) = <<Begin, Word, Word, Eos, Newline>>
    BY <1>1, <1>3, CutTokens DEF TokensOf, Generated
  <2>2. DOMAIN <<Begin, Word, Word, Eos, Newline>> = {1, 2, 3, 4, 5}
    OBVIOUS
  <2>3. LossMask(msg) = {i \in {1, 2, 3, 4, 5} : i # 1 /\ (4 = 0 \/ i < 4 \/ (i = 4 /\ ~msg.lack))}
    BY <2>1, <2>2, FirstEos DEF LossMask
  <2>4. LossMask(msg) = {2, 3, 4}
    BY <1>3, <2>3
  <2> QED BY <1>3, <2>1, <2>4
<1> QED BY <1>2, <1>3

\* The positions trained on are in a row, and hold what the model generated.
LEMMA MaskOfReplyExact ==
  ASSUME NEW msg \in Msgs, msg.author = "llm", msg.lack <=> msg.text \in CutShort
  PROVE  LET mask == LossMask(msg)
             first == Min(mask)
         IN  /\ SubSeq(TokensOf(msg), first, first + Cardinality(mask) - 1) = Generated(msg.text)
             /\ mask = first..(first + Cardinality(mask) - 1)
<1>1. CASE msg.text \in CutShort
  <2>1. TokensOf(msg) = <<Begin, Word, Eos, Newline>> /\ LossMask(msg) = {2}
    BY <1>1, MaskOfReply
  <2>2. Cardinality({2}) = 1
    BY FS_Singleton
  <2>3. Min({2}) = 2
    BY MinIs
  <2>4. SubSeq(<<Begin, Word, Eos, Newline>>, 2, 2) = <<Word>>
    <3> DEFINE s == <<Begin, Word, Eos, Newline>>
    <3>1. s \in Seq(Tokens) /\ Len(s) = 4 /\ s[2] = Word
      BY TokenSeqs
    <3> HIDE DEF s
    <3>2. SubSeq(s, 2, 2) = <<Word>>
      BY <3>1, Parts
    <3> QED BY <3>2 DEF s
  <2>5. {2} = 2..2 /\ 2 + 1 - 1 = 2
    OBVIOUS
  <2> QED BY <1>1, <2>1, <2>2, <2>3, <2>4, <2>5 DEF Generated
<1>2. CASE msg.text \notin CutShort
  <2>1. TokensOf(msg) = <<Begin, Word, Word, Eos, Newline>> /\ LossMask(msg) = {2, 3, 4}
    BY <1>2, MaskOfReply
  <2>2. {2, 3, 4} = 2..4 /\ 2 + 3 - 1 = 4
    OBVIOUS
  <2>3. Min({2, 3, 4}) = 2
    BY MinIs
  <2>4. Cardinality({2, 3, 4}) = 3
    <3>1. 2 \in Int /\ 4 \in Int /\ ~(2 > 4) /\ 4 - 2 + 1 = 3
      OBVIOUS
    <3>2. Cardinality(2..4) = IF 2 > 4 THEN 0 ELSE 4 - 2 + 1
      BY <3>1, FS_Interval
    <3>3. Cardinality(2..4) = 3
      BY <3>1, <3>2
    <3> QED BY <2>2, <3>3
  <2>5. SubSeq(<<Begin, Word, Word, Eos, Newline>>, 2, 4) = <<Word, Word, Eos>>
    <3> DEFINE s == <<Begin, Word, Word, Eos, Newline>>
    <3>1. s \in Seq(Tokens) /\ Len(s) = 5 /\ s[2] = Word /\ s[3] = Word /\ s[4] = Eos
      BY TokenSeqs
    <3> HIDE DEF s
    <3>2. SubSeq(s, 2, 2 + 2) = <<s[2], s[2 + 1], s[2 + 2]>>
      BY <3>1, Parts
    <3>3. SubSeq(s, 2, 4) = <<Word, Word, Eos>>
      BY <3>1, <3>2
    <3> QED BY <3>3 DEF s
  <2> QED BY <1>2, <2>1, <2>2, <2>3, <2>4, <2>5 DEF Generated
<1> QED BY <1>1, <1>2

\* Of what the model did not say nothing is trained on, of what it said the second token is.
LEMMA MarksOfMessage ==
  ASSUME NEW msg \in Msgs, msg.lack => msg.text \in CutShort
  PROVE  /\ Marks(msg) \in Seq(BOOLEAN)
         /\ msg.author # "llm" => \A j \in 1..Len(Marks(msg)) : Marks(msg)[j] = FALSE
         /\ msg.author = "llm" => Len(Marks(msg)) >= 2 /\ Marks(msg)[2] = TRUE
<1>1. CASE msg.author = "llm"
  <2>1. \/ DOMAIN TokensOf(msg) = 1..4 \/ DOMAIN TokensOf(msg) = 1..5
    BY <1>1, MaskOfReply
  <2>2. 2 \in LossMask(msg)
    BY <1>1, MaskOfReply
  <2>3. PICK n \in {4, 5} : DOMAIN TokensOf(msg) = 1..n
    BY <2>1
  <2>4. Marks(msg) = [j \in 1..n |-> j \in LossMask(msg)]
    BY <2>3 DEF Marks
  <2>5. Marks(msg) \in Seq(BOOLEAN) /\ Len(Marks(msg)) = n
    BY <2>4, IsSequence
  <2>6. 2 \in 1..n
    OBVIOUS
  <2>7. Marks(msg)[2] = (2 \in LossMask(msg))
    BY <2>4, <2>6
  <2> QED BY <1>1, <2>2, <2>5, <2>6, <2>7
<1>2. CASE msg.author # "llm"
  <2>1. TokensOf(msg) = Templated
    BY <1>2, MessageFields DEF TokensOf
  <2>2. DOMAIN TokensOf(msg) = 1..4 /\ LossMask(msg) = {}
    BY <1>2, <2>1 DEF Templated, LossMask
  <2>3. Marks(msg) = [j \in 1..4 |-> j \in {}]
    BY <2>2 DEF Marks
  <2>4. Marks(msg) \in Seq(BOOLEAN) /\ Len(Marks(msg)) = 4
    BY <2>3, IsSequence
  <2>5. \A j \in 1..4 : Marks(msg)[j] = FALSE
    <3> TAKE j \in 1..4
    <3>1. Marks(msg)[j] = (j \in {})
      BY <2>3
    <3>2. (j \in {}) = FALSE
      OBVIOUS
    <3> QED BY <3>1, <3>2
  <2> QED BY <1>2, <2>4, <2>5
<1> QED BY <1>1, <1>2

\* Two sequences, one after the other.
LEMMA Joined ==
  ASSUME NEW T, NEW s \in Seq(T), NEW t \in Seq(T)
  PROVE  /\ s \o t \in Seq(T) /\ Len(s) \in Nat /\ Len(t) \in Nat
         /\ Len(s \o t) = Len(s) + Len(t)
         /\ \A j \in 1..Len(s) : (s \o t)[j] = s[j]
         /\ \A j \in 1..Len(t) : (s \o t)[Len(s) + j] = t[j]
  OBVIOUS

\* The marks of the first messages are those of the first but one, and of the last.
LEMMA FlatSteps ==
  ASSUME NEW line \in Seq(Msgs), \A j \in 1..Len(line) : line[j].lack => line[j].text \in CutShort
  PROVE  /\ FlatUpTo(line)[0] = <<>>
         /\ \A i \in 1..Len(line) : FlatUpTo(line)[i] = FlatUpTo(line)[i - 1] \o Marks(line[i])
         /\ \A i \in 0..Len(line) : FlatUpTo(line)[i] \in Seq(BOOLEAN)
<1> DEFINE n == Len(line)
           Solves(f) == f = [i \in 0..n |-> IF i = 0 THEN <<>> ELSE f[i - 1] \o Marks(line[i])]
           upTo == CHOOSE f : Solves(f)
           X == Seq(BOOLEAN)
           F == [i \in 1..n |-> [x \in X |-> x \o Marks(line[i])]]
<1>1. n \in Nat /\ \A i \in 1..n : line[i] \in Msgs
  OBVIOUS
<1>2. \A i \in 1..n : Marks(line[i]) \in Seq(BOOLEAN)
  BY <1>1, MarksOfMessage
<1>3. <<>> \in X
  OBVIOUS
<1>4. F \in StepsOn(n, X)
  <2>1. ASSUME NEW i \in 1..n, NEW x \in X
        PROVE  x \o Marks(line[i]) \in X
    BY <1>2
  <2> QED BY <2>1 DEF StepsOn
<1> HIDE DEF X
<1>5. \E f : Solves(f)
  <2>1. Runs(n, X, <<>>, F) # {}
    <3> HIDE DEF F, n
    <3> QED BY <1>1, <1>3, <1>4, Recursion
  <2>2. PICK f \in [0..n -> X] : f[0] = <<>> /\ \A i \in 1..n : f[i] = F[i][f[i - 1]]
    BY <2>1 DEF Runs
  <2>3. \A i \in 1..n : f[i] = f[i - 1] \o Marks(line[i])
    <3> TAKE i \in 1..n
    <3>1. i - 1 \in 0..n
      BY <1>1
    <3>2. f[i - 1] \in X
      BY <2>2, <3>1
    <3> QED BY <2>2, <3>2
  <2>4. Solves(f)
    <3> DEFINE g == [i \in 0..n |-> IF i = 0 THEN <<>> ELSE f[i - 1] \o Marks(line[i])]
    <3> HIDE DEF F, n
    <3>1. \A i \in 0..n : i = 0 \/ (i \in 1..n /\ i # 0)
      BY <1>1
    <3>2. \A i \in 0..n : f[i] = g[i]
      BY <2>2, <2>3, <3>1
    <3>3. f = [i \in 0..n |-> f[i]] /\ g = [i \in 0..n |-> g[i]]
      BY <2>2
    <3>4. f = g
      BY <3>2, <3>3
    <3> QED BY <3>4
  <2> QED BY <2>4
<1>6. Solves(upTo)
  BY <1>5
<1>7. FlatUpTo(line) = upTo
  BY DEF FlatUpTo
<1> HIDE DEF upTo
<1>8. upTo[0] = <<>> /\ \A i \in 1..n : upTo[i] = upTo[i - 1] \o Marks(line[i])
  <2> HIDE DEF n
  <2>1. 0 \in 0..n /\ \A i \in 1..n : i \in 0..n /\ i # 0
    BY <1>1
  <2> QED BY <1>6, <2>1
<1> DEFINE S == {i \in 0..n : upTo[i] \in X}
<1>9. 0 \in S
  BY <1>1, <1>3, <1>8
<1>10. ASSUME NEW i \in 0..n, i < n, i \in S
       PROVE  i + 1 \in S
  <2>1. i + 1 \in 1..n /\ i + 1 \in 0..n /\ (i + 1) - 1 = i
    BY <1>1, <1>10
  <2>2. upTo[i + 1] = upTo[i] \o Marks(line[i + 1])
    BY <1>8, <2>1
  <2>3. upTo[i] \in Seq(BOOLEAN) /\ Marks(line[i + 1]) \in Seq(BOOLEAN)
    BY <1>2, <1>10, <2>1 DEF X
  <2>4. upTo[i + 1] \in X
    BY <2>2, <2>3 DEF X
  <2> QED BY <2>1, <2>4
<1>11. \A i \in 0..n : i \in S
  <2> HIDE DEF S, n
  <2> QED BY <1>1, <1>9, <1>10, UpTo
<1> QED BY <1>7, <1>8, <1>11 DEF X

\* Nothing is trained on before the first message to be trained on, and its second token is.
LEMMA FlatMeets ==
  ASSUME NEW c, NEW line \in Seq(Msgs), GoodLine(c, line)
  PROVE  LET flat  == Flat(line)
             start == Len(FlatUpTo(line)[FirstTrained(line) - 1])
         IN  /\ flat \in Seq(BOOLEAN) /\ start \in 0..Len(flat)
             /\ \A j \in 1..start : flat[j] = FALSE
             /\ start + 2 <= Len(flat) /\ flat[start + 2] = TRUE
<1> DEFINE n == Len(line)
           upTo == FlatUpTo(line)
           first == FirstTrained(line)
           start == Len(upTo[first - 1])
<1>1. /\ n \in Nat /\ first \in 1..n /\ line[first].author = "llm"
      /\ \A i \in 1..first - 1 : line[i].author # "llm"
  BY LineTokenizable
<1>2. /\ upTo[0] = <<>>
      /\ \A i \in 1..n : upTo[i] = upTo[i - 1] \o Marks(line[i])
      /\ \A i \in 0..n : upTo[i] \in Seq(BOOLEAN)
  BY FlatSteps DEF GoodLine
<1>3. \A i \in 1..n : line[i] \in Msgs /\ (line[i].lack => line[i].text \in CutShort)
  BY DEF GoodLine
<1> HIDE DEF n, upTo, first
<1>4. ASSUME NEW i \in 0..n, i < n
      PROVE  /\ Len(upTo[i]) \in Nat /\ Len(Marks(line[i + 1])) \in Nat
             /\ Len(upTo[i + 1]) = Len(upTo[i]) + Len(Marks(line[i + 1]))
             /\ \A j \in 1..Len(upTo[i]) : upTo[i + 1][j] = upTo[i][j]
             /\ \A j \in 1..Len(Marks(line[i + 1])) :
                  upTo[i + 1][Len(upTo[i]) + j] = Marks(line[i + 1])[j]
  <2>1. i + 1 \in 1..n /\ (i + 1) - 1 = i
    BY <1>1, <1>4
  <2>2. upTo[i] \in Seq(BOOLEAN) /\ Marks(line[i + 1]) \in Seq(BOOLEAN)
    BY <1>2, <1>3, <2>1, MarksOfMessage
  <2>3. upTo[i + 1] = upTo[i] \o Marks(line[i + 1])
    BY <1>2, <2>1
  <2> DEFINE s == upTo[i]
             t == Marks(line[i + 1])
             u == upTo[i + 1]
  <2>4. s \in Seq(BOOLEAN) /\ t \in Seq(BOOLEAN) /\ u = s \o t
    BY <2>2, <2>3
  <2> HIDE DEF s, t, u
  <2>5. /\ Len(s) \in Nat /\ Len(t) \in Nat /\ Len(u) = Len(s) + Len(t)
        /\ \A j \in 1..Len(s) : u[j] = s[j]
        /\ \A j \in 1..Len(t) : u[Len(s) + j] = t[j]
    BY <2>4, Joined
  <2> QED BY <2>5 DEF s, t, u
<1> DEFINE Quiet(i) == i < first => \A j \in 1..Len(upTo[i]) : upTo[i][j] = FALSE
           S == {i \in 0..n : Quiet(i)}
<1>5. 0 \in S
  BY <1>1, <1>2
<1>6. ASSUME NEW i \in 0..n, i < n, i \in S
      PROVE  i + 1 \in S
  <2>1. i + 1 \in 1..n /\ i + 1 \in 0..n /\ (i + 1) - 1 = i /\ i \in Nat /\ first \in Nat
    BY <1>1, <1>6
  <2>2. ASSUME i + 1 < first, NEW j \in 1..Len(upTo[i + 1])
        PROVE  upTo[i + 1][j] = FALSE
    <3> DEFINE a == Len(upTo[i])
               b == Len(Marks(line[i + 1]))
    <3>1. line[i + 1].author # "llm" /\ Quiet(i) /\ i < first
      BY <1>1, <1>6, <2>1, <2>2
    <3>2. /\ a \in Nat /\ b \in Nat /\ Len(upTo[i + 1]) = a + b
          /\ \A m \in 1..a : upTo[i + 1][m] = upTo[i][m]
          /\ \A m \in 1..b : upTo[i + 1][a + m] = Marks(line[i + 1])[m]
      BY <1>4, <1>6
    <3>3. \A m \in 1..b : Marks(line[i + 1])[m] = FALSE
      BY <1>3, <2>1, <3>1, MarksOfMessage
    <3>4. \A m \in 1..a : upTo[i][m] = FALSE
      BY <3>1
    <3> HIDE DEF a, b
    <3>5. j \in 1..a \/ (j - a \in 1..b /\ a + (j - a) = j)
      BY <3>2
    <3> QED BY <3>2, <3>3, <3>4, <3>5
  <2> QED BY <2>1, <2>2
<1>7. \A i \in 0..n : i \in S
  <2> HIDE DEF S
  <2> QED BY <1>1, <1>5, <1>6, UpTo
<1>8. first - 1 \in 0..n /\ first - 1 < first /\ start \in Nat
  <2>1. first - 1 \in 0..n /\ first - 1 < first
    BY <1>1
  <2>2. upTo[first - 1] \in Seq(BOOLEAN)
    BY <1>2, <2>1
  <2> QED BY <2>1, <2>2
<1>9. \A j \in 1..start : upTo[first - 1][j] = FALSE
  BY <1>7, <1>8
<1> DEFINE Loud(i) == i >= first => /\ Len(upTo[i]) >= start + 2
                                    /\ \A j \in 1..start : upTo[i][j] = FALSE
                                    /\ upTo[i][start + 2] = TRUE
           T == {i \in 0..n : Loud(i)}
<1>10. 0 \in T
  BY <1>1
<1>11. ASSUME NEW i \in 0..n, i < n, i \in T
       PROVE  i + 1 \in T
  <2>1. i + 1 \in 1..n /\ i + 1 \in 0..n /\ (i + 1) - 1 = i /\ i \in Nat /\ first \in Nat
    BY <1>1, <1>11
  <2> DEFINE a == Len(upTo[i])
             b == Len(Marks(line[i + 1]))
  <2>2. /\ a \in Nat /\ b \in Nat /\ Len(upTo[i + 1]) = a + b
        /\ \A m \in 1..a : upTo[i + 1][m] = upTo[i][m]
        /\ \A m \in 1..b : upTo[i + 1][a + m] = Marks(line[i + 1])[m]
    BY <1>4, <1>11
  <2>3. CASE i + 1 = first
    <3>1. i = first - 1 /\ a = start
      BY <2>1, <2>3
    <3>2. b >= 2 /\ Marks(line[i + 1])[2] = TRUE
      BY <1>1, <1>3, <2>1, <2>3, MarksOfMessage
    <3> HIDE DEF a, b, start
    <3>3. 2 \in 1..b /\ upTo[i + 1][a + 2] = TRUE
      BY <2>2, <3>2
    <3>4. Len(upTo[i + 1]) >= start + 2
      BY <2>2, <3>1, <3>2
    <3>5. \A j \in 1..start : upTo[i + 1][j] = FALSE
      BY <1>9, <2>2, <3>1
    <3> QED BY <2>1, <3>1, <3>3, <3>4, <3>5
  <2>4. CASE i >= first
    <3>1. a >= start + 2 /\ upTo[i][start + 2] = TRUE /\ \A j \in 1..start : upTo[i][j] = FALSE
      BY <1>11, <2>4
    <3> HIDE DEF a, b, start
    <3>2. start + 2 \in 1..a /\ \A j \in 1..start : j \in 1..a
      BY <1>8, <2>2, <3>1
    <3>3. Len(upTo[i + 1]) >= start + 2
      BY <1>8, <2>2, <3>1
    <3> QED BY <2>1, <2>2, <3>1, <3>2, <3>3
  <2>5. CASE i + 1 < first
    BY <2>1, <2>5
  <2>6. i + 1 = first \/ i >= first \/ i + 1 < first
    BY <2>1
  <2> HIDE DEF T
  <2> QED BY <2>3, <2>4, <2>5, <2>6
<1>12. \A i \in 0..n : i \in T
  <2> HIDE DEF T
  <2> QED BY <1>1, <1>10, <1>11, UpTo
<1>13. n \in 0..n /\ n >= first /\ upTo[n] \in Seq(BOOLEAN)
  BY <1>1, <1>2
<1>14. Loud(n)
  BY <1>12, <1>13
<1>15. Flat(line) = upTo[n]
  BY DEF Flat, upTo, n
<1>16. start = Len(FlatUpTo(line)[FirstTrained(line) - 1])
  BY DEF upTo, first
<1> HIDE DEF start
<1>17. start \in 0..Len(upTo[n])
  BY <1>8, <1>13, <1>14
<1> QED BY <1>13, <1>14, <1>15, <1>16, <1>17

\* What is trained on is all in the response, which ends only for its length.
LEMMA SampleMeets ==
  ASSUME NEW c, NEW line \in Seq(Msgs), GoodLine(c, line)
  PROVE  LET s == Sample(line, MaxPrompt, MaxResponse)
         IN  /\ Len(s.prompt) <= MaxPrompt
             /\ ~Contains(s.prompt, TRUE)
             /\ Len(s.prompt) + Len(s.response) = Len(Flat(line)) \/ Len(s.response) = MaxResponse
<1> DEFINE flat == Flat(line)
           start == Len(FlatUpTo(line)[FirstTrained(line) - 1])
           Ends == {i - 1 : i \in {n \in start + 1..Len(flat) : flat[n]}}
           cut == SplitIndex(line, flat, MaxPrompt)
           end == Min({cut + MaxResponse, Len(flat)})
<1>1. /\ flat \in Seq(BOOLEAN) /\ start \in 0..Len(flat)
      /\ \A j \in 1..start : flat[j] = FALSE
      /\ start + 2 <= Len(flat) /\ flat[start + 2] = TRUE
  BY FlatMeets
<1>2. cut = Min({MaxPrompt, start + MaxForward} \cup Ends)
  BY DEF SplitIndex
<1>3. Sample(line, MaxPrompt, MaxResponse) = [prompt |-> SubSeq(flat, 1, cut), response |-> SubSeq(flat, cut + 1, end)]
  BY DEF Sample
<1>4. MaxPrompt \in Nat /\ MaxResponse \in Nat
  BY TrackerAssumption
<1> HIDE DEF flat, start, cut
<1>5. Len(flat) \in Nat /\ start \in Nat
  BY <1>1
<1>6. Ends \subseteq Nat /\ \A i \in start + 1..Len(flat) : flat[i] = TRUE => i - 1 \in Ends
  BY <1>5
<1> HIDE DEF Ends
<1>7. /\ {MaxPrompt, start + MaxForward} \cup Ends \subseteq Nat
      /\ {MaxPrompt, start + MaxForward} \cup Ends # {}
  BY <1>4, <1>5, <1>6 DEF MaxForward
<1>8. cut \in Nat /\ \A m \in {MaxPrompt, start + MaxForward} \cup Ends : cut <= m
  BY <1>2, <1>7, MinIsLeast
<1>9. cut <= MaxPrompt /\ \A m \in Ends : cut <= m
  BY <1>8
<1>10. start + 2 \in start + 1..Len(flat)
  BY <1>1, <1>5
<1>11. cut \in 0..Len(flat) /\ cut + 1 \in 1..Len(flat) /\ 1 \in 1..Len(flat)
  <2>1. (start + 2) - 1 \in Ends
    BY <1>1, <1>6, <1>10
  <2>2. cut <= start + 1
    BY <1>5, <1>9, <2>1
  <2> QED BY <1>1, <1>5, <1>8, <2>2
<1>12. /\ Len(SubSeq(flat, 1, cut)) = cut
       /\ \A i \in 1..cut : SubSeq(flat, 1, cut)[i] = flat[i]
  <2>1. 1 <= cut + 1 /\ cut + 1 - 1 = cut /\ \A i \in 1..cut : 1 + i - 1 = i
    BY <1>8
  <2> QED BY <1>1, <1>11, <2>1, PartOf
<1>13. \A i \in 1..cut : flat[i] # TRUE
  <2> SUFFICES ASSUME NEW i \in 1..cut, flat[i] = TRUE
               PROVE  FALSE
    OBVIOUS
  <2>1. i \notin 1..start
    BY <1>1
  <2>2. i \in start + 1..Len(flat)
    BY <1>5, <1>11, <2>1
  <2>3. i - 1 \in Ends
    BY <1>6, <2>2
  <2>4. cut <= i - 1
    BY <1>9, <2>3
  <2> QED BY <1>8, <2>4
<1>14. ~Contains(SubSeq(flat, 1, cut), TRUE)
  BY <1>12, <1>13 DEF Contains
<1>15. /\ end \in 0..Len(flat) /\ cut + 1 <= end + 1
       /\ end = Len(flat) \/ end = cut + MaxResponse
  <2>1. {cut + MaxResponse, Len(flat)} \subseteq Nat /\ {cut + MaxResponse, Len(flat)} # {}
    BY <1>4, <1>5, <1>8
  <2>2. end \in {cut + MaxResponse, Len(flat)} /\ \A i \in {cut + MaxResponse, Len(flat)} : end <= i
    BY <2>1, MinIsLeast
  <2>3. end \in Nat /\ end <= Len(flat) /\ (end = Len(flat) \/ end = cut + MaxResponse)
    BY <2>1, <2>2
  <2> HIDE DEF end
  <2> QED BY <1>4, <1>5, <1>8, <1>11, <2>3
<1> HIDE DEF end
<1>16. Len(SubSeq(flat, cut + 1, end)) = end + 1 - (cut + 1)
  BY <1>1, <1>11, <1>15, PartOf
<1>17. \/ cut + Len(SubSeq(flat, cut + 1, end)) = Len(flat)
       \/ Len(SubSeq(flat, cut + 1, end)) = MaxResponse
  BY <1>4, <1>5, <1>8, <1>15, <1>16
<1> DEFINE s == Sample(line, MaxPrompt, MaxResponse)
<1>18. s.prompt = SubSeq(flat, 1, cut) /\ s.response = SubSeq(flat, cut + 1, end)
  <2> DEFINE prompt == SubSeq(flat, 1, cut)
             response == SubSeq(flat, cut + 1, end)
  <2>1. s = [prompt |-> prompt, response |-> response]
    BY <1>3
  <2> HIDE DEF prompt, response, s
  <2>2. s.prompt = prompt /\ s.response = response
    BY <2>1
  <2> QED BY <2>2 DEF prompt, response
<1> HIDE DEF s
<1>19. /\ Len(s.prompt) <= MaxPrompt
       /\ ~Contains(s.prompt, TRUE)
       /\ Len(s.prompt) + Len(s.response) = Len(flat) \/ Len(s.response) = MaxResponse
  BY <1>9, <1>12, <1>14, <1>17, <1>18
<1> QED BY <1>19 DEF flat, s

-----------------------------------------------------------------------------
(* What the properties say with prefixes, message by message *)

\* A prefix, place by place.
LEMMA PrefixByIndex ==
  ASSUME NEW T, NEW s \in Seq(T), NEW t \in Seq(T)
  PROVE  IsPrefix(s, t) <=> Len(s) <= Len(t) /\ \A i \in 1..Len(s) : s[i] = t[i]
<1>1. Len(s) \in Nat /\ Len(t) \in Nat
  OBVIOUS
<1>2. ASSUME Len(s) <= Len(t), Len(s) = 0
      PROVE  SubSeq(s, 1, Len(s)) = SubSeq(t, 1, Len(s))
  BY <1>2
<1>3. ASSUME Len(s) <= Len(t), Len(s) # 0
      PROVE  /\ SubSeq(s, 1, Len(s)) = s
             /\ LET u == SubSeq(t, 1, Len(s))
                IN  u \in Seq(T) /\ Len(u) = Len(s) /\ \A i \in 1..Len(s) : u[i] = t[i]
  <2> DEFINE n == Len(s)
  <2>1. 1 \in 1..Len(s) /\ 1 \in 1..Len(t) /\ n \in 0..Len(s) /\ n \in 0..Len(t) /\ 1 <= n + 1
    BY <1>1, <1>3
  <2>2. n + 1 - 1 = n /\ \A i \in 1..n : 1 + i - 1 = i
    BY <1>1
  <2>3. LET u == SubSeq(t, 1, n)
        IN  u \in Seq(T) /\ Len(u) = n /\ \A i \in 1..n : u[i] = t[i]
    BY <2>1, <2>2, PartOf
  <2>4. SubSeq(s, 1, n) = s
    OBVIOUS
  <2> QED BY <2>3, <2>4
<1>4. ASSUME Len(s) <= Len(t), Len(s) # 0
      PROVE  SubSeq(s, 1, Len(s)) = SubSeq(t, 1, Len(s)) <=> \A i \in 1..Len(s) : s[i] = t[i]
  <2> DEFINE u == SubSeq(t, 1, Len(s))
  <2>1. SubSeq(s, 1, Len(s)) = s /\ u \in Seq(T) /\ Len(u) = Len(s) /\ \A i \in 1..Len(s) : u[i] = t[i]
    BY <1>3, <1>4
  <2> HIDE DEF u
  <2>2. s = u <=> \A i \in 1..Len(s) : s[i] = u[i]
    BY <2>1
  <2>3. SubSeq(s, 1, Len(s)) = u <=> \A i \in 1..Len(s) : s[i] = t[i]
    BY <2>1, <2>2
  <2> QED BY <2>3 DEF u
<1> QED BY <1>1, <1>2, <1>4 DEF IsPrefix

\* The texts of a timeline, place by place.
LEMMA TextsByIndex ==
  ASSUME NEW line \in Seq(Msgs)
  PROVE  /\ TextsOf(line) \in Seq(Texts) /\ Len(TextsOf(line)) = Len(line) /\ Len(line) \in Nat
         /\ \A i \in 1..Len(line) : TextsOf(line)[i] = line[i].text
<1>1. DOMAIN line = 1..Len(line) /\ Len(line) \in Nat /\ \A i \in 1..Len(line) : line[i] \in Msgs
  OBVIOUS
<1>2. \A i \in 1..Len(line) : line[i].text \in Texts
  BY <1>1, MessageFields
<1>3. TextsOf(line) = [i \in 1..Len(line) |-> line[i].text]
  BY <1>1 DEF TextsOf
<1> QED BY <1>1, <1>2, <1>3, IsSequence

\* A timeline begins with another when that one can be merged into it.
LEMMA PrefixOfTexts ==
  ASSUME NEW s \in Seq(Msgs), NEW t \in Seq(Msgs)
  PROVE  IsPrefix(TextsOf(s), TextsOf(t)) <=> Mergeable(t, s)
<1>1. /\ TextsOf(s) \in Seq(Texts) /\ Len(TextsOf(s)) = Len(s) /\ Len(s) \in Nat
      /\ \A i \in 1..Len(s) : TextsOf(s)[i] = s[i].text
  BY TextsByIndex
<1>2. /\ TextsOf(t) \in Seq(Texts) /\ Len(TextsOf(t)) = Len(t) /\ Len(t) \in Nat
      /\ \A i \in 1..Len(t) : TextsOf(t)[i] = t[i].text
  BY TextsByIndex
<1>3. IsPrefix(TextsOf(s), TextsOf(t)) <=>
        Len(s) <= Len(t) /\ \A i \in 1..Len(s) : TextsOf(s)[i] = TextsOf(t)[i]
  BY <1>1, <1>2, PrefixByIndex
<1>4. Mergeable(t, s) <=> Len(t) >= Len(s) /\ \A i \in 1..Len(s) : t[i].text = s[i].text
  BY MergeableByIndex
<1>5. Len(s) <= Len(t) <=> Len(t) >= Len(s)
  BY <1>1, <1>2
<1>6. Len(s) <= Len(t) => \A i \in 1..Len(s) : i \in 1..Len(t)
  BY <1>1, <1>2
<1> QED BY <1>1, <1>2, <1>3, <1>4, <1>5, <1>6

\* LearnedIn and LearnedAt say the same.
LEMMA LearnedByIndex ==
  ASSUME call \in CallSet, NEW k \in Calls, NEW line \in Seq(Msgs)
  PROVE  LearnedIn(k, line) <=> LearnedAt(call, k, line)
<1> DEFINE T == Texts \cup {"none"}
           p == call[k].prompt
           n == Len(p)
           s == Append(p, call[k].reply)
<1>1. p \in Seq(Texts) /\ call[k].reply \in T /\ n \in Nat
  BY DEF CallSet, Texts
<1>2. p \in Seq(T)
  BY <1>1
<1>3. /\ s \in Seq(T) /\ Len(s) = n + 1 /\ s[n + 1] = call[k].reply
      /\ \A i \in 1..n : s[i] = p[i]
  BY <1>1, <1>2
<1>4. /\ TextsOf(line) \in Seq(Texts) /\ Len(TextsOf(line)) = Len(line) /\ Len(line) \in Nat
      /\ \A i \in 1..Len(line) : TextsOf(line)[i] = line[i].text
  BY TextsByIndex
<1>5. TextsOf(line) \in Seq(T)
  BY <1>4
<1> DEFINE Begins == IsPrefix(s, TextsOf(line))
<1>6. Begins <=> Len(s) <= Len(TextsOf(line)) /\ \A i \in 1..Len(s) : s[i] = TextsOf(line)[i]
  <2> DEFINE t == TextsOf(line)
  <2>1. s \in Seq(T) /\ t \in Seq(T)
    BY <1>3, <1>5
  <2> HIDE DEF s, t, T
  <2>2. IsPrefix(s, t) <=> Len(s) <= Len(t) /\ \A i \in 1..Len(s) : s[i] = t[i]
    BY <2>1, PrefixByIndex
  <2> QED BY <2>2 DEF t
<1>7. LearnedIn(k, line) <=> Len(line) > n /\ Begins /\ line[n + 1].author = "llm"
  BY DEF LearnedIn
<1>8. LearnedAt(call, k, line) <=> /\ Len(line) > n
                                   /\ \A m \in 1..n : line[m].text = p[m]
                                   /\ line[n + 1].text = call[k].reply
                                   /\ line[n + 1].author = "llm"
  BY DEF LearnedAt
<1> HIDE DEF Begins, T, p, n, s
<1>9. ASSUME Len(line) > n
      PROVE  Begins <=> (\A m \in 1..n : line[m].text = p[m]) /\ line[n + 1].text = call[k].reply
  <2>1. Begins <=> \A i \in 1..n + 1 : s[i] = line[i].text
    <3>1. n + 1 <= Len(line) /\ \A i \in 1..n + 1 : i \in 1..Len(line)
      BY <1>1, <1>4, <1>9
    <3> QED BY <1>3, <1>4, <1>6, <3>1
  <2>2. \A i \in 1..n + 1 : i = n + 1 \/ i \in 1..n
    BY <1>1
  <2>3. n + 1 \in 1..n + 1 /\ \A i \in 1..n : i \in 1..n + 1
    BY <1>1
  <2> QED BY <1>3, <2>1, <2>2, <2>3
<1> QED BY <1>7, <1>8, <1>9

\* Timelines that agree on their first texts have the same beginning.
LEMMA SameTexts ==
  ASSUME NEW s \in Seq(Msgs), NEW t \in Seq(Msgs), NEW n \in 1..Len(s), n \in 1..Len(t),
         \A m \in 1..n : s[m].text = t[m].text
  PROVE  SubSeq(TextsOf(s), 1, n) = SubSeq(TextsOf(t), 1, n)
<1> DEFINE u == TextsOf(s)
           v == TextsOf(t)
<1>1. /\ u \in Seq(Texts) /\ Len(u) = Len(s) /\ Len(s) \in Nat
      /\ \A i \in 1..Len(s) : u[i] = s[i].text
  BY TextsByIndex
<1>2. /\ v \in Seq(Texts) /\ Len(v) = Len(t) /\ Len(t) \in Nat
      /\ \A i \in 1..Len(t) : v[i] = t[i].text
  BY TextsByIndex
<1> HIDE DEF u, v
<1>3. 1 \in 1..Len(u) /\ 1 \in 1..Len(v) /\ n \in 0..Len(u) /\ n \in 0..Len(v) /\ 1 <= n + 1
  BY <1>1, <1>2
<1>4. n + 1 - 1 = n /\ \A i \in 1..n : 1 + i - 1 = i /\ i \in 1..Len(s) /\ i \in 1..Len(t)
  BY <1>1, <1>2
<1> DEFINE a == SubSeq(u, 1, n)
           b == SubSeq(v, 1, n)
<1>5. a \in Seq(Texts) /\ Len(a) = n /\ \A i \in 1..n : a[i] = u[i]
  BY <1>1, <1>3, <1>4, PartOf
<1>6. b \in Seq(Texts) /\ Len(b) = n /\ \A i \in 1..n : b[i] = v[i]
  BY <1>2, <1>3, <1>4, PartOf
<1> HIDE DEF a, b
<1>7. \A i \in 1..n : a[i] = b[i]
  BY <1>1, <1>2, <1>4, <1>5, <1>6
<1>8. a = b
  BY <1>5, <1>6, <1>7
<1> QED BY <1>8 DEF a, b, u, v

\* What the model said in a call differs at most in whether it was cut short.
LEMMA SameButLack ==
  ASSUME NEW m \in Msgs, NEW o \in Msgs, m.author = "llm", o.author = "llm",
         m.text = o.text, m.tokens = o.tokens
  PROVE  o = [m EXCEPT !.lack = o.lack]
<1> DEFINE Said == [text : Texts, author : {"llm"}, tokens : Calls, lack : BOOLEAN]
<1>1. m \in Said /\ o \in Said
  BY DEF Msgs, Messages
<1> QED BY <1>1

-----------------------------------------------------------------------------
(* The timeline of a call *)

\* A reply lacks its closing tag when it was cut short.
LEMMA LackOfReply == \A text : LackNormalEos(Generated(text)) = (text \in CutShort)
<1>1. Word # Eos
  BY DEF Word, Eos
<1> QED BY <1>1, CutTokens DEF LackNormalEos, Generated

\* The timeline of a call is good once the call is replied to: it ends with that call, has
\* its owner, and teaches its reply.
LEMMA TimelineGood ==
  ASSUME call \in CallSet, NEW k \in Calls, Len(call[k].prompt) >= 1,
         call[k].reply \in Replies \cup {"overflow"},
         NEW d, d[k].serve = "replied", d[k].info = "safe",
         d[k].prompt = call[k].prompt, d[k].reply = call[k].reply
  PROVE  /\ Timeline(k) \in Seq(Msgs)
         /\ GoodLine(d, Timeline(k))
         /\ LastCall(Timeline(k)) = k
         /\ OwnedLine(d, d[k].claim, Timeline(k))
         /\ LearnedAt(d, k, Timeline(k))
         /\ Fresh(Timeline(k))
<1> DEFINE p == call[k].prompt
           n == Len(p)
           asked == [i \in DOMAIN p |-> Message(p[i])]
           line == Timeline(k)
           said == ReplyMessage(k)
<1>1. p \in Seq(Texts) /\ n \in Nat /\ DOMAIN p = 1..n /\ n >= 1 /\ \A i \in 1..n : p[i] \in Texts
  BY DEF CallSet
<1>2. \A text \in Texts : Message(text) \in Msgs
  BY DEF Message, Msgs, Messages
<1>3. said \in Msgs
  <2>1. call[k].reply \in Texts
    BY DEF Texts
  <2>2. (call[k].reply \in CutShort) \in BOOLEAN
    OBVIOUS
  <2>3. said \in [text : Texts, author : {"llm"}, tokens : Calls, lack : BOOLEAN]
    BY <2>1, <2>2, LackOfReply DEF ReplyMessage
  <2> QED BY <2>3 DEF Msgs, Messages
<1>4. asked \in [1..n -> Msgs] /\ \A i \in 1..n : asked[i] = Message(p[i])
  BY <1>1, <1>2
<1>5. asked \in Seq(Msgs) /\ Len(asked) = n
  BY <1>1, <1>4, IsSequence
<1>6. line = asked \o <<said>>
  BY DEF Timeline
<1> HIDE DEF p, n, asked, said, line
<1>7. <<said>> \in Seq(Msgs) /\ Len(<<said>>) = 1 /\ <<said>>[1] = said
  BY <1>3
<1>8. /\ line \in Seq(Msgs) /\ Len(line) = n + 1
      /\ \A i \in 1..n : line[i] = asked[i]
      /\ line[n + 1] = said
  <2> DEFINE t == <<said>>
  <2> HIDE DEF t
  <2>1. t \in Seq(Msgs) /\ Len(t) = 1 /\ t[1] = said
    BY <1>7 DEF t
  <2>2. line = asked \o t
    BY <1>6 DEF t
  <2>3. asked \in Seq(Msgs) /\ t \in Seq(Msgs)
    BY <1>5, <2>1
  <2>4. /\ line \in Seq(Msgs) /\ Len(line) = Len(asked) + Len(t)
        /\ \A j \in 1..Len(asked) : line[j] = asked[j]
        /\ \A j \in 1..Len(t) : line[Len(asked) + j] = t[j]
    BY <2>2, <2>3, Joined
  <2>5. 1 \in 1..Len(t)
    BY <2>1
  <2> QED BY <1>5, <2>1, <2>4, <2>5
<1>9. \A i \in 1..n : line[i].text = p[i] /\ line[i].author = "env" /\ line[i].lack = FALSE
  BY <1>4, <1>8 DEF Message
<1>10. said.text = call[k].reply /\ said.author = "llm" /\ said.tokens = k
       /\ (said.lack => said.text \in CutShort)
  BY LackOfReply DEF said, ReplyMessage
<1>11. \A i \in 1..n + 1 : i = n + 1 \/ i \in 1..n
  BY <1>1
<1>12. 1 \in 1..n /\ (n + 1) - 1 = n /\ n + 1 >= 2 /\ n + 1 > n
  BY <1>1
<1>13. SaidAs(d, line, n + 1)
  BY <1>8, <1>9, <1>10, <1>12 DEF SaidAs, p, n
<1>14. \A j \in 1..n + 1 : /\ line[j].lack => line[j].text \in CutShort
                           /\ line[j].author = "llm" => j = n + 1
  BY <1>8, <1>9, <1>10, <1>11
<1>15. GoodLine(d, line)
  BY <1>8, <1>9, <1>10, <1>12, <1>13, <1>14 DEF GoodLine
<1>16. LastCall(line) = k
  BY <1>8, <1>10 DEF LastCall
<1>17. OwnedLine(d, d[k].claim, line)
  BY <1>8, <1>10, <1>14 DEF OwnedLine
<1>18. LearnedAt(d, k, line)
  BY <1>8, <1>9, <1>10, <1>12 DEF LearnedAt, p, n
<1>19. Fresh(line)
  <2>1. Len(line) - 1 = n
    BY <1>1, <1>8
  <2> QED BY <1>9, <2>1 DEF Fresh
<1> QED BY <1>8, <1>15, <1>16, <1>17, <1>18, <1>19 DEF line

-----------------------------------------------------------------------------
(* The inductive invariant *)

\* The runner has not merged yet.
Early == runner \in {"waiting", "took", "ended"}

\* The call must be in the tracker: its reply was one to be kept, no reset has wiped it, and
\* since the output was taken only what end_episode owed to its caller counts.
Required(k) ==
  /\ call[k].info = "safe" /\ k \notin wiped
  /\ \/ runner = "waiting" /\ call[k].serve = "replied"
     \/ runner \notin {"waiting", "left"} /\ k \in owed

\* How far a call can be with its endpoint's thread and with the service.
CallsInv ==
  \A k \in Calls :
    /\ call[k].wait = "unsent" => call[k].serve = "none"
    /\ call[k].serve # "none" => Len(call[k].prompt) >= 1
    /\ call[k].wait = "answered" => call[k].serve = "replied"
    /\ call[k].serve = "saving" => call[k].info = "safe" /\ loaded # NoSave
    /\ call[k].serve \in {"saving", "replied"} => call[k].reply \in Replies \cup {"overflow"}

\* The tracker is closed after the merge.
PhaseInv == Early \/ runner = "merged" => ~readonly

\* The timelines saved, and those a save will store.
LinesInv ==
  /\ GoodLines(call, saved)
  /\ loaded # NoSave => GoodLines(call, loaded)

\* Unless a save was late, there are timelines of one owner only, none from a reset to the
\* next claim, and none of another's in the list that the owner's own save has loaded.
OwnersInv ==
  ~late => /\ OwnedLines(call, Owner, saved)
           /\ runner = "waiting" /\ (record = "registered" \/ writes > 0) => saved = <<>>
           /\ \A k \in Calls : call[k].serve = "saving" /\ call[k].claim = Owner /\ Early =>
                OwnedLines(call, Owner, loaded)

\* What was replied stays in the list, and in the one that a save has loaded.
KeptInv ==
  /\ \A k \in owed : call[k].wait = "answered"
  /\ \A k \in Calls : Required(k) => /\ LearnedOf(call, k, saved)
                                     /\ loaded # NoSave => LearnedOf(call, k, loaded)

\* A reset wipes replies only, and the revert that waits for it will write the record.
WipedInv ==
  /\ \A k \in wiped : call[k].serve = "replied"
  /\ ResetTakesClaim

\* Only the last message of a timeline is the model's before the merge, and no two timelines
\* have an answer in common after it, unless a save was late.
OnceInv ==
  /\ Early => FreshLines(saved) /\ (loaded # NoSave => FreshLines(loaded))
  /\ ~Early /\ ~late => Parted(saved, 1..Len(saved))

MergedInv == runner = "merged" /\ ~late => GoodLines(call, raw) /\ MergedFrom(raw, saved)

SamplesInv ==
  runner = "finished" =>
    /\ \A t \in samples : GoodLine(call, t)
    /\ ~late => /\ \A t \in samples : OwnedLine(call, owner, t)
                /\ \A s, t \in samples : s # t => ~Shares(s, t)
    /\ Cardinality(samples) < MaxSamples =>
         \A k \in owed \ wiped : call[k].info = "safe" => \E t \in samples : LearnedAt(call, k, t)

IInv ==
  /\ TypeOK /\ CallsInv /\ PhaseInv /\ LinesInv /\ OwnersInv /\ KeptInv /\ WipedInv /\ OnceInv
  /\ MergedInv /\ SamplesInv /\ RewardsAligned

\* The calls are as the type invariant says.
LEMMA TypedCalls ==
  ASSUME TypeOK
  PROVE  /\ call \in CallSet
         /\ \A k \in Calls : call[k].prompt \in Seq(Texts) /\ Len(call[k].prompt) \in Nat
BY DEF TypeOK, CallSet

\* The samples are as good as they were when the calls have only grown.
LEMMA GrownSamples ==
  ASSUME TypeOK, CallsInv, KeptInv, SamplesInv, Grows(call, call'),
         UNCHANGED <<owner, runner, samples, owed, wiped, late>>
  PROVE  SamplesInv'
<1> SUFFICES ASSUME runner = "finished"
             PROVE  /\ \A t \in samples : GoodLine(call', t)
                    /\ ~late => /\ \A t \in samples : OwnedLine(call', owner, t)
                                /\ \A s, t \in samples : s # t => ~Shares(s, t)
                    /\ Cardinality(samples) < MaxSamples =>
                         \A k \in owed \ wiped :
                           call'[k].info = "safe" => \E t \in samples : LearnedAt(call', k, t)
  BY DEF SamplesInv
<1>1. \A t \in samples : t \in Seq(Msgs) /\ GoodLine(call, t)
  BY DEF SamplesInv, TypeOK, Msgs
<1>2. \A t \in samples : GoodLine(call', t) /\ \A n : OwnedLine(call, n, t) => OwnedLine(call', n, t)
  BY <1>1, GrowsKeepsLine
<1>3. ~late => \A t \in samples : OwnedLine(call', owner, t)
  BY <1>2 DEF SamplesInv
<1>4. ~late => \A s, t \in samples : s # t => ~Shares(s, t)
  BY DEF SamplesInv
<1>5. ASSUME Cardinality(samples) < MaxSamples, NEW k \in owed \ wiped, call'[k].info = "safe"
      PROVE  \E t \in samples : LearnedAt(call', k, t)
  <2>1. k \in Calls /\ call[k].serve = "replied"
    BY DEF TypeOK, KeptInv, CallsInv
  <2>2. call[k].info = "safe" /\ call'[k].prompt = call[k].prompt /\ call'[k].reply = call[k].reply
    BY <1>5, <2>1 DEF Grows
  <2>3. PICK t \in samples : LearnedAt(call, k, t)
    BY <1>5, <2>2 DEF SamplesInv
  <2> QED BY <2>2, <2>3 DEF LearnedAt
<1> QED BY <1>2, <1>3, <1>4, <1>5

\* What a reset has wiped stays so when the calls have only grown.
LEMMA GrownWiped ==
  ASSUME TypeOK, WipedInv, Grows(call, call'), UNCHANGED <<record, claims, writes, wiped>>
  PROVE  WipedInv'
<1>1. \A k \in wiped : k \in Calls /\ call[k].serve = "replied"
  BY DEF TypeOK, WipedInv
<1>2. \A k \in wiped : call'[k].serve = "replied" /\ call'[k].claim = call[k].claim
  BY <1>1 DEF Grows
<1> QED BY <1>2 DEF WipedInv, ResetTakesClaim

\* A step after which the calls have only grown, and that begins no save, leaves the
\* timelines as good as they were.
LEMMA GrowingKeeps ==
  ASSUME IInv, Grows(call, call'),
         UNCHANGED <<record, claims, writes, saved, loaded, runner, samples, rewards>>,
         UNCHANGED <<owner, owed, wiped, raw, late>>,
         \A k \in Calls : call'[k].serve = "saving" => call'[k] = call[k]
  PROVE  /\ LinesInv' /\ OwnersInv' /\ WipedInv' /\ OnceInv' /\ MergedInv' /\ SamplesInv' /\ RewardsAligned'
         /\ \A k \in Calls : Required(k) => /\ LearnedOf(call', k, saved')
                                            /\ loaded' # NoSave => LearnedOf(call', k, loaded')
<1>1. LinesInv'
  BY GrowsKeepsLines DEF IInv, LinesInv
<1>2. OwnersInv'
  <2> SUFFICES ASSUME ~late
               PROVE  /\ OwnedLines(call', Owner, saved)
                      /\ runner = "waiting" /\ (record = "registered" \/ writes > 0) => saved = <<>>
                      /\ \A k \in Calls : call'[k].serve = "saving" /\ call'[k].claim = Owner /\ Early =>
                           OwnedLines(call', Owner, loaded)
    BY DEF OwnersInv, Owner, Early
  <2>1. OwnedLines(call', Owner, saved)
    BY GrowsKeepsLines DEF IInv, LinesInv, OwnersInv
  <2>2. ASSUME NEW k \in Calls, call'[k].serve = "saving", call'[k].claim = Owner, Early
        PROVE  OwnedLines(call', Owner, loaded)
    <3>1. call[k].serve = "saving" /\ call[k].claim = Owner
      BY <2>2
    <3>2. loaded # NoSave /\ OwnedLines(call, Owner, loaded)
      BY <2>2, <3>1 DEF IInv, CallsInv, OwnersInv
    <3> QED BY <3>2, GrowsKeepsLines DEF IInv, LinesInv
  <2> QED BY <2>1, <2>2 DEF IInv, OwnersInv
<1>3. OnceInv'
  BY DEF IInv, OnceInv, Early
<1>4. MergedInv'
  BY GrowsKeepsLines DEF IInv, MergedInv
<1>5. WipedInv' /\ SamplesInv'
  BY GrownSamples, GrownWiped DEF IInv
<1>6. RewardsAligned'
  BY DEF IInv, RewardsAligned
<1>7. ASSUME NEW k \in Calls, Required(k)
      PROVE  /\ LearnedOf(call', k, saved')
             /\ loaded' # NoSave => LearnedOf(call', k, loaded')
  <2>1. call[k].serve = "replied"
    BY <1>7 DEF IInv, TypeOK, KeptInv, CallsInv, Required
  <2>2. LearnedOf(call, k, saved) /\ (loaded # NoSave => LearnedOf(call, k, loaded))
    BY <1>7 DEF IInv, KeptInv
  <2> QED BY <2>1, <2>2, GrowsKeepsLines DEF IInv, LinesInv
<1> QED BY <1>1, <1>2, <1>3, <1>4, <1>5, <1>6, <1>7

\* In the beginning there is no call and no timeline.
LEMMA InitIInv == Init => IInv
<1> SUFFICES ASSUME Init
             PROVE  IInv
  OBVIOUS
<1> USE TrackerAssumption DEF Init, Unsent
<1>1. saved \in TimelineLists /\ Len(saved) = 0 /\ GoodLines(call, saved)
  <2>1. saved = <<>> /\ <<>> \in TimelineLists /\ Len(<<>>) = 0
    BY DEF TimelineLists
  <2>2. 1..0 = {}
    OBVIOUS
  <2> QED BY <2>1, <2>2 DEF GoodLines
<1>2. TypeOK
  <2>1. Cardinality(Calls) \in Nat
    BY FS_CardinalityType
  <2>2. samples \subseteq Seq(Messages(Texts, Calls)) /\ Cardinality(samples) = 0
    BY FS_EmptySet
  <2>3. call \in [Calls -> [claim : 0..claims, prompt : Seq(Texts), reply : Replies \cup {"none", "overflow"},
                            wait : Waits, serve : Serves, info : Infos]]
    <3>1. <<>> \in Seq(Texts)
      OBVIOUS
    <3> QED BY <3>1 DEF Waits, Serves, Infos
  <2>4. \A k, n \in Busy : k = n
    BY DEF Busy
  <2>5. claims \in 0..MaxClaims /\ rewards \in 0..Cardinality(Calls) /\ Cardinality(samples) <= MaxSamples
    BY <2>1, <2>2
  <2>6. /\ stopping \in BOOLEAN /\ {terminate, readonly, mad, late} \subseteq BOOLEAN
        /\ record \in {"registered", "claimed", "gone"} /\ service \in {"up", "down"}
        /\ loaded \in TimelineLists \cup {NoSave} /\ loaded = NoSave
        /\ runner = "waiting" /\ {owed, wiped} \subseteq SUBSET Calls
    OBVIOUS
  <2>7. {resets, writes} \subseteq Nat /\ resets + writes <= MaxReverts /\ {output, owner} \subseteq 0..claims
    OBVIOUS
  <2> HIDE DEF Init
  <2> QED BY <1>1, <2>2, <2>3, <2>4, <2>5, <2>6, <2>7 DEF TypeOK
<1>3. CallsInv
  BY DEF CallsInv
<1>4. PhaseInv
  BY DEF PhaseInv
<1>5. LinesInv
  BY <1>1 DEF LinesInv
<1>6. OwnersInv
  <2>1. 1..0 = {}
    OBVIOUS
  <2> QED BY <1>1, <2>1 DEF OwnersInv, OwnedLines
<1>7. KeptInv
  BY DEF KeptInv, Required
<1>8. MergedInv /\ SamplesInv /\ RewardsAligned
  BY DEF MergedInv, SamplesInv, RewardsAligned
<1>9. WipedInv
  BY DEF WipedInv, ResetTakesClaim
<1>10. OnceInv
  <2>1. 1..0 = {}
    OBVIOUS
  <2> QED BY <1>1, <2>1 DEF OnceInv, FreshLines, Early
<1> QED BY <1>2, <1>3, <1>4, <1>5, <1>6, <1>7, <1>8, <1>9, <1>10 DEF IInv

-----------------------------------------------------------------------------
(* The steps of the endpoint and of the service *)

\* A step that changes one call, and neither begins nor ends a save.
LEMMA CallStepKeeps ==
  ASSUME IInv, NEW k \in Calls,
         NEW c \in [claim : 0..claims, prompt : Seq(Texts), reply : Replies \cup {"none", "overflow"},
                    wait : Waits, serve : Serves, info : Infos],
         call' = [call EXCEPT ![k] = c],
         UNCHANGED <<recordVars, terminate, saved, loaded, readonly, rewards, runner, samples, history>>,
         stopping' \in BOOLEAN, service' \in {"up", "down"}, mad' \in BOOLEAN,
         Grows(call, call'), Required(k)' => Required(k),
         k \in owed => c.wait = "answered",
         call[k].serve # "saving", c.serve # "saving",
         c.serve = "inferring" => Busy \subseteq {k},
         c.wait = "unsent" => c.serve = "none",
         c.serve # "none" => Len(c.prompt) >= 1,
         c.wait = "answered" => c.serve = "replied",
         c.serve = "replied" => c.reply \in Replies \cup {"overflow"}
  PROVE  IInv'
<1>1. \A n \in Calls : (n = k /\ call'[n] = c) \/ (n # k /\ call'[n] = call[n])
  BY TypedCalls DEF IInv, CallSet
<1>2. TypeOK'
  <2>1. call' \in [Calls -> [claim : 0..claims, prompt : Seq(Texts), reply : Replies \cup {"none", "overflow"},
                             wait : Waits, serve : Serves, info : Infos]]
    BY DEF IInv, TypeOK
  <2>2. \A n, m \in Busy' : n = m
    BY <1>1 DEF IInv, TypeOK, Busy
  <2>3. loaded' # NoSave => \E n \in Calls : call'[n].serve = "saving"
    BY <1>1 DEF IInv, TypeOK
  <2> QED BY <2>1, <2>2, <2>3 DEF IInv, TypeOK, recordVars, history
<1>3. CallsInv'
  BY <1>1 DEF IInv, CallsInv
<1>4. PhaseInv'
  BY DEF IInv, PhaseInv, Early
<1>5. \A n \in Calls : call'[n].serve = "saving" => call'[n] = call[n]
  BY <1>1
<1>6. /\ LinesInv' /\ OwnersInv' /\ WipedInv' /\ OnceInv' /\ MergedInv' /\ SamplesInv' /\ RewardsAligned'
      /\ \A n \in Calls : Required(n) => /\ LearnedOf(call', n, saved')
                                         /\ loaded' # NoSave => LearnedOf(call', n, loaded')
  BY <1>5, GrowingKeeps DEF recordVars, history
<1>7. KeptInv'
  <2>1. \A n \in owed' : call'[n].wait = "answered"
    BY <1>1 DEF IInv, TypeOK, KeptInv, history
  <2>2. ASSUME NEW n \in Calls, Required(n)'
        PROVE  Required(n)
    <3>1. CASE n = k
      BY <2>2, <3>1
    <3>2. CASE n # k
      BY <1>1, <2>2, <3>2 DEF Required, history
    <3> QED BY <3>1, <3>2
  <2>3. \A n \in Calls : Required(n)' => /\ LearnedOf(call', n, saved')
                                         /\ loaded' # NoSave => LearnedOf(call', n, loaded')
    BY <1>6, <2>2
  <2> QED BY <2>1, <2>3 DEF KeptInv
<1> QED BY <1>2, <1>3, <1>4, <1>6, <1>7 DEF IInv

\* A call that is not replied to yet may change as it likes.
LEMMA GrowsUnless ==
  ASSUME call \in CallSet, NEW k \in Calls, NEW c, call' = [call EXCEPT ![k] = c], call[k].serve # "replied"
  PROVE  Grows(call, call')
BY DEF CallSet, Grows

\* A client asks something.
LEMMA PromptsAre ==
  ASSUME TypeOK, CallsInv, NEW claim, NEW prompt \in Prompts(claim)
  PROVE  prompt \in Seq(Texts) /\ Len(prompt) >= 1
<1>1. {"user", "edited"} \subseteq Texts
  BY DEF Texts
<1>2. CASE prompt = <<"user">>
  BY <1>1, <1>2
<1>3. ASSUME NEW n \in Calls, call[n].wait = "answered", NEW text \in {call[n].reply, "edited"},
             prompt = call[n].prompt \o <<text, "user">>
      PROVE  prompt \in Seq(Texts) /\ Len(prompt) >= 1
  <2> DEFINE s == call[n].prompt
             t == <<text, "user">>
  <2>1. call[n].reply \in Texts
    BY <1>3 DEF CallsInv, Texts
  <2>2. t \in Seq(Texts) /\ Len(t) = 2
    BY <1>1, <2>1
  <2>3. s \in Seq(Texts) /\ Len(s) \in Nat
    BY TypedCalls
  <2> HIDE DEF s, t
  <2>4. prompt = s \o t
    BY <1>3 DEF s, t
  <2>5. prompt \in Seq(Texts) /\ Len(prompt) = Len(s) + Len(t)
    BY <2>2, <2>3, <2>4, Joined
  <2> QED BY <2>2, <2>3, <2>5
<1> QED BY <1>2, <1>3 DEF Prompts

\* A call that begins has nothing to do with any timeline.
LEMMA SendKeeps ==
  ASSUME IInv, NEW k \in Calls, Send(k)
  PROVE  IInv'
<1> DEFINE Call(claim, prompt) ==
      [Unsent EXCEPT !.claim = claim, !.prompt = prompt, !.serve = "queued",
                     !.wait = IF record = "registered" THEN "refused" ELSE "waiting"]
<1>a. PICK claim \in 1..claims :
        \E prompt \in Prompts(claim) : call' = [call EXCEPT ![k] = Call(claim, prompt)]
  BY DEF Send
<1>b. PICK prompt \in Prompts(claim) : call' = [call EXCEPT ![k] = Call(claim, prompt)]
  BY <1>a
<1> DEFINE c == Call(claim, prompt)
<1>1. prompt \in Seq(Texts) /\ Len(prompt) >= 1
  BY PromptsAre DEF IInv
<1>2. /\ c.claim = claim /\ c.prompt = prompt /\ c.serve = "queued" /\ c.reply = "none" /\ c.info = "none"
      /\ c.wait \in {"refused", "waiting"}
  BY DEF Unsent
<1>3. c \in [claim : 0..claims, prompt : Seq(Texts), reply : Replies \cup {"none", "overflow"},
             wait : Waits, serve : Serves, info : Infos]
  <2>1. claim \in 0..claims
    BY DEF IInv, TypeOK
  <2> QED BY <1>1, <2>1 DEF Unsent, Waits, Serves, Infos
<1>4. call[k].wait = "unsent" /\ call[k].serve = "none"
  BY DEF Send, IInv, CallsInv
<1>5. /\ call' = [call EXCEPT ![k] = c]
      /\ UNCHANGED <<recordVars, terminate, saved, loaded, readonly, rewards, runner, samples, history>>
      /\ UNCHANGED <<stopping, service, mad>>
  BY <1>b DEF Send, trackerVars
<1> HIDE DEF c
<1>6. Grows(call, call')
  BY <1>4, <1>5, TypedCalls, GrowsUnless DEF IInv
<1>7. call'[k] = c
  BY <1>5, TypedCalls DEF IInv, CallSet
<1>8. k \notin owed /\ ~Required(k)'
  BY <1>2, <1>4, <1>7 DEF IInv, KeptInv, Required
<1>9. stopping' \in BOOLEAN /\ service' \in {"up", "down"} /\ mad' \in BOOLEAN
  BY <1>5 DEF IInv, TypeOK
<1> QED BY <1>1, <1>2, <1>3, <1>4, <1>5, <1>6, <1>8, <1>9, CallStepKeeps

\* An answer that reaches its client was replied before.
LEMMA AnswerKeeps ==
  ASSUME IInv, NEW k \in Calls, Answer(k)
  PROVE  IInv'
<1> DEFINE c == [call[k] EXCEPT !.wait = "answered"]
<1>1. call \in CallSet /\ call[k] \in [claim : 0..claims, prompt : Seq(Texts), reply : Replies \cup {"none", "overflow"},
                  wait : Waits, serve : Serves, info : Infos]
  BY TypedCalls DEF IInv, TypeOK
<1>2. /\ c.claim = call[k].claim /\ c.prompt = call[k].prompt /\ c.serve = "replied"
      /\ c.reply = call[k].reply /\ c.info = call[k].info /\ c.wait = "answered"
  BY <1>1 DEF Answer
<1>3. c \in [claim : 0..claims, prompt : Seq(Texts), reply : Replies \cup {"none", "overflow"},
             wait : Waits, serve : Serves, info : Infos]
  BY <1>1 DEF Waits
<1>4. /\ call[k].serve = "replied" /\ Len(call[k].prompt) >= 1
      /\ call[k].reply \in Replies \cup {"overflow"}
  BY DEF Answer, IInv, CallsInv
<1>5. /\ call' = [call EXCEPT ![k] = c]
      /\ UNCHANGED <<recordVars, terminate, saved, loaded, readonly, rewards, runner, samples, history>>
      /\ UNCHANGED <<stopping, service, mad>>
  BY DEF Answer, trackerVars
<1> HIDE DEF c
<1>6. call'[k] = c /\ \A n \in Calls : n # k => call'[n] = call[n]
  BY <1>1, <1>5 DEF CallSet
<1>7. Grows(call, call')
  BY <1>2, <1>4, <1>6 DEF Grows
<1>8. Required(k)' => Required(k)
  BY <1>2, <1>4, <1>5, <1>6 DEF Required, history
<1>9. stopping' \in BOOLEAN /\ service' \in {"up", "down"} /\ mad' \in BOOLEAN
  BY <1>5 DEF IInv, TypeOK
<1> QED BY <1>2, <1>3, <1>4, <1>5, <1>7, <1>8, <1>9, CallStepKeeps

\* A prompt that is too long is answered, but never taken for safe.
LEMMA ServeKeeps ==
  ASSUME IInv, NEW k \in Calls, Serve(k)
  PROVE  IInv'
<1> DEFINE long == Len(call[k].prompt) > MaxMessages
           c == IF long THEN [call[k] EXCEPT !.serve = "replied", !.info = Prepare(k), !.reply = "overflow"]
                        ELSE [call[k] EXCEPT !.serve = "inferring", !.info = Prepare(k)]
<1>1. call \in CallSet /\ call[k] \in [claim : 0..claims, prompt : Seq(Texts), reply : Replies \cup {"none", "overflow"},
                  wait : Waits, serve : Serves, info : Infos]
  BY TypedCalls DEF IInv, TypeOK
<1>2. Prepare(k) \in Infos /\ (long => Prepare(k) # "safe")
  BY DEF IInv, TypeOK, Prepare, Infos
<1>3. /\ c \in [claim : 0..claims, prompt : Seq(Texts), reply : Replies \cup {"none", "overflow"},
                wait : Waits, serve : Serves, info : Infos]
      /\ c.prompt = call[k].prompt /\ c.wait = call[k].wait
      /\ \/ c.serve = "replied" /\ c.info # "safe" /\ c.reply = "overflow"
         \/ c.serve = "inferring"
  BY <1>1, <1>2 DEF Serves
<1>4. call[k].serve = "queued" /\ Len(call[k].prompt) >= 1 /\ call[k].wait \notin {"unsent", "answered"}
  BY DEF Serve, IInv, CallsInv
<1>5. /\ call' = [call EXCEPT ![k] = c]
      /\ UNCHANGED <<recordVars, terminate, saved, loaded, readonly, rewards, runner, samples, history>>
      /\ UNCHANGED <<stopping, service, mad>>
      /\ Busy \subseteq {k}
  BY DEF Serve, trackerVars
<1> HIDE DEF c
<1>6. call'[k] = c
  BY <1>1, <1>5 DEF CallSet
<1>7. Grows(call, call')
  BY <1>1, <1>4, <1>5, GrowsUnless
<1>8. k \notin owed
  BY <1>4 DEF IInv, KeptInv
<1>9. ~Required(k)'
  BY <1>3, <1>5, <1>6, <1>8 DEF Required, history
<1>10. stopping' \in BOOLEAN /\ service' \in {"up", "down"} /\ mad' \in BOOLEAN
  BY <1>5 DEF IInv, TypeOK
<1> QED BY <1>3, <1>4, <1>5, <1>7, <1>8, <1>9, <1>10, CallStepKeeps

\* An inference that fails leaves no trace.
LEMMA ServiceFailsKeeps ==
  ASSUME IInv, NEW k \in Calls, ServiceFails(k)
  PROVE  IInv'
<1> DEFINE c == [call[k] EXCEPT !.serve = "failed"]
<1>1. call \in CallSet /\ call[k] \in [claim : 0..claims, prompt : Seq(Texts), reply : Replies \cup {"none", "overflow"},
                  wait : Waits, serve : Serves, info : Infos]
  BY TypedCalls DEF IInv, TypeOK
<1>2. /\ c \in [claim : 0..claims, prompt : Seq(Texts), reply : Replies \cup {"none", "overflow"},
                wait : Waits, serve : Serves, info : Infos]
      /\ c.prompt = call[k].prompt /\ c.wait = call[k].wait /\ c.serve = "failed"
  BY <1>1 DEF Serves
<1>3. call[k].serve = "inferring" /\ Len(call[k].prompt) >= 1 /\ call[k].wait \notin {"unsent", "answered"}
  BY DEF ServiceFails, IInv, CallsInv
<1>4. /\ call' = [call EXCEPT ![k] = c]
      /\ UNCHANGED <<recordVars, terminate, saved, loaded, readonly, rewards, runner, samples, history>>
      /\ UNCHANGED <<stopping, mad>> /\ service' = "down"
  BY DEF ServiceFails, trackerVars
<1> HIDE DEF c
<1>5. call'[k] = c
  BY <1>1, <1>4 DEF CallSet
<1>6. Grows(call, call')
  BY <1>1, <1>3, <1>4, GrowsUnless
<1>7. k \notin owed
  BY <1>3 DEF IInv, KeptInv
<1>8. ~Required(k)'
  BY <1>2, <1>4, <1>5, <1>7 DEF Required, history
<1>9. stopping' \in BOOLEAN /\ service' \in {"up", "down"} /\ mad' \in BOOLEAN
  BY <1>4 DEF IInv, TypeOK
<1> QED BY <1>2, <1>3, <1>4, <1>6, <1>7, <1>8, <1>9, CallStepKeeps

\* Only one call is with the service, so nobody else saves.
LEMMA AloneInService ==
  ASSUME TypeOK, NEW k \in Calls, call[k].serve \in {"inferring", "saving"}
  PROVE  /\ \A n \in Calls : n # k => call[n].serve \notin {"inferring", "saving"}
         /\ call[k].serve = "inferring" => loaded = NoSave
BY DEF TypeOK, Busy

\* The tracker either loads the list that is there, or has a reason not to keep the reply:
\* it is not safe, or the tracker is closed, which nobody waits for any more.
LEMMA TrackKeeps ==
  ASSUME IInv, NEW k \in Calls, TrackStep(k)
  PROVE  IInv'
<1> PICK reply \in Replies : Track(k, reply)
  BY DEF TrackStep
<1>1. call \in CallSet /\ call[k] \in [claim : 0..claims, prompt : Seq(Texts), reply : Replies \cup {"none", "overflow"},
                  wait : Waits, serve : Serves, info : Infos]
  BY TypedCalls DEF IInv, TypeOK
<1>2. /\ call[k].serve = "inferring" /\ Len(call[k].prompt) >= 1 /\ call[k].wait \notin {"unsent", "answered"}
      /\ k \notin owed
  BY DEF Track, IInv, CallsInv, KeptInv
<1>3. mad' \in BOOLEAN
  BY DEF Track, IInv, TypeOK
<1>4. CASE call[k].info = "safe" /\ ~readonly
  <2> DEFINE c == [call[k] EXCEPT !.serve = "saving", !.reply = reply]
  <2>1. /\ c \in [claim : 0..claims, prompt : Seq(Texts), reply : Replies \cup {"none", "overflow"},
                  wait : Waits, serve : Serves, info : Infos]
        /\ c.prompt = call[k].prompt /\ c.wait = call[k].wait /\ c.serve = "saving" /\ c.reply = reply
        /\ c.info = "safe"
    BY <1>1, <1>4 DEF Serves
  <2>2. /\ call' = [call EXCEPT ![k] = c] /\ loaded' = saved
        /\ UNCHANGED <<stopping, recordVars, service, terminate, saved, readonly, rewards, runner, samples>>
        /\ UNCHANGED <<owner, owed, wiped, raw, late>>
    BY <1>4 DEF Track, history
  <2> HIDE DEF c
  <2>3. \A n \in Calls : (n = k /\ call'[n] = c) \/ (n # k /\ call'[n] = call[n])
    BY <1>1, <2>2 DEF CallSet
  <2>4. Grows(call, call')
    BY <1>1, <1>2, <2>2, GrowsUnless
  <2>5. saved \in TimelineLists /\ saved # NoSave /\ loaded = NoSave
    BY <1>2, TrackerAssumption, AloneInService DEF IInv, TypeOK
  <2>6. \A n \in Calls : n # k => call'[n].serve \notin {"inferring", "saving"}
    BY <1>2, <2>3, AloneInService DEF IInv
  <2>7. TypeOK'
    <3>1. call' \in [Calls -> [claim : 0..claims, prompt : Seq(Texts), reply : Replies \cup {"none", "overflow"},
                               wait : Waits, serve : Serves, info : Infos]]
      BY <2>1, <2>2 DEF IInv, TypeOK
    <3>2. \A n, m \in Busy' : n = m
      BY <2>6 DEF Busy
    <3>3. call'[k].serve = "saving"
      BY <2>1, <2>3
    <3> QED BY <1>3, <2>2, <2>5, <3>1, <3>2, <3>3 DEF IInv, TypeOK, recordVars
  <2>8. CallsInv'
    BY <1>2, <2>1, <2>2, <2>3, <2>5, <2>6 DEF IInv, CallsInv
  <2>9. PhaseInv'
    BY <2>2 DEF IInv, PhaseInv, Early
  <2>10. GoodLines(call', saved)
    BY <2>4, GrowsKeepsLines DEF IInv, LinesInv
  <2>11. LinesInv'
    BY <2>2, <2>10 DEF LinesInv
  <2>12. OwnersInv'
    <3> SUFFICES ASSUME ~late
                 PROVE  /\ OwnedLines(call', Owner, saved)
                        /\ runner = "waiting" /\ (record = "registered" \/ writes > 0) => saved = <<>>
      BY <2>2 DEF OwnersInv, Owner, recordVars
    <3> QED BY <2>4, GrowsKeepsLines DEF IInv, LinesInv, OwnersInv
  <2>13. KeptInv'
    <3>1. \A n \in owed : call'[n].wait = "answered"
      BY <1>2, <2>3 DEF IInv, TypeOK, KeptInv
    <3>2. ASSUME NEW n \in Calls, Required(n)'
          PROVE  LearnedOf(call', n, saved)
      <4>1. n # k
        BY <1>2, <2>1, <2>2, <2>3, <3>2 DEF Required
      <4>2. call'[n] = call[n]
        BY <2>3, <4>1
      <4>3. Required(n) /\ call[n].serve = "replied"
        BY <2>2, <3>2, <4>2 DEF Required, IInv, KeptInv, CallsInv
      <4> QED BY <2>4, <4>3, GrowsKeepsLines DEF IInv, LinesInv, KeptInv
    <3> QED BY <2>2, <3>1, <3>2 DEF KeptInv
  <2>14. MergedInv'
    BY <2>2, <2>4, GrowsKeepsLines DEF IInv, MergedInv
  <2>15. SamplesInv' /\ RewardsAligned' /\ WipedInv'
    BY <2>2, <2>4, GrownSamples, GrownWiped DEF IInv, RewardsAligned, recordVars
  <2>16. OnceInv'
    BY <2>2 DEF IInv, OnceInv, Early
  <2> QED BY <2>7, <2>8, <2>9, <2>11, <2>12, <2>13, <2>14, <2>15, <2>16 DEF IInv
<1>5. CASE ~(call[k].info = "safe" /\ ~readonly)
  <2> DEFINE c == [call[k] EXCEPT !.serve = "replied", !.reply = reply]
  <2>1. /\ c \in [claim : 0..claims, prompt : Seq(Texts), reply : Replies \cup {"none", "overflow"},
                  wait : Waits, serve : Serves, info : Infos]
        /\ c.prompt = call[k].prompt /\ c.wait = call[k].wait /\ c.serve = "replied" /\ c.reply = reply
        /\ c.info = call[k].info
    BY <1>1 DEF Serves
  <2>2. /\ call' = [call EXCEPT ![k] = c]
        /\ UNCHANGED <<recordVars, terminate, saved, loaded, readonly, rewards, runner, samples, history>>
        /\ UNCHANGED <<stopping, service>>
    BY <1>5 DEF Track
  <2> HIDE DEF c
  <2>3. call'[k] = c
    BY <1>1, <2>2 DEF CallSet
  <2>4. Grows(call, call')
    BY <1>1, <1>2, <2>2, GrowsUnless
  <2>5. ~Required(k)'
    <3>1. c.info = "safe" => runner # "waiting"
      BY <1>5, <2>1 DEF IInv, PhaseInv, Early
    <3> QED BY <1>2, <2>2, <2>3, <3>1 DEF Required, history
  <2>6. stopping' \in BOOLEAN /\ service' \in {"up", "down"}
    BY <2>2 DEF IInv, TypeOK
  <2> QED BY <1>2, <1>3, <2>1, <2>2, <2>4, <2>5, <2>6, CallStepKeeps
<1> QED BY <1>4, <1>5

\* A save stores what it has loaded and one more; if a reset or the merge came in between,
\* it is late.
LEMMA SaveKeeps ==
  ASSUME IInv, NEW k \in Calls, Save(k)
  PROVE  IInv'
<1> DEFINE line == Timeline(k)
           c == [call[k] EXCEPT !.serve = "replied"]
<1>1. call \in CallSet /\ call[k] \in [claim : 0..claims, prompt : Seq(Texts), reply : Replies \cup {"none", "overflow"},
                  wait : Waits, serve : Serves, info : Infos]
  BY TypedCalls DEF IInv, TypeOK
<1>2. /\ call[k].serve = "saving" /\ Len(call[k].prompt) >= 1 /\ call[k].wait \notin {"unsent", "answered"}
      /\ k \notin owed /\ call[k].info = "safe" /\ loaded # NoSave /\ call[k].reply \in Replies \cup {"overflow"}
  BY DEF Save, IInv, CallsInv, KeptInv
<1>3. /\ c \in [claim : 0..claims, prompt : Seq(Texts), reply : Replies \cup {"none", "overflow"},
                wait : Waits, serve : Serves, info : Infos]
      /\ c.prompt = call[k].prompt /\ c.wait = call[k].wait /\ c.serve = "replied" /\ c.reply = call[k].reply
      /\ c.info = "safe" /\ c.claim = call[k].claim
  BY <1>1, <1>2 DEF Serves
<1>4. /\ call' = [call EXCEPT ![k] = c] /\ saved' = Append(loaded, line) /\ loaded' = NoSave
      /\ UNCHANGED <<stopping, recordVars, service, terminate, readonly, mad, rewards, runner, samples>>
      /\ UNCHANGED <<owner, owed, wiped, raw>>
      /\ late' = (late \/ Stale(k))
      /\ ~late' => /\ ~late /\ call[k].claim = Owner /\ Early
                   /\ ~(runner = "waiting" /\ (record = "registered" \/ writes > 0))
  BY DEF Save, Stale, Early
<1> HIDE DEF c
<1>5. call'[k] = c /\ \A n \in Calls : (n = k /\ call'[n] = c) \/ (n # k /\ call'[n] = call[n])
  BY <1>1, <1>4 DEF CallSet
<1>6. Grows(call, call')
  BY <1>1, <1>2, <1>4, GrowsUnless
<1>7. \A n \in Calls : call'[n].serve \notin {"inferring", "saving"}
  BY <1>2, <1>3, <1>5, AloneInService DEF IInv
<1>8. /\ line \in Seq(Msgs) /\ GoodLine(call', line) /\ LastCall(line) = k
      /\ OwnedLine(call', call[k].claim, line) /\ LearnedAt(call', k, line) /\ Fresh(line)
  <2>1. /\ call'[k].serve = "replied" /\ call'[k].info = "safe" /\ call'[k].claim = call[k].claim
        /\ call'[k].prompt = call[k].prompt /\ call'[k].reply = call[k].reply
    BY <1>3, <1>5
  <2> QED BY <1>1, <1>2, <2>1, TimelineGood
<1> HIDE DEF line
<1>9. GoodLines(call, loaded) /\ GoodLines(call', loaded)
  BY <1>2, <1>6, GrowsKeepsLines DEF IInv, LinesInv
<1>10. \A i \in 1..Len(loaded) : LastCall(loaded[i]) # LastCall(line)
  <2> TAKE i \in 1..Len(loaded)
  <2>1. loaded[i] \in Seq(Msgs) /\ Len(loaded[i]) \in Nat
    BY <1>9, LinesOf DEF GoodLines
  <2>2. Len(loaded[i]) \in 1..Len(loaded[i]) /\ SaidAs(call, loaded[i], Len(loaded[i]))
    BY <1>9, <2>1 DEF GoodLines, GoodLine
  <2>3. call[LastCall(loaded[i])].serve = "replied"
    BY <2>2 DEF SaidAs, LastCall
  <2> QED BY <1>2, <1>8, <2>3
<1>11. /\ GoodLines(call', saved')
       /\ \A n : OwnedLines(call', n, loaded) /\ OwnedLine(call', n, line) => OwnedLines(call', n, saved')
       /\ \A n : LearnedOf(call', n, loaded) \/ LearnedAt(call', n, line) => LearnedOf(call', n, saved')
       /\ FreshLines(loaded) => FreshLines(saved')
  BY <1>4, <1>8, <1>9, <1>10, AppendGood
<1>12. late' \in BOOLEAN
  BY <1>4 DEF IInv, TypeOK, Stale
<1>13. TypeOK'
  <2>1. call' \in [Calls -> [claim : 0..claims, prompt : Seq(Texts), reply : Replies \cup {"none", "overflow"},
                             wait : Waits, serve : Serves, info : Infos]]
    BY <1>3, <1>4 DEF IInv, TypeOK
  <2>2. \A n, m \in Busy' : n = m
    BY <1>7 DEF Busy
  <2>3. saved' \in TimelineLists
    BY <1>11 DEF GoodLines
  <2> QED BY <1>4, <1>12, <2>1, <2>2, <2>3 DEF IInv, TypeOK, recordVars
<1>14. CallsInv'
  BY <1>2, <1>3, <1>5, <1>7 DEF IInv, CallsInv
<1>15. PhaseInv'
  BY <1>4 DEF IInv, PhaseInv, Early
<1>16. LinesInv'
  BY <1>4, <1>11 DEF LinesInv
<1>17. OwnersInv'
  <2> SUFFICES ASSUME ~late'
               PROVE  /\ OwnedLines(call', Owner, saved')
                      /\ ~(runner = "waiting" /\ (record = "registered" \/ writes > 0))
    BY <1>4, <1>7 DEF OwnersInv, Owner, recordVars
  <2>1. /\ ~late /\ call[k].claim = Owner /\ Early
        /\ ~(runner = "waiting" /\ (record = "registered" \/ writes > 0))
    BY <1>4
  <2>2. OwnedLines(call, Owner, loaded)
    BY <1>2, <2>1 DEF IInv, OwnersInv
  <2>3. OwnedLines(call', Owner, loaded)
    BY <1>6, <1>9, <2>2, GrowsKeepsLines
  <2> QED BY <1>8, <1>11, <2>1, <2>3
<1>18. KeptInv'
  <2>1. \A n \in owed : call'[n].wait = "answered"
    BY <1>2, <1>5 DEF IInv, TypeOK, KeptInv
  <2>2. ASSUME NEW n \in Calls, Required(n)', n # k
        PROVE  LearnedOf(call', n, saved')
    <3>1. call'[n] = call[n]
      BY <1>5, <2>2
    <3>2. Required(n)
      BY <1>4, <2>2, <3>1 DEF Required
    <3>3. call[n].serve = "replied"
      BY <3>2 DEF Required, IInv, KeptInv, CallsInv
    <3>4. LearnedOf(call, n, loaded)
      BY <1>2, <3>2 DEF IInv, KeptInv
    <3>5. LearnedOf(call', n, loaded)
      BY <1>6, <1>9, <3>3, <3>4, GrowsKeepsLines
    <3> QED BY <1>11, <3>5
  <2>3. LearnedOf(call', k, saved')
    BY <1>8, <1>11
  <2> QED BY <1>4, <2>1, <2>2, <2>3 DEF KeptInv
<1>19. MergedInv'
  BY <1>4 DEF MergedInv, Early
<1>20. RewardsAligned' /\ WipedInv'
  BY <1>4, <1>6, GrownWiped DEF IInv, RewardsAligned, Early, recordVars
<1>21. SamplesInv'
  <2> SUFFICES ASSUME runner = "finished"
               PROVE  /\ \A t \in samples : GoodLine(call', t)
                      /\ Cardinality(samples) < MaxSamples =>
                           \A n \in owed \ wiped :
                             call'[n].info = "safe" => \E t \in samples : LearnedAt(call', n, t)
    BY <1>4 DEF SamplesInv, Early
  <2>1. \A t \in samples : t \in Seq(Msgs) /\ GoodLine(call, t)
    BY DEF IInv, SamplesInv, TypeOK, Msgs
  <2>2. \A t \in samples : GoodLine(call', t)
    BY <1>6, <2>1, GrowsKeepsLine
  <2>3. ASSUME Cardinality(samples) < MaxSamples, NEW n \in owed \ wiped, call'[n].info = "safe"
        PROVE  \E t \in samples : LearnedAt(call', n, t)
    <3>1. n # k /\ n \in Calls
      BY <1>2 DEF IInv, TypeOK
    <3>2. call'[n] = call[n]
      BY <1>5, <3>1
    <3>3. PICK t \in samples : LearnedAt(call, n, t)
      BY <2>3, <3>2 DEF IInv, SamplesInv
    <3> QED BY <3>2, <3>3 DEF LearnedAt
  <2> QED BY <2>2, <2>3
<1>22. OnceInv'
  <2>1. Early => FreshLines(saved')
    BY <1>2, <1>11 DEF IInv, OnceInv
  <2> QED BY <1>4, <2>1 DEF OnceInv, Early
<1> QED BY <1>13, <1>14, <1>15, <1>16, <1>17, <1>18, <1>19, <1>20, <1>21, <1>22 DEF IInv

-----------------------------------------------------------------------------
(* The steps of the record and of the runner: no call changes *)

\* A step of the record alone: none that makes it free but by the write of a revert.
LEMMA RecordKeeps ==
  ASSUME IInv, UNCHANGED <<claims, call, terminate, trackerVars, loaded, runner, samples, history>>,
         stopping' \in BOOLEAN, service' \in {"up", "down"},
         record' \in {"registered", "claimed", "gone"},
         {resets', writes'} \subseteq Nat, resets' + writes' <= MaxReverts, output' = output,
         record' = "registered" \/ writes' > 0 => record = "registered" \/ writes > 0,
         record' = "claimed" => record = "claimed" /\ (writes > 0 => writes' > 0)
  PROVE  IInv'
<1> USE DEF trackerVars, history
<1>1. TypeOK'
  BY DEF IInv, TypeOK, Busy
<1>2. CallsInv'
  BY DEF IInv, CallsInv
<1>3. PhaseInv'
  BY DEF IInv, PhaseInv, Early
<1>4. LinesInv'
  BY DEF IInv, LinesInv
<1>5. OwnersInv'
  BY DEF IInv, OwnersInv, Owner, Early
<1>6. KeptInv'
  BY DEF IInv, KeptInv, Required
<1>7. WipedInv'
  BY DEF IInv, WipedInv, ResetTakesClaim
<1>8. OnceInv' /\ MergedInv' /\ SamplesInv' /\ RewardsAligned'
  BY DEF IInv, OnceInv, Early, MergedInv, SamplesInv, RewardsAligned
<1> QED BY <1>1, <1>2, <1>3, <1>4, <1>5, <1>6, <1>7, <1>8 DEF IInv

\* Steps of the record: nothing of the tracker changes.
LEMMA AskResetKeeps == IInv /\ AskReset => IInv'
<1> SUFFICES ASSUME IInv, AskReset
             PROVE  IInv'
  OBVIOUS
<1>1. /\ stopping' \in BOOLEAN /\ service' \in {"up", "down"}
      /\ {resets', writes'} \subseteq Nat /\ resets' + writes' <= MaxReverts
  BY TrackerAssumption DEF AskReset, IInv, TypeOK
<1> QED BY <1>1, RecordKeeps DEF AskReset

LEMMA RevertWriteKeeps == IInv /\ RevertWrite => IInv'
<1> SUFFICES ASSUME IInv, RevertWrite
             PROVE  IInv'
  OBVIOUS
<1>1. /\ stopping' \in BOOLEAN /\ service' \in {"up", "down"} /\ record' \in {"registered", "gone"}
      /\ {resets', writes'} \subseteq Nat /\ resets' + writes' <= MaxReverts
  BY TrackerAssumption DEF RevertWrite, IInv, TypeOK
<1> QED BY <1>1, RecordKeeps DEF RevertWrite

LEMMA RecordOutputKeeps == IInv /\ RecordOutput => IInv'
<1> SUFFICES ASSUME IInv, RecordOutput
             PROVE  IInv'
  OBVIOUS
<1>1. /\ stopping' \in BOOLEAN /\ service' \in {"up", "down"}
      /\ {resets', writes'} \subseteq Nat /\ resets' + writes' <= MaxReverts
  BY DEF RecordOutput, IInv, TypeOK
<1> QED BY <1>1, RecordKeeps DEF RecordOutput

LEMMA DeleteRecordKeeps == IInv /\ DeleteRecord => IInv'
<1> SUFFICES ASSUME IInv, DeleteRecord
             PROVE  IInv'
  OBVIOUS
<1>1. /\ stopping' \in BOOLEAN /\ service' \in {"up", "down"}
      /\ {resets', writes'} \subseteq Nat /\ resets' + writes' <= MaxReverts
  BY DEF DeleteRecord, IInv, TypeOK
<1> QED BY <1>1, RecordKeeps DEF DeleteRecord

LEMMA StopKeeps == IInv /\ Stop => IInv'
<1> SUFFICES ASSUME IInv, Stop
             PROVE  IInv'
  OBVIOUS
<1> USE DEF recordVars
<1>1. /\ stopping' \in BOOLEAN /\ service' \in {"up", "down"} /\ record' = record
      /\ record \in {"registered", "claimed", "gone"}
      /\ {resets', writes'} \subseteq Nat /\ resets' + writes' <= MaxReverts
  BY DEF Stop, IInv, TypeOK
<1> QED BY <1>1, RecordKeeps DEF Stop

LEMMA ServiceEndsKeeps == IInv /\ ServiceEnds => IInv'
<1> SUFFICES ASSUME IInv, ServiceEnds
             PROVE  IInv'
  OBVIOUS
<1>1. /\ stopping' \in BOOLEAN /\ service' \in {"up", "down"} /\ record' \in {record, "gone"}
      /\ record \in {"registered", "claimed", "gone"}
      /\ {resets', writes'} \subseteq Nat /\ resets' + writes' <= MaxReverts
  BY DEF ServiceEnds, AskClaimed, IInv, TypeOK
<1> QED BY <1>1, RecordKeeps DEF ServiceEnds

\* A new owner finds no timeline, and has no answer yet.
LEMMA ClaimKeeps == IInv /\ Claim => IInv'
<1> SUFFICES ASSUME IInv, Claim
             PROVE  IInv'
  OBVIOUS
<1> USE DEF trackerVars, history, Claim
<1>1. claims \in Nat /\ claims + 1 \in 0..MaxClaims /\ \A n \in Calls : call[n].claim \in 0..claims
  BY TrackerAssumption DEF IInv, TypeOK
<1>2. TypeOK'
  <2>1. 0..claims \subseteq 0..claims'
    BY <1>1
  <2>2. call' \in [Calls -> [claim : 0..claims', prompt : Seq(Texts), reply : Replies \cup {"none", "overflow"},
                             wait : Waits, serve : Serves, info : Infos]]
    BY <2>1 DEF IInv, TypeOK
  <2> QED BY <1>1, <2>1, <2>2 DEF IInv, TypeOK, Busy
<1>3. CallsInv' /\ PhaseInv' /\ LinesInv'
  BY DEF IInv, CallsInv, PhaseInv, LinesInv, Early
<1>4. \A n \in Calls : call'[n].claim # claims'
  BY <1>1
<1>5. OwnersInv'
  <2>1. CASE runner = "waiting"
    <3> SUFFICES ASSUME ~late
                 PROVE  saved = <<>> /\ OwnedLines(call, claims', saved)
      BY <1>4, <2>1 DEF OwnersInv, Owner
    <3>1. saved = <<>> /\ 1..Len(<<>>) = {}
      BY <2>1 DEF IInv, OwnersInv
    <3> QED BY <3>1 DEF OwnedLines
  <2>2. CASE runner # "waiting"
    BY <2>2 DEF IInv, OwnersInv, Owner, Early
  <2> QED BY <2>1, <2>2
<1>6. KeptInv'
  BY DEF IInv, KeptInv, Required
<1>7. WipedInv'
  <2>1. \A n \in wiped : n \in Calls
    BY DEF IInv, TypeOK
  <2> QED BY <1>4, <2>1 DEF IInv, WipedInv, ResetTakesClaim
<1>8. OnceInv' /\ MergedInv' /\ SamplesInv' /\ RewardsAligned'
  BY DEF IInv, OnceInv, Early, MergedInv, SamplesInv, RewardsAligned
<1> QED BY <1>2, <1>3, <1>5, <1>6, <1>7, <1>8 DEF IInv

\* Only what has been answered is owed.
LEMMA EndEpisodeKeeps == IInv /\ EndEpisode => IInv'
<1> SUFFICES ASSUME IInv, EndEpisode
             PROVE  IInv'
  OBVIOUS
<1> USE DEF trackerVars, EndEpisode
<1>1. TypeOK'
  <2>1. claims \in 0..claims
    BY TrackerAssumption DEF IInv, TypeOK
  <2> QED BY <2>1 DEF IInv, TypeOK, Busy
<1>2. CallsInv' /\ PhaseInv' /\ LinesInv'
  BY DEF IInv, CallsInv, PhaseInv, LinesInv, Early
<1>3. OwnersInv'
  BY DEF IInv, OwnersInv, Owner, Early
<1>4. KeptInv'
  <2>1. \A n \in owed' : call'[n].wait = "answered"
    OBVIOUS
  <2>2. \A n \in Calls : Required(n)' => Required(n)
    BY DEF Required
  <2> QED BY <2>1, <2>2 DEF IInv, KeptInv
<1>5. WipedInv'
  BY DEF IInv, WipedInv, ResetTakesClaim
<1>6. OnceInv' /\ MergedInv' /\ SamplesInv' /\ RewardsAligned'
  BY DEF IInv, OnceInv, Early, MergedInv, SamplesInv, RewardsAligned
<1> QED BY <1>1, <1>2, <1>3, <1>4, <1>5, <1>6 DEF IInv

\* The empty list is as good as any.
LEMMA NoLines ==
  /\ <<>> \in TimelineLists /\ Len(<<>>) = 0 /\ 1..0 = {}
  /\ \A c : GoodLines(c, <<>>) /\ \A n : OwnedLines(c, n, <<>>)
  /\ FreshLines(<<>>) /\ Parted(<<>>, 1..Len(<<>>))
<1>1. <<>> \in TimelineLists /\ Len(<<>>) = 0 /\ 1..0 = {}
  BY DEF TimelineLists
<1> QED BY <1>1 DEF GoodLines, OwnedLines, FreshLines, Parted

\* A reset leaves no timeline, and a revert that will take the claim.
LEMMA RunnerResetKeeps == IInv /\ RunnerReset => IInv'
<1> SUFFICES ASSUME IInv, RunnerReset
             PROVE  IInv'
  OBVIOUS
<1> USE DEF RunnerReset, ResetTracker
<1>1. TypeOK'
  <2>1. 0 \in 0..Cardinality(Calls)
    BY FS_CardinalityType, TrackerAssumption
  <2>2. {resets', writes'} \subseteq Nat /\ resets' + writes' <= MaxReverts
    BY TrackerAssumption DEF IInv, TypeOK
  <2> QED BY <2>1, <2>2, NoLines DEF IInv, TypeOK, Busy
<1>2. CallsInv' /\ PhaseInv'
  BY DEF IInv, CallsInv, PhaseInv, Early
<1>3. LinesInv'
  BY NoLines DEF IInv, LinesInv
<1>4. OwnersInv'
  BY NoLines DEF IInv, OwnersInv, Owner, Early
<1>5. KeptInv'
  BY DEF IInv, KeptInv, Required
<1>6. WipedInv'
  <2>1. writes' > 0
    BY DEF IInv, TypeOK
  <2> QED BY <2>1 DEF WipedInv, ResetTakesClaim
<1>7. OnceInv'
  BY NoLines DEF IInv, OnceInv, Early
<1>8. MergedInv' /\ SamplesInv' /\ RewardsAligned'
  BY DEF MergedInv, SamplesInv, RewardsAligned
<1> QED BY <1>1, <1>2, <1>3, <1>4, <1>5, <1>6, <1>7, <1>8 DEF IInv

\* The hard exit leaves no timeline, and nobody to miss one.
LEMMA HardExitKeeps == IInv /\ HardExit => IInv'
<1> SUFFICES ASSUME IInv, HardExit
             PROVE  IInv'
  OBVIOUS
<1> USE DEF HardExit, ResetTracker, history
<1>1. TypeOK'
  <2>1. 0 \in 0..Cardinality(Calls)
    BY FS_CardinalityType, TrackerAssumption
  <2> QED BY <2>1, NoLines DEF IInv, TypeOK, Busy
<1>2. CallsInv' /\ PhaseInv'
  BY DEF IInv, CallsInv, PhaseInv, Early
<1>3. LinesInv'
  BY NoLines DEF IInv, LinesInv
<1>4. OwnersInv'
  BY NoLines DEF OwnersInv, Early
<1>5. KeptInv'
  BY DEF IInv, KeptInv, Required
<1>6. WipedInv'
  BY DEF IInv, WipedInv, ResetTakesClaim
<1>7. OnceInv'
  BY NoLines DEF OnceInv, Early
<1>8. MergedInv' /\ SamplesInv' /\ RewardsAligned'
  BY DEF MergedInv, SamplesInv, RewardsAligned
<1> QED BY <1>1, <1>2, <1>3, <1>4, <1>5, <1>6, <1>7, <1>8 DEF IInv

\* What is owed when the output is taken has been replied, and is in the list unless a reset
\* has wiped it.
LEMMA TakeOutputKeeps == IInv /\ TakeOutput => IInv'
<1> SUFFICES ASSUME IInv, TakeOutput
             PROVE  IInv'
  OBVIOUS
<1> USE DEF TakeOutput, recordVars, trackerVars
<1>1. TypeOK'
  <2>1. claims \in 0..claims
    BY TrackerAssumption DEF IInv, TypeOK
  <2> QED BY <2>1 DEF IInv, TypeOK, Busy
<1>2. CallsInv' /\ PhaseInv' /\ LinesInv'
  BY DEF IInv, CallsInv, PhaseInv, LinesInv, Early
<1>3. OwnersInv'
  BY DEF IInv, OwnersInv, Owner, Early
<1>4. KeptInv'
  <2>1. \A n \in Calls : Required(n)' => Required(n)
    BY DEF IInv, KeptInv, CallsInv, Required
  <2> QED BY <2>1 DEF IInv, KeptInv
<1>5. WipedInv'
  BY DEF IInv, WipedInv, ResetTakesClaim
<1>6. OnceInv' /\ MergedInv' /\ SamplesInv' /\ RewardsAligned'
  BY DEF IInv, OnceInv, Early, MergedInv, SamplesInv, RewardsAligned
<1> QED BY <1>1, <1>2, <1>3, <1>4, <1>5, <1>6 DEF IInv

\* The first spreading of the reward changes no timeline.
LEMMA RewardFirstKeeps == IInv /\ RewardFirst => IInv'
<1> SUFFICES ASSUME IInv, RewardFirst
             PROVE  IInv'
  OBVIOUS
<1> USE DEF RewardFirst, recordVars, history
<1>1. Len(saved) \in 0..Cardinality(Calls)
  BY LinesBounded DEF IInv, LinesInv
<1>2. TypeOK'
  BY <1>1 DEF IInv, TypeOK, Busy
<1>3. CallsInv' /\ PhaseInv' /\ LinesInv'
  BY DEF IInv, CallsInv, PhaseInv, LinesInv, Early
<1>4. OwnersInv'
  BY DEF IInv, OwnersInv, Owner, Early
<1>5. KeptInv'
  BY DEF IInv, KeptInv, Required
<1>6. WipedInv'
  BY DEF IInv, WipedInv, ResetTakesClaim
<1>7. OnceInv'
  BY NoLines DEF IInv, OnceInv, Early
<1>8. MergedInv' /\ SamplesInv' /\ RewardsAligned'
  BY DEF MergedInv, SamplesInv, RewardsAligned
<1> QED BY <1>2, <1>3, <1>4, <1>5, <1>6, <1>7, <1>8 DEF IInv

\* The merge keeps all that is required, in the new list and in the one a save has loaded.
LEMMA MergeKeeps == IInv /\ Merge => IInv'
<1> SUFFICES ASSUME IInv, Merge
             PROVE  IInv'
  OBVIOUS
<1> DEFINE merged == merge_tracker_timelines(saved)
           inPlace == MergedInPlace(saved)
<1>1. /\ runner = "ended" /\ runner' = "merged" /\ saved' = merged /\ raw' = saved
      /\ loaded' = (IF loaded = NoSave THEN NoSave ELSE inPlace)
      /\ UNCHANGED <<stopping, recordVars, call, service, terminate, readonly, mad, rewards, samples>>
      /\ UNCHANGED <<owner, owed, wiped, late>>
  BY DEF Merge
<1>2. GoodLines(call, saved) /\ saved \in TimelineLists
  BY DEF IInv, LinesInv, GoodLines
<1>3. /\ GoodLines(call, merged)
      /\ \A n : OwnedLines(call, n, saved) => OwnedLines(call, n, merged)
      /\ \A k : Len(call[k].prompt) \in Nat /\ LearnedOf(call, k, saved) => LearnedOf(call, k, merged)
      /\ FreshLines(saved) => Parted(merged, 1..Len(merged))
  BY <1>2, MergeGood
<1>4. /\ GoodLines(call, inPlace)
      /\ \A k : Len(call[k].prompt) \in Nat /\ LearnedOf(call, k, saved) => LearnedOf(call, k, inPlace)
  BY <1>2, MergeInPlaceGood
<1>5. MergedFrom(saved, merged)
  BY <1>2, MergeMeets
<1> HIDE DEF merged, inPlace
<1>6. merged \in TimelineLists /\ inPlace \in TimelineLists
  BY <1>3, <1>4 DEF GoodLines
<1>7. TypeOK'
  BY <1>1, <1>6 DEF IInv, TypeOK, Busy, recordVars
<1>8. CallsInv'
  <2>1. inPlace # NoSave
    BY <1>6, TrackerAssumption
  <2> QED BY <1>1, <2>1 DEF IInv, CallsInv
<1>9. PhaseInv'
  BY <1>1 DEF IInv, PhaseInv, Early
<1>10. LinesInv'
  BY <1>1, <1>3, <1>4 DEF LinesInv
<1>11. OwnersInv'
  BY <1>1, <1>3 DEF IInv, OwnersInv, Owner, Early
<1>12. KeptInv'
  <2>1. \A n \in Calls : Required(n)' => Required(n) /\ Len(call[n].prompt) \in Nat
    BY <1>1, TypedCalls DEF IInv, Required
  <2>2. \A n \in Calls : Required(n)' => /\ LearnedOf(call', n, saved')
                                         /\ loaded' # NoSave => LearnedOf(call', n, loaded')
    BY <1>1, <1>3, <1>4, <2>1 DEF IInv, KeptInv
  <2>3. \A n \in owed' : call'[n].wait = "answered"
    BY <1>1 DEF IInv, KeptInv
  <2> QED BY <2>2, <2>3 DEF KeptInv
<1>13. MergedInv'
  BY <1>1, <1>2, <1>5 DEF MergedInv
<1>14. SamplesInv' /\ RewardsAligned'
  BY <1>1 DEF SamplesInv, RewardsAligned
<1>15. WipedInv'
  BY <1>1 DEF IInv, WipedInv, ResetTakesClaim, recordVars
<1>16. OnceInv'
  BY <1>1, <1>3 DEF IInv, OnceInv, Early
<1> QED BY <1>7, <1>8, <1>9, <1>10, <1>11, <1>12, <1>13, <1>14, <1>15, <1>16 DEF IInv

\* The tracker is closed only after the merge.
LEMMA ReadOnlyKeeps == IInv /\ ReadOnly => IInv'
<1> SUFFICES ASSUME IInv, ReadOnly
             PROVE  IInv'
  OBVIOUS
<1> USE DEF ReadOnly, recordVars, history
<1>1. TypeOK'
  BY DEF IInv, TypeOK, Busy
<1>2. CallsInv'
  BY DEF IInv, CallsInv
<1>3. PhaseInv'
  BY DEF IInv, PhaseInv, Early
<1>4. LinesInv'
  BY DEF IInv, LinesInv
<1>5. OwnersInv'
  BY DEF IInv, OwnersInv, Owner, Early
<1>6. KeptInv'
  BY DEF IInv, KeptInv, Required
<1>7. MergedInv' /\ SamplesInv' /\ RewardsAligned'
  BY DEF MergedInv, SamplesInv, RewardsAligned
<1>8. WipedInv' /\ OnceInv'
  BY DEF IInv, WipedInv, ResetTakesClaim, OnceInv, Early
<1> QED BY <1>1, <1>2, <1>3, <1>4, <1>5, <1>6, <1>7, <1>8 DEF IInv

\* The second spreading makes as many rewards as there are timelines.
LEMMA RewardAgainKeeps == IInv /\ RewardAgain => IInv'
<1> SUFFICES ASSUME IInv, RewardAgain
             PROVE  IInv'
  OBVIOUS
<1> USE DEF RewardAgain, recordVars, history
<1>1. Len(saved) \in 0..Cardinality(Calls)
  BY LinesBounded DEF IInv, LinesInv
<1>2. TypeOK'
  BY <1>1 DEF IInv, TypeOK, Busy
<1>3. CallsInv'
  BY DEF IInv, CallsInv
<1>4. PhaseInv'
  BY DEF IInv, PhaseInv, Early
<1>5. LinesInv'
  BY DEF IInv, LinesInv
<1>6. OwnersInv'
  BY DEF IInv, OwnersInv, Owner, Early
<1>7. KeptInv'
  BY DEF IInv, KeptInv, Required
<1>8. MergedInv' /\ SamplesInv'
  BY DEF MergedInv, SamplesInv
<1>9. RewardsAligned'
  <2>1. \A i \in 1..Len(saved) : Tokenizable(saved[i])
    BY LinesOf, LineTokenizable DEF IInv, LinesInv, GoodLines
  <2>2. DOMAIN saved = 1..Len(saved)
    BY DEF IInv, TypeOK, TimelineLists
  <2> QED BY <2>1, <2>2 DEF RewardsAligned
<1>10. WipedInv' /\ OnceInv'
  BY DEF IInv, WipedInv, ResetTakesClaim, OnceInv, Early
<1> QED BY <1>2, <1>3, <1>4, <1>5, <1>6, <1>7, <1>8, <1>9, <1>10 DEF IInv

\* As many samples as chosen timelines: no two are the same.
LEMMA SamplesCounted ==
  ASSUME NEW c, NEW lines, GoodLines(c, lines), NEW S, S \subseteq 1..Len(lines)
  PROVE  Cardinality({lines[i] : i \in S}) = Cardinality(S) /\ IsFiniteSet(S)
<1> DEFINE T == {lines[i] : i \in S}
           f == [i \in S |-> lines[i]]
<1>1. Len(lines) \in Nat
  BY LinesOf DEF GoodLines
<1>2. IsFiniteSet(S)
  <2>1. IsFiniteSet(1..Len(lines))
    BY <1>1, FS_Interval
  <2> QED BY <2>1, FS_Subset
<1>3. \A i, j \in S : lines[i] = lines[j] => i = j
  BY DEF GoodLines
<1>4. f \in Injection(S, T)
  BY <1>3 DEF Injection, IsInjective
<1>5. f \in Surjection(S, T)
  BY DEF Surjection
<1> HIDE DEF f, T
<1>6. Cardinality(T) = Cardinality(S)
  BY <1>2, <1>4, <1>5, FS_Surjection
<1> QED BY <1>2, <1>6 DEF T

\* Every timeline is a sample, unless there are MaxSamples samples.
LEMMA TokenizeKeeps == IInv /\ Tokenize => IInv'
<1> SUFFICES ASSUME IInv, Tokenize
             PROVE  IInv'
  OBVIOUS
<1>1. /\ runner = "aligned" /\ runner' \in {"finished", "left"}
      /\ UNCHANGED <<stopping, recordVars, call, service, terminate, loaded>>
      /\ UNCHANGED <<saved, readonly, mad, rewards, owner, owed, wiped, raw, late>>
  BY DEF Tokenize, trackerVars, history
<1>2. CallsInv'
  BY <1>1 DEF IInv, CallsInv
<1>3. PhaseInv'
  BY <1>1 DEF IInv, PhaseInv, Early
<1>4. LinesInv'
  BY <1>1 DEF IInv, LinesInv
<1>5. OwnersInv'
  BY <1>1 DEF IInv, OwnersInv, Owner, Early
<1>6. KeptInv' /\ WipedInv' /\ OnceInv'
  BY <1>1 DEF IInv, KeptInv, Required, WipedInv, ResetTakesClaim, OnceInv, Early, recordVars
<1>7. MergedInv' /\ RewardsAligned'
  BY <1>1 DEF MergedInv, RewardsAligned
<1>8. CASE runner' = "left"
  <2>1. samples' = samples
    BY <1>8 DEF Tokenize
  <2>2. TypeOK'
    BY <1>1, <2>1 DEF IInv, TypeOK, Busy, recordVars
  <2>3. SamplesInv'
    BY <1>8 DEF SamplesInv
  <2> QED BY <1>2, <1>3, <1>4, <1>5, <1>6, <1>7, <2>2, <2>3 DEF IInv
<1>9. CASE runner' = "finished"
  <2> DEFINE n == Len(saved)
             m == Min({MaxSamples, n})
  <2>1. /\ GoodLines(call, saved) /\ n \in Nat /\ DOMAIN saved = 1..n
        /\ \A i \in 1..n : saved[i] \in Seq(Msgs) /\ GoodLine(call, saved[i])
    <3>1. GoodLines(call, saved) /\ saved \in TimelineLists
      BY DEF IInv, LinesInv, GoodLines
    <3>2. DOMAIN saved = 1..n /\ n \in Nat
      BY <3>1 DEF TimelineLists
    <3> QED BY <3>1, <3>2, LinesOf DEF GoodLines
  <2>2. PICK S \in kSubset(m, DOMAIN saved) : samples' = {saved[i] : i \in S}
    BY <1>9 DEF Tokenize
  <2>3. S \subseteq 1..n /\ Cardinality(S) = m
    BY <2>1 DEF kSubset
  <2> HIDE DEF n, m
  <2>4. Cardinality(samples') = m
    BY <2>1, <2>2, <2>3, SamplesCounted DEF n
  <2>5. m \in Nat /\ m <= MaxSamples /\ (m < MaxSamples => m = n)
    <3>1. {MaxSamples, n} \subseteq Nat /\ {MaxSamples, n} # {} /\ MaxSamples \in Nat
      BY <2>1, TrackerAssumption
    <3>2. m \in {MaxSamples, n} /\ \A i \in {MaxSamples, n} : m <= i
      BY <3>1, MinIsLeast DEF m
    <3> QED BY <3>1, <3>2
  <2>6. TypeOK'
    <3>1. samples' \subseteq Seq(Messages(Texts, Calls))
      BY <2>1, <2>2, <2>3 DEF Msgs
    <3>2. Cardinality(samples') <= MaxSamples
      BY <2>4, <2>5
    <3> QED BY <1>1, <3>1, <3>2 DEF IInv, TypeOK, Busy, recordVars
  <2>7. \A t \in samples' : GoodLine(call', t)
    BY <1>1, <2>1, <2>2, <2>3
  <2>8. ~late' => /\ \A t \in samples' : OwnedLine(call', owner', t)
                  /\ \A s, t \in samples' : s # t => ~Shares(s, t)
    <3> SUFFICES ASSUME ~late
                 PROVE  /\ \A t \in samples' : OwnedLine(call, owner, t)
                        /\ \A s, t \in samples' : s # t => ~Shares(s, t)
      BY <1>1
    <3>1. \A i \in 1..n : OwnedLine(call, owner, saved[i])
      BY <1>1 DEF IInv, OwnersInv, Owner, OwnedLines, n
    <3>2. \A i, j \in 1..n : i # j => ~Shares(saved[i], saved[j])
      BY <1>1 DEF IInv, OnceInv, Early, Parted, n
    <3>3. ASSUME NEW s \in samples', NEW t \in samples', s # t
          PROVE  ~Shares(s, t)
      <4>1. PICK i \in 1..n : s = saved[i]
        BY <2>2, <2>3
      <4>2. PICK j \in 1..n : t = saved[j]
        BY <2>2, <2>3
      <4> QED BY <3>2, <3>3, <4>1, <4>2
    <3> QED BY <2>2, <2>3, <3>1, <3>3
  <2>9. ASSUME Cardinality(samples') < MaxSamples, NEW k \in owed' \ wiped', call'[k].info = "safe"
        PROVE  \E t \in samples' : LearnedAt(call', k, t)
    <3>1. S = 1..n
      <4>1. IsFiniteSet(1..n) /\ Cardinality(1..n) = n
        <5>1. 1 \in Int /\ n \in Int
          BY <2>1
        <5>2. IsFiniteSet(1..n) /\ Cardinality(1..n) = IF 1 > n THEN 0 ELSE n - 1 + 1
          BY <5>1, FS_Interval
        <5> QED BY <2>1, <5>2
      <4>2. Cardinality(S) = n
        BY <2>3, <2>4, <2>5, <2>9
      <4> QED BY <2>3, <4>1, <4>2, FS_Subset
    <3>2. k \in Calls /\ Required(k)
      BY <1>1, <2>9 DEF IInv, TypeOK, Required
    <3>3. PICK i \in 1..n : LearnedAt(call, k, saved[i])
      BY <3>2 DEF IInv, KeptInv, LearnedOf, n
    <3>4. saved[i] \in samples'
      BY <2>2, <3>1
    <3> QED BY <1>1, <3>3, <3>4
  <2>10. SamplesInv'
    BY <2>7, <2>8, <2>9 DEF SamplesInv
  <2> QED BY <1>2, <1>3, <1>4, <1>5, <1>6, <1>7, <2>6, <2>10 DEF IInv
<1> QED BY <1>1, <1>8, <1>9

-----------------------------------------------------------------------------
(* The theorems *)

\* Nothing happens.
LEMMA StutterKeeps == IInv /\ UNCHANGED vars => IInv'
<1> SUFFICES ASSUME IInv, UNCHANGED vars
             PROVE  IInv'
  OBVIOUS
<1> USE DEF vars, recordVars, trackerVars, history
<1>1. TypeOK'
  BY DEF IInv, TypeOK, Busy
<1>2. CallsInv' /\ PhaseInv'
  BY DEF IInv, CallsInv, PhaseInv, Early
<1>3. LinesInv' /\ WipedInv' /\ OnceInv'
  BY DEF IInv, LinesInv, WipedInv, ResetTakesClaim, OnceInv, Early
<1>4. OwnersInv'
  BY DEF IInv, OwnersInv, Owner, Early
<1>5. KeptInv'
  BY DEF IInv, KeptInv, Required
<1>6. MergedInv' /\ SamplesInv' /\ RewardsAligned'
  BY DEF IInv, MergedInv, SamplesInv, RewardsAligned
<1> QED BY <1>1, <1>2, <1>3, <1>4, <1>5, <1>6 DEF IInv

\* The invariant holds in every state of every episode.
THEOREM Invariance == Spec => []IInv
<1>1. IInv /\ [Next]_vars => IInv'
  <2> SUFFICES ASSUME IInv, [Next]_vars
               PROVE  IInv'
    OBVIOUS
  <2>1. CASE RecordStep
    BY <2>1, ClaimKeeps, AskResetKeeps, RevertWriteKeeps, EndEpisodeKeeps, RecordOutputKeeps,
       DeleteRecordKeeps, StopKeeps DEF RecordStep
  <2>2. ASSUME NEW k \in Calls,
               Send(k) \/ Answer(k) \/ Serve(k) \/ TrackStep(k) \/ Save(k) \/ ServiceFails(k)
        PROVE  IInv'
    <3>1. CASE Send(k) \/ Answer(k)
      BY <3>1, SendKeeps, AnswerKeeps
    <3> QED BY <2>2, <3>1, ServeKeeps, TrackKeeps, SaveKeeps, ServiceFailsKeeps
  <2>3. CASE ServiceEnds
    BY <2>3, ServiceEndsKeeps
  <2>4. CASE RunnerStep
    BY <2>4, RunnerResetKeeps, HardExitKeeps, TakeOutputKeeps, RewardFirstKeeps, MergeKeeps, ReadOnlyKeeps,
       RewardAgainKeeps, TokenizeKeeps DEF RunnerStep
  <2>5. CASE UNCHANGED vars
    BY <2>5, StutterKeeps
  <2> QED BY <2>1, <2>2, <2>3, <2>4, <2>5 DEF Next
<1> QED BY InitIInv, <1>1, PTL DEF Spec

\* Every variable keeps its type: one call at a time is with the service, there are never
\* more rewards than calls nor more samples than allowed, and a list is loaded only while a
\* call is being saved.
THEOREM TypeCorrect == Spec => []TypeOK
<1>1. IInv => TypeOK
  BY DEF IInv
<1> QED BY <1>1, Invariance, PTL

\* Whatever a client was answered before its end_episode passed is trained on, for every
\* interleaving of the service loop, the endpoint's threads, reverts, resets, ends and the
\* merge, and however the timelines overlap, but for what a reset has wiped since it was
\* replied (and for what is dropped when the samples are too many).
THEOREM KeepsAnswers == Spec => []AnswersKept
<1>1. IInv => AnswersKept
  <2> SUFFICES ASSUME IInv, runner = "finished", Cardinality(samples) < MaxSamples,
                      NEW k \in owed \ wiped, call[k].info = "safe"
               PROVE  \E t \in samples : LearnedIn(k, t)
    BY DEF AnswersKept
  <2>1. k \in Calls /\ \A t \in samples : t \in Seq(Msgs)
    BY DEF IInv, TypeOK, Msgs
  <2>2. PICK t \in samples : LearnedAt(call, k, t)
    BY DEF IInv, SamplesInv
  <2>3. LearnedIn(k, t)
    BY <2>1, <2>2, TypedCalls, LearnedByIndex DEF IInv
  <2> QED BY <2>3
<1> QED BY <1>1, Invariance, PTL

\* An owner loses its answers to a reset only together with the episode: whenever there is
\* one whose answers were wiped, a revert is about to write the record, however many reverts,
\* ends and claims overlap.
THEOREM TakesClaims == Spec => []ResetTakesClaim
<1>1. IInv => ResetTakesClaim
  BY DEF IInv, WipedInv
<1> QED BY <1>1, Invariance, PTL

\* No answer is trained on twice, in one sample or in two, unless a timeline was saved late:
\* when a timeline is absorbed, all that was the model's in it goes to one other, and what
\* comes back in a prompt is the model's there only in its stead.
THEOREM TrainsOnce == Spec => []TrainedOnce
<1>1. IInv => TrainedOnce
  <2> SUFFICES ASSUME IInv, runner = "finished", ~late,
                      NEW s \in samples, NEW t \in samples, NEW i \in DOMAIN s, NEW j \in DOMAIN t,
                      s[i].author = "llm", t[j].author = "llm", s[i].tokens = t[j].tokens
               PROVE  s = t /\ i = j
    BY DEF TrainedOnce
  <2>1. s \in Seq(Msgs) /\ t \in Seq(Msgs)
    BY DEF IInv, TypeOK, Msgs
  <2>2. i \in 1..Len(s) /\ j \in 1..Len(t)
    BY <2>1
  <2>3. s = t
    BY <2>2 DEF IInv, SamplesInv, Shares
  <2>4. SaidAs(call, s, i) /\ SaidAs(call, t, j)
    BY <2>2 DEF IInv, SamplesInv, GoodLine
  <2>5. i - 1 = j - 1
    BY <2>4 DEF SaidAs
  <2> QED BY <2>2, <2>3, <2>5
<1> QED BY <1>1, Invariance, PTL

\* Nothing an earlier owner was answered is trained on, unless a timeline was saved late:
\* what a reset leaves behind never reaches the samples, whoever's output ends the episode.
THEOREM TrainsOnOwner == Spec => []OwnersOnly
<1>1. IInv => OwnersOnly
  <2> SUFFICES ASSUME IInv, runner = "finished", ~late, NEW t \in samples, NEW i \in DOMAIN t,
                      t[i].author = "llm"
               PROVE  call[t[i].tokens].claim = owner
    BY DEF OwnersOnly
  <2>1. t \in Seq(Msgs)
    BY DEF IInv, TypeOK, Msgs
  <2>2. i \in 1..Len(t)
    BY <2>1
  <2> QED BY <2>2 DEF IInv, SamplesInv, OwnedLine
<1> QED BY <1>1, Invariance, PTL

\* Merging the timelines of an episode loses nothing the model said, invents nothing, and
\* leaves no timeline that a later one continues, whatever the calls were.
THEOREM MergesSoundly == Spec => []MergeSound
<1>1. IInv => MergeSound
  <2> SUFFICES ASSUME IInv, runner = "merged", ~late
               PROVE  MergeSound
    BY DEF MergeSound
  <2>1. GoodLines(call, raw) /\ MergedFrom(raw, saved) /\ GoodLines(call, saved) /\ call \in CallSet
    BY TypedCalls DEF IInv, MergedInv, LinesInv
  <2>2. /\ DOMAIN raw = 1..Len(raw) /\ \A i \in 1..Len(raw) : raw[i] \in Seq(Msgs) /\ DOMAIN raw[i] = 1..Len(raw[i])
        /\ \A i \in 1..Len(raw) : GoodLine(call, raw[i])
    <3>1. raw \in TimelineLists
      BY <2>1 DEF GoodLines
    <3>2. /\ DOMAIN raw = 1..Len(raw)
          /\ \A i \in 1..Len(raw) : raw[i] \in Seq(Msgs) /\ DOMAIN raw[i] = 1..Len(raw[i])
      BY <3>1, LinesOf
    <3>3. \A i \in 1..Len(raw) : GoodLine(call, raw[i])
      BY <2>1, <3>2 DEF GoodLines
    <3> QED BY <3>2, <3>3
  <2>3. /\ DOMAIN saved = 1..Len(saved) /\ Len(saved) \in Nat
        /\ \A n \in 1..Len(saved) : saved[n] \in Seq(Msgs) /\ DOMAIN saved[n] = 1..Len(saved[n])
    <3>1. saved \in TimelineLists
      BY <2>1 DEF GoodLines
    <3> QED BY <3>1, LinesOf
  <2>4. ASSUME NEW i \in 1..Len(raw), NEW j \in 1..Len(raw[i]), raw[i][j].author = "llm"
        PROVE  \E n \in 1..Len(saved) : LearnedIn(raw[i][j].tokens, saved[n])
    <3> DEFINE k == raw[i][j].tokens
    <3>1. k \in Calls
      <4>1. raw[i][j] \in Msgs
        BY <2>2
      <4> QED BY <2>4, <4>1, MessageFields
    <3>2. Len(call[k].prompt) \in Nat
      BY <3>1, TypedCalls DEF IInv
    <3>3. LearnedAt(call, k, raw[i])
      <4>1. SaidAs(call, raw[i], j)
        BY <2>2, <2>4 DEF GoodLine
      <4>2. Len(raw[i]) \in Nat
        BY <2>2
      <4>3. Len(call[k].prompt) = j - 1 /\ (j - 1) + 1 = j /\ Len(raw[i]) > j - 1
        BY <4>1, <4>2 DEF SaidAs
      <4> QED BY <2>4, <4>1, <4>3 DEF SaidAs, LearnedAt
    <3>4. PICK n \in 1..Len(saved) : Holds(saved[n], raw[i])
      BY <2>1 DEF MergedFrom
    <3> HIDE DEF k
    <3>5. LearnedAt(call, k, saved[n])
      BY <2>2, <2>3, <3>2, <3>3, <3>4, HoldsLearned
    <3>6. LearnedIn(k, saved[n])
      BY <2>1, <2>3, <3>1, <3>5, LearnedByIndex
    <3> QED BY <3>6 DEF k
  <2> DEFINE Said(i, n, j) ==
               /\ raw[i][j] = [saved[n][j] EXCEPT !.lack = raw[i][j].lack]
               /\ SubSeq(TextsOf(raw[i]), 1, j) = SubSeq(TextsOf(saved[n]), 1, j)
  <2>5. ASSUME NEW n \in 1..Len(saved), NEW j \in 1..Len(saved[n]), saved[n][j].author = "llm"
        PROVE  \E i \in 1..Len(raw) : j \in 1..Len(raw[i]) /\ Said(i, n, j)
    <3>1. SaidIn(raw, saved[n], j)
      BY <2>1, <2>5 DEF MergedFrom
    <3>2. PICK i \in 1..Len(raw) : /\ j \in 1..Len(raw[i])
                                   /\ raw[i][j].author = "llm" /\ raw[i][j].tokens = saved[n][j].tokens
                                   /\ \A m \in 1..j : raw[i][m].text = saved[n][m].text
      BY <3>1 DEF SaidIn
    <3>3. raw[i][j] \in Msgs /\ saved[n][j] \in Msgs /\ raw[i][j].text = saved[n][j].text
      BY <2>2, <2>3, <2>5, <3>2
    <3>4. raw[i][j] = [saved[n][j] EXCEPT !.lack = raw[i][j].lack]
      BY <2>5, <3>2, <3>3, SameButLack
    <3>5. SubSeq(TextsOf(raw[i]), 1, j) = SubSeq(TextsOf(saved[n]), 1, j)
      BY <2>2, <2>3, <2>5, <3>2, SameTexts
    <3> QED BY <3>2, <3>4, <3>5
  <2>6. ASSUME NEW i \in 1..Len(saved), NEW j \in 1..Len(saved), i < j
        PROVE  ~IsPrefix(TextsOf(saved[i]), TextsOf(saved[j]))
    <3>1. ~Mergeable(saved[j], saved[i])
      BY <2>1, <2>6 DEF MergedFrom
    <3> QED BY <2>3, <3>1, PrefixOfTexts
  <2>7. \A i \in DOMAIN raw : \A j \in DOMAIN raw[i] : raw[i][j].author = "llm" =>
          \E n \in DOMAIN saved : LearnedIn(raw[i][j].tokens, saved[n])
    BY <2>2, <2>3, <2>4
  <2>8. \A n \in DOMAIN saved : \A j \in DOMAIN saved[n] : saved[n][j].author = "llm" =>
          \E i \in DOMAIN raw : j \in DOMAIN raw[i] /\ Said(i, n, j)
    <3> HIDE DEF Said
    <3> QED BY <2>2, <2>3, <2>5
  <2>9. \A i, j \in DOMAIN saved : i < j => ~IsPrefix(TextsOf(saved[i]), TextsOf(saved[j]))
    BY <2>3, <2>6
  <2> QED BY <2>7, <2>8, <2>9 DEF MergeSound
<1> QED BY <1>1, Invariance, PTL

\* get_loss_mask marks exactly the tokens the model generated, in every message of every
\* timeline the tracker can have, merged or not.
THEOREM MasksExactly == Spec => []MaskExact
<1>1. IInv => MaskExact
  <2> SUFFICES ASSUME IInv, NEW i \in DOMAIN saved, NEW j \in DOMAIN saved[i],
                      saved[i][j].author = "llm",
                      saved[i][j].text \in CutShort => saved[i][j].lack
               PROVE  LET msg   == saved[i][j]
                          mask  == LossMask(msg)
                          first == Min(mask)
                      IN  /\ SubSeq(TokensOf(msg), first, first + Cardinality(mask) - 1) = Generated(msg.text)
                          /\ mask = first..(first + Cardinality(mask) - 1)
    BY DEF MaskExact
  <2>1. saved \in TimelineLists /\ GoodLines(call, saved)
    BY DEF IInv, TypeOK, LinesInv
  <2>2. i \in 1..Len(saved) /\ saved[i] \in Seq(Msgs) /\ GoodLine(call, saved[i])
    BY <2>1, LinesOf DEF TimelineLists, GoodLines
  <2>3. j \in 1..Len(saved[i]) /\ saved[i][j] \in Msgs
    BY <2>2
  <2>4. saved[i][j].lack => saved[i][j].text \in CutShort
    BY <2>2, <2>3 DEF GoodLine
  <2>5. saved[i][j].lack = (saved[i][j].text \in CutShort)
    BY <2>3, <2>4, MessageFields
  <2> DEFINE msg == saved[i][j]
  <2>6. msg \in Msgs /\ msg.author = "llm" /\ msg.lack = (msg.text \in CutShort)
    BY <2>3, <2>5
  <2> HIDE DEF msg
  <2>7. LET mask  == LossMask(msg)
            first == Min(mask)
        IN  /\ SubSeq(TokensOf(msg), first, first + Cardinality(mask) - 1) = Generated(msg.text)
            /\ mask = first..(first + Cardinality(mask) - 1)
    BY <2>6, MaskOfReplyExact
  <2> QED BY <2>7 DEF msg
<1> QED BY <1>1, Invariance, PTL

\* The cut of a sample never puts a token to be trained on into the prompt, for every
\* length of prompt and response that is allowed and every timeline the tracker can have.
THEOREM CompletesSamples == Spec => []SampleComplete
<1>1. IInv => SampleComplete
  <2> SUFFICES ASSUME IInv, NEW i \in DOMAIN saved
               PROVE  LET s == Sample(saved[i], MaxPrompt, MaxResponse)
                      IN  /\ Len(s.prompt) <= MaxPrompt
                          /\ ~Contains(s.prompt, TRUE)
                          /\ Len(s.prompt) + Len(s.response) = Len(Flat(saved[i])) \/ Len(s.response) = MaxResponse
    BY DEF SampleComplete
  <2>1. saved \in TimelineLists /\ GoodLines(call, saved)
    BY DEF IInv, TypeOK, LinesInv
  <2>2. i \in 1..Len(saved) /\ saved[i] \in Seq(Msgs) /\ GoodLine(call, saved[i])
    BY <2>1, LinesOf DEF TimelineLists, GoodLines
  <2> QED BY <2>2, SampleMeets
<1> QED BY <1>1, Invariance, PTL

\* There are as many rewards as timelines when they are aligned, and every timeline can be
\* made into a sample, unless one was saved late.
THEOREM AlignsRewards == Spec => []RewardsAligned
<1>1. IInv => RewardsAligned
  BY DEF IInv
<1> QED BY <1>1, Invariance, PTL

=============================================================================
