------------------------- MODULE CombatEventsProofs -------------------------
(***************************************************************************)
(* How a sequence of events is applied and compensated, for every fight:   *)
(* two sequences one after the other, an event that is refused, and the    *)
(* inverses of what can be taken back.                                     *)
(***************************************************************************)
EXTENDS CombatEvents, SequenceTheorems, FiniteSetTheorems, WellFoundedInduction, TLAPS

(* Applying events one after the other *)

\* Induction over the natural numbers, for a set instead of a predicate.
LEMMA UpFromZero ==
  ASSUME NEW S \in SUBSET Nat, 0 \in S, \A n \in S : n + 1 \in S
  PROVE  Nat \subseteq S
<1> DEFINE R == {ss \in Nat \X Nat : ss[1] < ss[2]}
           T == Nat \ S
<1>1. IsWellFoundedOn(R, Nat)
  BY NatLessThanWellFounded DEF OpToRel
<1>2. SUFFICES ASSUME T # {} PROVE FALSE
  OBVIOUS
<1>3. PICK x \in T : \A y \in T : ~ (<<y, x>> \in R)
  <2>1. T \subseteq Nat
    OBVIOUS
  <2> HIDE DEF T, R
  <2>2. QED
    BY <1>1, <1>2, <2>1, WFMin
<1>4. x \in Nat /\ x # 0 /\ x - 1 \in Nat /\ x - 1 < x /\ (x - 1) + 1 = x
  BY <1>3
<1>5. x - 1 \in S
  BY <1>3, <1>4
<1>6. QED
  BY <1>3, <1>4, <1>5

Begin(g) == [game |-> g, refused |-> None]

\* An event that fits a state, and the state it leads to.
Fits(g, e) == e.kind \in Kinds /\ Applies(g, e) /\ ValidCombat(Effect(g, e))
Step(g, e) == Forget(Effect(g, e))

\* f is the course of the first n events of es.
Course(f, g, es, n) ==
  f = [i \in 0 .. n |-> IF i = 0 THEN Begin(g) ELSE Apply(f[i - 1], es[i])]

LEMMA CourseExists ==
  ASSUME NEW g, NEW es
  PROVE  \A n \in Nat : \E f : Course(f, g, es, n)
<1> DEFINE S == {n \in Nat : \E f : Course(f, g, es, n)}
<1>1. 0 \in S
  <2>1. Course([i \in 0 .. 0 |-> Begin(g)], g, es, 0)
    BY DEF Course
  <2>2. QED
    BY <2>1
<1>2. ASSUME NEW n \in S PROVE n + 1 \in S
  <2>1. PICK f : Course(f, g, es, n)
    OBVIOUS
  <2> DEFINE next == [i \in 0 .. n + 1 |-> IF i = n + 1 THEN Apply(f[n], es[n + 1]) ELSE f[i]]
  <2>2. Course(next, g, es, n + 1)
    BY <2>1 DEF Course
  <2>3. QED
    BY <2>2
<1>3. S \in SUBSET Nat
  OBVIOUS
<1> HIDE DEF S
<1>4. Nat \subseteq S
  BY <1>1, <1>2, <1>3, UpFromZero
<1>5. QED
  BY <1>4 DEF S

\* ApplyAll ends where the course of all events ends.
LEMMA ApplyAllIs ==
  ASSUME NEW g, NEW E, NEW es \in Seq(E)
  PROVE  \E f : Course(f, g, es, Len(es)) /\ ApplyAll(g, es) = f[Len(es)]
<1> DEFINE after == CHOOSE f : Course(f, g, es, Len(es))
<1>1. Len(es) \in Nat
  OBVIOUS
<1>2. Course(after, g, es, Len(es))
  BY <1>1, CourseExists
<1>3. ApplyAll(g, es) = after[Len(es)]
  BY DEF ApplyAll, Course, Begin
<1>4. QED
  BY <1>2, <1>3

LEMMA CourseSteps ==
  ASSUME NEW g, NEW es, NEW n \in Nat, NEW f, Course(f, g, es, n)
  PROVE  /\ f[0] = Begin(g)
         /\ \A i \in 1 .. n : f[i] = Apply(f[i - 1], es[i])
<1>1. f[0] = Begin(g)
  BY DEF Course
<1>2. ASSUME NEW i \in 1 .. n PROVE f[i] = Apply(f[i - 1], es[i])
  BY DEF Course
<1>3. QED
  BY <1>1, <1>2

\* Two courses agree where their events do.
LEMMA CoursesAgree ==
  ASSUME NEW g, NEW es, NEW fs, NEW n \in Nat, NEW f, NEW h,
         f[0] = h[0],
         \A i \in 1 .. n : f[i] = Apply(f[i - 1], es[i]) /\ h[i] = Apply(h[i - 1], fs[i]),
         \A i \in 1 .. n : es[i] = fs[i]
  PROVE  f[n] = h[n]
<1> DEFINE S == {m \in Nat : m <= n => f[m] = h[m]}
<1>1. 0 \in S
  OBVIOUS
<1>2. ASSUME NEW m \in S PROVE m + 1 \in S
  <2>1. SUFFICES ASSUME m + 1 <= n PROVE f[m + 1] = h[m + 1]
    OBVIOUS
  <2>2. m + 1 \in 1 .. n /\ (m + 1) - 1 = m
    BY <2>1
  <2>3. QED
    BY <2>1, <2>2
<1>3. S \in SUBSET Nat
  OBVIOUS
<1> HIDE DEF S
<1>4. Nat \subseteq S
  BY <1>1, <1>2, <1>3, UpFromZero
<1>5. QED
  BY <1>4 DEF S

LEMMA AppliedNone ==
  ASSUME NEW g
  PROVE  ApplyAll(g, <<>>) = Begin(g)
<1>1. <<>> \in Seq({}) /\ Len(<<>>) = 0
  OBVIOUS
<1>2. PICK f : Course(f, g, <<>>, 0) /\ ApplyAll(g, <<>>) = f[0]
  BY <1>1, ApplyAllIs
<1>3. QED
  BY <1>2, CourseSteps

LEMMA AppliedMore ==
  ASSUME NEW g, NEW E, NEW es \in Seq(E), NEW e \in E
  PROVE  ApplyAll(g, Append(es, e)) = Apply(ApplyAll(g, es), e)
<1> DEFINE fs == Append(es, e)
           n == Len(es)
           m == n + 1
<1>1. /\ fs \in Seq(E) /\ Len(fs) = m /\ fs[m] = e
      /\ n \in Nat /\ m \in Nat /\ m \in 1 .. m /\ m - 1 = n /\ 1 .. n \subseteq 1 .. m
      /\ \A i \in 1 .. n : fs[i] = es[i]
  OBVIOUS
<1>2. PICK f : Course(f, g, es, n) /\ ApplyAll(g, es) = f[n]
  BY ApplyAllIs
<1>3. PICK h : Course(h, g, fs, m) /\ ApplyAll(g, fs) = h[m]
  BY <1>1, ApplyAllIs
<1> HIDE DEF fs, n, m
<1>4. f[0] = Begin(g) /\ \A i \in 1 .. n : f[i] = Apply(f[i - 1], es[i])
  BY <1>1, <1>2, CourseSteps
<1>5. h[0] = Begin(g) /\ \A i \in 1 .. m : h[i] = Apply(h[i - 1], fs[i])
  <2>1. m \in Nat /\ Course(h, g, fs, m)
    BY <1>1, <1>3
  <2>2. QED
    BY <2>1, CourseSteps
<1>6. \A i \in 1 .. n : h[i] = Apply(h[i - 1], fs[i])
  BY <1>1, <1>5
<1>7. f[n] = h[n]
  <2>1. \A i \in 1 .. n : es[i] = fs[i]
    BY <1>1
  <2>2. QED
    BY <1>1, <1>4, <1>5, <1>6, <2>1, CoursesAgree
<1>8. h[m] = Apply(h[n], e)
  BY <1>1, <1>5
<1>9. QED
  BY <1>2, <1>3, <1>7, <1>8 DEF fs

\* What one event does.
LEMMA ApplyIs ==
  ASSUME NEW g, NEW e, e.kind \in Kinds
  PROVE  /\ Fits(g, e) => Apply(Begin(g), e) = Begin(Step(g, e))
         /\ ~Fits(g, e) =>
              Apply(Begin(g), e) = [game |-> g, refused |-> e.kind]
BY DEF Apply, Begin, Fits, Step

LEMMA RefusedStays ==
  ASSUME NEW g, NEW k \in Kinds, NEW e
  PROVE  Apply([game |-> g, refused |-> k], e) = [game |-> g, refused |-> k]
BY KindsAssumption DEF Apply

LEMMA LastApart ==
  ASSUME NEW E, NEW n \in Nat, NEW t \in Seq(E), Len(t) = n + 1
  PROVE  \E s \in Seq(E), e \in E : t = Append(s, e) /\ Len(s) = n
<1>1. SubSeq(t, 1, n) \in Seq(E) /\ t[n + 1] \in E
  OBVIOUS
<1>2. t = Append(SubSeq(t, 1, n), t[n + 1]) /\ Len(SubSeq(t, 1, n)) = n
  OBVIOUS
<1>3. QED
  BY <1>1, <1>2

\* The events of a first sequence, then those of a second.
LEMMA AppliedJoined ==
  ASSUME NEW g, NEW E, NEW es \in Seq(E), NEW fs \in Seq(E), NEW x, NEW k \in Kinds
  PROVE  /\ ApplyAll(g, es) = Begin(x) => ApplyAll(g, es \o fs) = ApplyAll(x, fs)
         /\ ApplyAll(g, es) = [game |-> x, refused |-> k] =>
              ApplyAll(g, es \o fs) = [game |-> x, refused |-> k]
<1> DEFINE Joins(t) ==
             /\ ApplyAll(g, es) = Begin(x) => ApplyAll(g, es \o t) = ApplyAll(x, t)
             /\ ApplyAll(g, es) = [game |-> x, refused |-> k] =>
                  ApplyAll(g, es \o t) = [game |-> x, refused |-> k]
           S == {n \in Nat : \A t \in Seq(E) : Len(t) = n => Joins(t)}
<1>1. 0 \in S
  <2>1. SUFFICES ASSUME NEW t \in Seq(E), Len(t) = 0 PROVE Joins(t)
    OBVIOUS
  <2>2. t = <<>> /\ es \o t = es
    BY <2>1
  <2>3. QED
    BY <2>2, AppliedNone
<1>2. ASSUME NEW n \in S PROVE n + 1 \in S
  <2>1. SUFFICES ASSUME NEW t \in Seq(E), Len(t) = n + 1 PROVE Joins(t)
    OBVIOUS
  <2>2. PICK s \in Seq(E), e \in E : t = Append(s, e) /\ Len(s) = n
    BY <2>1, LastApart
  <2>3. es \o t = Append(es \o s, e) /\ es \o s \in Seq(E)
    BY <2>2
  <2>4. Joins(s)
    BY <2>2
  <2>5. ApplyAll(g, es \o t) = Apply(ApplyAll(g, es \o s), e)
    <3>1. \A u \in Seq(E) : ApplyAll(g, Append(u, e)) = Apply(ApplyAll(g, u), e)
      BY AppliedMore
    <3>2. QED
      BY <2>3, <3>1
  <2>6. ApplyAll(x, t) = Apply(ApplyAll(x, s), e)
    BY <2>2, AppliedMore
  <2>7. QED
    BY <2>4, <2>5, <2>6, RefusedStays
<1>3. S \in SUBSET Nat
  OBVIOUS
<1>4. Len(fs) \in Nat
  OBVIOUS
<1> HIDE DEF S
<1>5. Len(fs) \in S
  BY <1>1, <1>2, <1>3, <1>4, UpFromZero
<1>6. QED
  BY <1>5 DEF S

LEMMA AppliedOne ==
  ASSUME NEW g, NEW e, e.kind \in Kinds
  PROVE  IF Fits(g, e)
         THEN ApplyAll(g, <<e>>) = Begin(Step(g, e))
         ELSE ApplyAll(g, <<e>>) = [game |-> g, refused |-> e.kind]
<1>1. <<e>> \in Seq({e}) /\ <<>> \in Seq({e}) /\ <<e>> = Append(<<>>, e)
  OBVIOUS
<1>2. ApplyAll(g, Append(<<>>, e)) = Apply(ApplyAll(g, <<>>), e)
  BY <1>1, AppliedMore, ZenonT(20)
<1>3. ApplyAll(g, <<e>>) = Apply(Begin(g), e)
  BY <1>1, <1>2, AppliedNone
<1>4. QED
  BY <1>3, ApplyIs

-----------------------------------------------------------------------------
(* Compensations *)

Keep(es, f, n) == IF Skipped(es[n]) THEN f ELSE Append(f, es[n])

Keeping(f, es, n) == f = [i \in 0 .. n |-> IF i = 0 THEN <<>> ELSE Keep(es, f[i - 1], i)]

LEMMA KeepingExists ==
  ASSUME NEW es
  PROVE  \A n \in Nat : \E f : Keeping(f, es, n)
<1> DEFINE S == {n \in Nat : \E f : Keeping(f, es, n)}
<1>1. 0 \in S
  <2>1. Keeping([i \in 0 .. 0 |-> <<>>], es, 0)
    BY DEF Keeping
  <2>2. QED
    BY <2>1
<1>2. ASSUME NEW n \in S PROVE n + 1 \in S
  <2>1. PICK f : Keeping(f, es, n)
    OBVIOUS
  <2> DEFINE next == [i \in 0 .. n + 1 |-> IF i = n + 1 THEN Keep(es, f[n], n + 1) ELSE f[i]]
  <2>2. Keeping(next, es, n + 1)
    BY <2>1 DEF Keeping
  <2>3. QED
    BY <2>2
<1>3. S \in SUBSET Nat
  OBVIOUS
<1> HIDE DEF S
<1>4. Nat \subseteq S
  BY <1>1, <1>2, <1>3, UpFromZero
<1>5. QED
  BY <1>4 DEF S

\* Marks are what the last step keeps.
LEMMA MarksAre ==
  ASSUME NEW E, NEW es \in Seq(E)
  PROVE  \E f : /\ Marks(es) = f[Len(es)] /\ f[0] = <<>>
                /\ \A i \in 1 .. Len(es) : f[i] = Keep(es, f[i - 1], i)
<1> DEFINE f == CHOOSE f : Keeping(f, es, Len(es))
<1>1. Len(es) \in Nat
  OBVIOUS
<1>2. Keeping(f, es, Len(es))
  BY <1>1, KeepingExists
<1>3. Marks(es) = f[Len(es)]
  BY DEF Marks, Keeping, Keep
<1> HIDE DEF f
<1>4. f[0] = <<>>
  BY <1>1, <1>2 DEF Keeping
<1>5. ASSUME NEW i \in 1 .. Len(es) PROVE f[i] = Keep(es, f[i - 1], i)
  BY <1>1, <1>2 DEF Keeping
<1>6. QED
  BY <1>3, <1>4, <1>5

LEMMA MarksOfNone == Marks(<<>>) = <<>>
<1>1. <<>> \in Seq({}) /\ Len(<<>>) = 0
  OBVIOUS
<1>2. QED
  BY <1>1, MarksAre

\* Steps that start alike and keep alike end alike.
KeepsAlong(f, es, n) == \A i \in 1 .. n : f[i] = Keep(es, f[i - 1], i)
SameTo(es, fs, n) == \A i \in 1 .. n : es[i] = fs[i]

LEMMA KeptAlike ==
  ASSUME NEW es, NEW fs, NEW n \in Nat, NEW f, NEW h, f[0] = h[0],
         KeepsAlong(f, es, n), KeepsAlong(h, fs, n), SameTo(es, fs, n)
  PROVE  f[n] = h[n]
<1> DEFINE S == {m \in Nat : m <= n => f[m] = h[m]}
<1>1. 0 \in S
  OBVIOUS
<1>2. ASSUME NEW m \in S PROVE m + 1 \in S
  <2>1. SUFFICES ASSUME m + 1 <= n PROVE f[m + 1] = h[m + 1]
    OBVIOUS
  <2>2. m + 1 \in 1 .. n /\ (m + 1) - 1 = m
    BY <2>1
  <2>3. QED
    BY <2>1, <2>2 DEF Keep, KeepsAlong, SameTo
<1>3. S \in SUBSET Nat
  OBVIOUS
<1> HIDE DEF S
<1>4. Nat \subseteq S
  BY <1>1, <1>2, <1>3, UpFromZero
<1>5. QED
  BY <1>4 DEF S

LEMMA MarksMore ==
  ASSUME NEW E, NEW es \in Seq(E), NEW e \in E
  PROVE  Marks(Append(es, e)) = IF Skipped(e) THEN Marks(es) ELSE Append(Marks(es), e)
<1> DEFINE fs == Append(es, e)
           n == Len(es)
           m == n + 1
<1>1. /\ fs \in Seq(E) /\ Len(fs) = m /\ fs[m] = e
      /\ n \in Nat /\ m \in Nat /\ m \in 1 .. m /\ m - 1 = n /\ 1 .. n \subseteq 1 .. m
      /\ \A i \in 1 .. n : fs[i] = es[i]
  OBVIOUS
<1>2. PICK f : /\ Marks(es) = f[n] /\ f[0] = <<>>
               /\ \A i \in 1 .. n : f[i] = Keep(es, f[i - 1], i)
  BY MarksAre
<1> HIDE DEF fs
<1>3. PICK h : /\ Marks(fs) = h[m] /\ h[0] = <<>>
               /\ \A i \in 1 .. m : h[i] = Keep(fs, h[i - 1], i)
  <2>1. fs \in Seq(E)
    BY <1>1
  <2>2. PICK h : /\ Marks(fs) = h[Len(fs)] /\ h[0] = <<>>
                 /\ \A i \in 1 .. Len(fs) : h[i] = Keep(fs, h[i - 1], i)
    BY <2>1, MarksAre
  <2>3. Len(fs) = m
    BY <1>1
  <2> HIDE DEF m
  <2>4. QED
    BY <2>2, <2>3
<1> HIDE DEF n, m
<1>4. f[n] = h[n]
  <2>1. n \in Nat /\ f[0] = h[0]
    BY <1>1, <1>2, <1>3
  <2>2. KeepsAlong(f, es, n) /\ KeepsAlong(h, fs, n)
    BY <1>1, <1>2, <1>3 DEF KeepsAlong
  <2>3. SameTo(es, fs, n)
    BY <1>1 DEF SameTo
  <2>4. QED
    BY <2>1, <2>2, <2>3, KeptAlike
<1>5. h[m] = Keep(fs, h[n], m)
  BY <1>1, <1>3
<1>6. QED
  BY <1>1, <1>2, <1>3, <1>4, <1>5 DEF Keep, fs

\* An event that no compensation undoes.
Final(e) == ~Skipped(e) /\ e.kind \notin InverseKinds
HasFinal(es) == \E i \in 1 .. Len(es) : Final(es[i])

LEMMA FinalStays ==
  ASSUME NEW E, NEW es \in Seq(E), HasFinal(es)
  PROVE  ~Compensable(es)
<1> DEFINE Stuck(m) == m \in Seq(E) /\ \E j \in 1 .. Len(m) : m[j].kind \notin InverseKinds
           S == {n \in Nat : \A t \in Seq(E) : Len(t) = n =>
                   Marks(t) \in Seq(E) /\ (HasFinal(t) => Stuck(Marks(t)))}
<1>1. 0 \in S
  <2>1. ASSUME NEW t \in Seq(E), Len(t) = 0 PROVE Marks(t) \in Seq(E) /\ ~HasFinal(t)
    <3>1. t = <<>>
      BY <2>1
    <3>2. Marks(t) = <<>> /\ 1 .. Len(t) = {}
      BY <2>1, <3>1, MarksOfNone
    <3>3. QED
      BY <3>2 DEF HasFinal
  <2>2. QED
    BY <2>1
<1>2. ASSUME NEW n \in S PROVE n + 1 \in S
  <2>1. SUFFICES ASSUME NEW t \in Seq(E), Len(t) = n + 1
                 PROVE  Marks(t) \in Seq(E) /\ (HasFinal(t) => Stuck(Marks(t)))
    OBVIOUS
  <2>2. PICK s \in Seq(E), e \in E : t = Append(s, e) /\ Len(s) = n
    BY <2>1, LastApart
  <2>3. Marks(s) \in Seq(E) /\ (HasFinal(s) => Stuck(Marks(s)))
    BY <2>2
  <2>4. Marks(t) = IF Skipped(e) THEN Marks(s) ELSE Append(Marks(s), e)
    BY <2>2, MarksMore
  <2>5. Marks(t) \in Seq(E)
    BY <2>3, <2>4
  <2>6. ASSUME HasFinal(s) PROVE Stuck(Marks(t))
    <3>1. PICK j \in 1 .. Len(Marks(s)) : Marks(s)[j].kind \notin InverseKinds
      BY <2>3, <2>6
    <3>2. j \in 1 .. Len(Marks(t)) /\ Marks(t)[j] = Marks(s)[j]
      BY <2>3, <2>4
    <3>3. QED
      BY <2>5, <3>1, <3>2
  <2>7. ASSUME Final(e) PROVE Stuck(Marks(t))
    <3>1. Marks(t) = Append(Marks(s), e) /\ e.kind \notin InverseKinds
      BY <2>4, <2>7 DEF Final
    <3>2. Len(Marks(t)) \in 1 .. Len(Marks(t)) /\ Marks(t)[Len(Marks(t))] = e
      BY <2>3, <3>1
    <3>3. QED
      BY <2>5, <3>1, <3>2
  <2>8. HasFinal(t) => HasFinal(s) \/ Final(e)
    <3>1. SUFFICES ASSUME NEW i \in 1 .. Len(t), Final(t[i]) PROVE HasFinal(s) \/ Final(e)
      BY DEF HasFinal
    <3>2. CASE i = Len(t)
      BY <2>2, <3>1, <3>2
    <3>3. CASE i # Len(t)
      <4>1. i \in 1 .. Len(s) /\ t[i] = s[i]
        BY <2>2, <3>3
      <4>2. QED
        BY <3>1, <4>1 DEF HasFinal
    <3>4. QED
      BY <3>2, <3>3
  <2>9. QED
    BY <2>5, <2>6, <2>7, <2>8
<1>3. S \in SUBSET Nat /\ Len(es) \in Nat
  OBVIOUS
<1> HIDE DEF S
<1>4. Len(es) \in S
  BY <1>1, <1>2, <1>3, UpFromZero
<1>5. Stuck(Marks(es))
  BY <1>4 DEF S
<1>6. QED
  BY <1>5 DEF Compensable

LEMMA FinalJoined ==
  ASSUME NEW E, NEW es \in Seq(E), NEW F, NEW fs \in Seq(F), HasFinal(es) \/ HasFinal(fs)
  PROVE  HasFinal(es \o fs) /\ es \o fs \in Seq(E \cup F)
<1>1. /\ Len(es \o fs) = Len(es) + Len(fs) /\ Len(es) \in Nat /\ Len(fs) \in Nat
      /\ es \o fs \in Seq(E \cup F)
  OBVIOUS
<1>2. CASE HasFinal(es)
  <2>1. PICK i \in 1 .. Len(es) : Final(es[i])
    BY <1>2 DEF HasFinal
  <2>2. i \in 1 .. Len(es \o fs) /\ (es \o fs)[i] = es[i]
    BY <1>1
  <2>3. QED
    BY <1>1, <2>1, <2>2 DEF HasFinal
<1>3. CASE HasFinal(fs)
  <2>1. PICK i \in 1 .. Len(fs) : Final(fs[i])
    BY <1>3 DEF HasFinal
  <2>2. Len(es) + i \in 1 .. Len(es \o fs) /\ (es \o fs)[Len(es) + i] = fs[i]
    BY <1>1
  <2>3. QED
    BY <1>1, <2>1, <2>2 DEF HasFinal
<1>4. QED
  BY <1>2, <1>3

LEMMA FinalOne ==
  ASSUME NEW e, Final(e)
  PROVE  HasFinal(<<e>>) /\ <<e>> \in Seq({e})
BY DEF HasFinal

LEMMA MarksAfter ==
  ASSUME NEW E, NEW es \in Seq(E), NEW e
  PROVE  Marks(es \o <<e>>) = IF Skipped(e) THEN Marks(es) ELSE Append(Marks(es), e)
<1>1. es \in Seq(E \cup {e}) /\ e \in E \cup {e} /\ es \o <<e>> = Append(es, e)
  OBVIOUS
<1>2. \A us \in Seq(E \cup {e}) : \A u \in E \cup {e} :
        Marks(Append(us, u)) = IF Skipped(u) THEN Marks(us) ELSE Append(Marks(us), u)
  BY MarksMore
<1>3. QED
  BY <1>1, <1>2

LEMMA MarksOfOne ==
  ASSUME NEW e
  PROVE  Marks(<<e>>) = IF Skipped(e) THEN <<>> ELSE <<e>>
<1>1. <<>> \in Seq({e}) /\ <<>> \o <<e>> = <<e>> /\ Append(<<>>, e) = <<e>>
  OBVIOUS
<1>2. Marks(<<>> \o <<e>>) = IF Skipped(e) THEN Marks(<<>>) ELSE Append(Marks(<<>>), e)
  BY <1>1, MarksAfter
<1>3. QED
  BY <1>1, <1>2, MarksOfNone

\* The last mark is inverted first.
LEMMA CompensationIs ==
  ASSUME NEW es, NEW E, Marks(es) \in Seq(E)
  PROVE  /\ \E F : Compensation(es) \in Seq(F)
         /\ Len(Compensation(es)) = Len(Marks(es))
         /\ \A i \in 1 .. Len(Marks(es)) :
              Compensation(es)[i] = InverseOf(Marks(es)[Len(Marks(es)) - i + 1])
<1> DEFINE ms == Marks(es)
           n == Len(ms)
           F == {InverseOf(ms[i]) : i \in 1 .. n}
<1>1. n \in Nat
  OBVIOUS
<1>2. Compensation(es) = [i \in 1 .. n |-> InverseOf(ms[n - i + 1])]
  BY <1>1 DEF Compensation, Reverse
<1> HIDE DEF n, ms
<1>3. \A i \in 1 .. n : n - i + 1 \in 1 .. n
  BY <1>1
<1>4. Compensation(es) \in [1 .. n -> F]
  BY <1>2, <1>3
<1> HIDE DEF F
<1>5. Compensation(es) \in Seq(F) /\ Len(Compensation(es)) = n
  BY <1>1, <1>4, SeqDef
<1>6. QED
  BY <1>2, <1>5 DEF n, ms

LEMMA JoinedAt ==
  ASSUME NEW E, NEW s \in Seq(E), NEW t \in Seq(E)
  PROVE  /\ s \o t \in Seq(E) /\ Len(s \o t) = Len(s) + Len(t)
         /\ \A i \in 1 .. Len(s) + Len(t) :
              (s \o t)[i] = IF i <= Len(s) THEN s[i] ELSE t[i - Len(s)]
OBVIOUS

JoinsMore(s, t, e) == Append(s \o t, e) = s \o Append(t, e)

LEMMA JoinedMore ==
  ASSUME NEW E, NEW s \in Seq(E), NEW t \in Seq(E), NEW e \in E
  PROVE  JoinsMore(s, t, e)
BY DEF JoinsMore

\* The marks of two sequences are those of the first, then those of the second.
LEMMA MarksJoined ==
  ASSUME NEW E, NEW es \in Seq(E), NEW fs \in Seq(E)
  PROVE  Marks(es) \in Seq(E) /\ Marks(es \o fs) = Marks(es) \o Marks(fs)
<1> DEFINE Held == {n \in Nat : \A t \in Seq(E) : Len(t) = n => Marks(t) \in Seq(E)}
           S == {n \in Nat : \A t \in Seq(E) : Len(t) = n => Marks(es \o t) = Marks(es) \o Marks(t)}
<1>1. \A t \in Seq(E) : \A e \in E :
        Marks(Append(t, e)) = IF Skipped(e) THEN Marks(t) ELSE Append(Marks(t), e)
  BY MarksMore
<1>2. \A t \in Seq(E) : Len(t) = 0 => t = <<>>
  OBVIOUS
<1>3. 0 \in Held
  <2>1. <<>> \in Seq(E)
    OBVIOUS
  <2>2. QED
    BY <1>2, <2>1, MarksOfNone
<1>4. ASSUME NEW n \in Held PROVE n + 1 \in Held
  <2>1. SUFFICES ASSUME NEW t \in Seq(E), Len(t) = n + 1 PROVE Marks(t) \in Seq(E)
    OBVIOUS
  <2>2. PICK s \in Seq(E), e \in E : t = Append(s, e) /\ Len(s) = n
    BY <2>1, LastApart
  <2>3. Marks(s) \in Seq(E)
    BY <2>2
  <2>4. Append(Marks(s), e) \in Seq(E)
    BY <2>3
  <2>5. Marks(t) = IF Skipped(e) THEN Marks(s) ELSE Append(Marks(s), e)
    BY <1>1, <2>2
  <2>6. QED
    BY <2>3, <2>4, <2>5
<1>5. Held \in SUBSET Nat /\ S \in SUBSET Nat /\ Len(es) \in Nat /\ Len(fs) \in Nat
  OBVIOUS
<1>6. \A t \in Seq(E) : Marks(t) \in Seq(E)
  <2> HIDE DEF Held
  <2>1. Nat \subseteq Held
    BY <1>3, <1>4, <1>5, UpFromZero
  <2>2. ASSUME NEW t \in Seq(E) PROVE Marks(t) \in Seq(E)
    <3>1. Len(t) \in Held
      BY <2>1
    <3>2. QED
      BY <3>1 DEF Held
  <2>3. QED
    BY <2>2
<1>7. 0 \in S
  <2>1. SUFFICES ASSUME NEW t \in Seq(E), Len(t) = 0 PROVE Marks(es \o t) = Marks(es) \o Marks(t)
    OBVIOUS
  <2>2. t = <<>> /\ es \o t = es
    BY <2>1
  <2>3. Marks(es) \o <<>> = Marks(es)
    BY <1>6
  <2>4. QED
    BY <2>2, <2>3, MarksOfNone
<1>8. ASSUME NEW n \in S PROVE n + 1 \in S
  <2>1. SUFFICES ASSUME NEW t \in Seq(E), Len(t) = n + 1
                 PROVE  Marks(es \o t) = Marks(es) \o Marks(t)
    OBVIOUS
  <2>2. PICK s \in Seq(E), e \in E : t = Append(s, e) /\ Len(s) = n
    BY <2>1, LastApart
  <2>3. es \o t = Append(es \o s, e) /\ es \o s \in Seq(E)
    BY <2>2
  <2>4. Marks(es \o s) = Marks(es) \o Marks(s)
    BY <2>2
  <2>5. Marks(es) \in Seq(E) /\ Marks(s) \in Seq(E)
    BY <1>6
  <2>6. Marks(t) = IF Skipped(e) THEN Marks(s) ELSE Append(Marks(s), e)
    BY <1>1, <2>2
  <2>7. Marks(es \o t) = IF Skipped(e) THEN Marks(es \o s) ELSE Append(Marks(es \o s), e)
    BY <1>1, <2>3
  <2>8. Append(Marks(es) \o Marks(s), e) = Marks(es) \o Append(Marks(s), e)
    <3>1. JoinsMore(Marks(es), Marks(s), e)
      BY <2>5, JoinedMore
    <3>2. QED
      BY <3>1 DEF JoinsMore
  <2>9. QED
    BY <2>4, <2>6, <2>7, <2>8
<1>9. Len(fs) \in S
  <2> HIDE DEF S, Held
  <2>1. QED
    BY <1>5, <1>7, <1>8, UpFromZero
<1>10. QED
  BY <1>6, <1>9

\* What came last is compensated first.
LEMMA CompensationJoined ==
  ASSUME NEW E, NEW es \in Seq(E), NEW fs \in Seq(E)
  PROVE  Compensation(es \o fs) = Compensation(fs) \o Compensation(es)
<1> DEFINE ms == Marks(es)
           ns == Marks(fs)
           m == Len(ms)
           n == Len(ns)
<1>1. ms \in Seq(E) /\ ns \in Seq(E) /\ Marks(es \o fs) = ms \o ns
  BY MarksJoined
<1>2. m \in Nat /\ n \in Nat /\ Len(ms \o ns) = m + n
  BY <1>1
<1>3. Compensation(es) = [i \in 1 .. m |-> InverseOf(ms[m - i + 1])]
  BY <1>2 DEF Compensation, Reverse
<1>4. Compensation(fs) = [i \in 1 .. n |-> InverseOf(ns[n - i + 1])]
  BY <1>2 DEF Compensation, Reverse
<1>5. Compensation(es \o fs) = [i \in 1 .. m + n |-> InverseOf((ms \o ns)[m + n - i + 1])]
  BY <1>1, <1>2 DEF Compensation, Reverse
<1> DEFINE cs == Compensation(es)
           ds == Compensation(fs)
           bs == Compensation(es \o fs)
           C == {InverseOf(x) : x \in E}
<1>6. \A i \in 1 .. m : ms[m - i + 1] \in E
  BY <1>1, <1>2
<1>7. \A i \in 1 .. n : ns[n - i + 1] \in E
  BY <1>1, <1>2
<1>8. cs \in Seq(C) /\ Len(cs) = m /\ ds \in Seq(C) /\ Len(ds) = n
  <2>1. cs \in [1 .. m -> C] /\ ds \in [1 .. n -> C]
    BY <1>3, <1>4, <1>6, <1>7
  <2> HIDE DEF cs, ds, m, n, C
  <2>2. QED
    BY <1>2, <2>1, SeqDef
<1>9. bs \in Seq(C) /\ Len(bs) = n + m
  <2>1. \A i \in 1 .. m + n : (ms \o ns)[m + n - i + 1] \in E
    BY <1>1, <1>2
  <2>2. bs \in [1 .. m + n -> C]
    BY <1>5, <2>1
  <2> HIDE DEF bs, m, n, C
  <2>3. m + n \in Nat /\ n + m = m + n
    BY <1>2
  <2>4. QED
    BY <2>2, <2>3, SeqDef
<1>10. ASSUME NEW i \in 1 .. m + n PROVE bs[i] = IF i <= n THEN ds[i] ELSE cs[i - n]
  <2>1. bs[i] = InverseOf((ms \o ns)[m + n - i + 1])
    BY <1>5
  <2>2. CASE i <= n
    <3>1. ds[i] = InverseOf(ns[n - i + 1])
      BY <1>2, <1>4, <2>2
    <3>2. (ms \o ns)[m + n - i + 1] = ns[n - i + 1]
      BY <1>1, <1>2, <2>2
    <3>3. QED
      BY <2>1, <2>2, <3>1, <3>2
  <2>3. CASE ~(i <= n)
    <3>1. i - n \in 1 .. m
      BY <1>2, <2>3
    <3>2. cs[i - n] = InverseOf(ms[m - (i - n) + 1])
      BY <1>2, <1>3, <3>1
    <3>3. (ms \o ns)[m + n - i + 1] = ms[m - (i - n) + 1]
      BY <1>1, <1>2, <2>3
    <3>4. QED
      BY <2>1, <2>3, <3>2, <3>3
  <2>4. QED
    BY <2>2, <2>3
<1> HIDE DEF bs, cs, ds, m, n, C
<1>11. ds \o cs \in Seq(C) /\ Len(ds \o cs) = n + m
  BY <1>8, JoinedAt
<1>12. \A i \in 1 .. n + m : bs[i] = (ds \o cs)[i]
  <2>1. \A i \in 1 .. n + m : (ds \o cs)[i] = IF i <= n THEN ds[i] ELSE cs[i - n]
    BY <1>8, JoinedAt
  <2>2. n + m = m + n
    BY <1>2
  <2>3. QED
    BY <1>10, <2>1, <2>2
<1>13. bs = ds \o cs
  BY <1>11, <1>12, <1>9, SeqEqual
<1>14. QED
  BY <1>13 DEF bs, cs, ds

-----------------------------------------------------------------------------
(* Where a sequence of events leads *)

\* Something in the sequence cannot be undone.
Lasting(es) == \E T : es \in Seq(T) /\ HasFinal(es)

Leads(g, es, y) == (\E E : es \in Seq(E)) /\ ApplyAll(g, es) = Begin(y)

\* What can be compensated at y is, and gives back g.
Reverts(g, es, y) == Lasting(es) \/ ApplyAll(y, Compensation(es)) = Begin(g)

Goes(g, es, y) == Leads(g, es, y) /\ Reverts(g, es, y)

\* The two events that a decision accepts although they may not fit.
Tolerated == {"reaction_restored", "spark_spent"}
Stops(g, es) ==
  (\E E : es \in Seq(E)) /\ \E x : \E k \in Tolerated : ApplyAll(g, es) = [game |-> x, refused |-> k]

\* The events lead into S, or one of those two does not fit.
Fares(g, es, S) == (\E y \in S : Goes(g, es, y)) \/ Stops(g, es)

LEMMA ToleratedIs == Tolerated \subseteq Kinds
BY DEF Tolerated, Kinds

LEMMA LeadsJoined ==
  ASSUME NEW g, NEW es, NEW y, Leads(g, es, y), NEW fs, NEW z, Leads(y, fs, z)
  PROVE  Leads(g, es \o fs, z)
<1>1. PICK E : es \in Seq(E)
  BY DEF Leads
<1>2. PICK F : fs \in Seq(F)
  BY DEF Leads
<1> DEFINE T == E \cup F
<1>3. es \in Seq(T) /\ fs \in Seq(T) /\ es \o fs \in Seq(T)
  BY <1>1, <1>2
<1>4. "spark_spent" \in Kinds
  BY DEF Kinds
<1> HIDE DEF T
<1>5. ApplyAll(g, es \o fs) = ApplyAll(y, fs)
  BY <1>3, <1>4, AppliedJoined DEF Leads
<1>6. QED
  BY <1>3, <1>5 DEF Leads

LEMMA RevertsJoined ==
  ASSUME NEW g, NEW es, NEW y, Goes(g, es, y), NEW fs, NEW z, Goes(y, fs, z)
  PROVE  Reverts(g, es \o fs, z)
<1>1. PICK E : es \in Seq(E)
  BY DEF Goes, Leads
<1>2. PICK F : fs \in Seq(F)
  BY DEF Goes, Leads
<1> DEFINE T == E \cup F
<1>3. es \in Seq(T) /\ fs \in Seq(T)
  BY <1>1, <1>2
<1>4. CASE Lasting(es) \/ Lasting(fs)
  <2>1. HasFinal(es) \/ HasFinal(fs)
    BY <1>4 DEF Lasting
  <2>2. HasFinal(es \o fs) /\ es \o fs \in Seq(E \cup F)
    BY <1>1, <1>2, <2>1, FinalJoined
  <2>3. QED
    BY <2>2 DEF Reverts, Lasting
<1>5. CASE ~Lasting(es) /\ ~Lasting(fs)
  <2> HIDE DEF T
  <2> DEFINE bs == Compensation(fs)
             cs == Compensation(es)
  <2>1. ApplyAll(z, bs) = Begin(y) /\ ApplyAll(y, cs) = Begin(g)
    BY <1>5 DEF Goes, Reverts
  <2>2. Compensation(es \o fs) = bs \o cs
    BY <1>3, CompensationJoined
  <2>3. Marks(es) \in Seq(T) /\ Marks(fs) \in Seq(T)
    BY <1>3, MarksJoined
  <2>4. PICK B : bs \in Seq(B)
    BY <2>3, CompensationIs
  <2>5. PICK C : cs \in Seq(C)
    BY <2>3, CompensationIs
  <2> HIDE DEF bs, cs
  <2>6. bs \in Seq(B \cup C) /\ cs \in Seq(B \cup C)
    BY <2>4, <2>5
  <2>7. "spark_spent" \in Kinds
    BY DEF Kinds
  <2>8. ApplyAll(z, bs \o cs) = ApplyAll(y, cs)
    BY <2>1, <2>6, <2>7, AppliedJoined
  <2>9. QED
    BY <2>1, <2>2, <2>8 DEF Reverts
<1>6. QED
  BY <1>4, <1>5

LEMMA GoesJoined ==
  ASSUME NEW g, NEW es, NEW y, Goes(g, es, y), NEW fs, NEW z, Goes(y, fs, z)
  PROVE  Goes(g, es \o fs, z)
BY LeadsJoined, RevertsJoined DEF Goes

LEMMA StopsFirst ==
  ASSUME NEW g, NEW es, Stops(g, es), NEW fs, NEW F, fs \in Seq(F)
  PROVE  Stops(g, es \o fs)
<1>1. PICK E : es \in Seq(E)
  BY DEF Stops
<1> DEFINE T == E \cup F
<1>2. es \in Seq(T) /\ fs \in Seq(T) /\ es \o fs \in Seq(T)
  BY <1>1
<1>3. PICK x : \E k \in Tolerated : ApplyAll(g, es) = [game |-> x, refused |-> k]
  BY DEF Stops
<1>4. PICK k \in Tolerated : ApplyAll(g, es) = [game |-> x, refused |-> k]
  BY <1>3
<1>5. k \in Kinds
  BY ToleratedIs
<1> HIDE DEF T
<1>6. ApplyAll(g, es \o fs) = [game |-> x, refused |-> k]
  BY <1>2, <1>4, <1>5, AppliedJoined
<1>7. QED
  BY <1>2, <1>6 DEF Stops

LEMMA StopsLater ==
  ASSUME NEW g, NEW es, NEW y, Goes(g, es, y), NEW fs, Stops(y, fs)
  PROVE  Stops(g, es \o fs)
<1>1. PICK E : es \in Seq(E)
  BY DEF Goes, Leads
<1>2. PICK F : fs \in Seq(F)
  BY DEF Stops
<1> DEFINE T == E \cup F
<1>3. es \in Seq(T) /\ fs \in Seq(T) /\ es \o fs \in Seq(T)
  BY <1>1, <1>2
<1>4. "spark_spent" \in Kinds
  BY DEF Kinds
<1> HIDE DEF T
<1>5. ApplyAll(g, es \o fs) = ApplyAll(y, fs)
  BY <1>3, <1>4, AppliedJoined DEF Goes, Leads
<1>6. QED
  BY <1>3, <1>5 DEF Stops

\* One sequence after another.
LEMMA FaresJoined ==
  ASSUME NEW g, NEW es, NEW S, Fares(g, es, S), NEW fs, NEW R,
         \A y \in S : Fares(y, fs, R), NEW F, fs \in Seq(F)
  PROVE  Fares(g, es \o fs, R)
<1>1. CASE Stops(g, es)
  BY <1>1, StopsFirst DEF Fares
<1>2. ASSUME NEW y \in S, Goes(g, es, y) PROVE Fares(g, es \o fs, R)
  <2>1. CASE Stops(y, fs)
    BY <1>2, <2>1, StopsLater DEF Fares
  <2>2. ASSUME NEW z \in R, Goes(y, fs, z) PROVE Fares(g, es \o fs, R)
    BY <1>2, <2>2, GoesJoined DEF Fares
  <2>3. Fares(y, fs, R)
    OBVIOUS
  <2>4. QED
    BY <2>1, <2>2, <2>3 DEF Fares
<1>3. QED
  BY <1>1, <1>2 DEF Fares

LEMMA FaresWide ==
  ASSUME NEW g, NEW es, NEW S, NEW R, Fares(g, es, S), S \subseteq R
  PROVE  Fares(g, es, R)
BY DEF Fares

LEMMA GoesNone ==
  ASSUME NEW g
  PROVE  Goes(g, <<>>, g)
<1>1. Leads(g, <<>>, g)
  <2>1. <<>> \in Seq({})
    OBVIOUS
  <2>2. QED
    BY <2>1, AppliedNone DEF Leads
<1>2. Compensation(<<>>) = <<>>
  BY MarksOfNone DEF Compensation, Reverse
<1>3. QED
  BY <1>1, <1>2, AppliedNone DEF Goes, Reverts

LEMMA FaresNone ==
  ASSUME NEW S, NEW g \in S
  PROVE  Fares(g, <<>>, S)
BY GoesNone DEF Fares

LEMMA LeadsOne ==
  ASSUME NEW g, NEW e, Fits(g, e)
  PROVE  Leads(g, <<e>>, Step(g, e))
<1>1. <<e>> \in Seq({e})
  OBVIOUS
<1>2. QED
  BY <1>1, AppliedOne DEF Leads, Fits

LEMMA StopsOne ==
  ASSUME NEW g, NEW e, e.kind \in Tolerated, ~Fits(g, e)
  PROVE  Stops(g, <<e>>)
<1>1. <<e>> \in Seq({e})
  OBVIOUS
<1>2. QED
  BY <1>1, AppliedOne, ToleratedIs DEF Stops

\* An event that no compensation undoes.
LEMMA GoesFinal ==
  ASSUME NEW g, NEW e, Fits(g, e), Final(e)
  PROVE  Goes(g, <<e>>, Step(g, e))
BY LeadsOne, FinalOne DEF Goes, Reverts, Lasting

LEMMA CompensationOfOne ==
  ASSUME NEW e
  PROVE  Compensation(<<e>>) = IF Skipped(e) THEN <<>> ELSE <<InverseOf(e)>>
<1>1. CASE Skipped(e)
  BY <1>1, MarksOfOne DEF Compensation, Reverse
<1>2. CASE ~Skipped(e)
  <2> DEFINE cs == Compensation(<<e>>)
  <2>1. Marks(<<e>>) = <<e>> /\ <<e>> \in Seq({e})
    BY <1>2, MarksOfOne
  <2>2. PICK F : cs \in Seq(F)
    BY <2>1, CompensationIs
  <2>3. /\ Len(cs) = Len(Marks(<<e>>))
        /\ \A i \in 1 .. Len(Marks(<<e>>)) :
             cs[i] = InverseOf(Marks(<<e>>)[Len(Marks(<<e>>)) - i + 1])
    BY <2>1, CompensationIs
  <2> HIDE DEF cs
  <2>4. Len(cs) = 1 /\ cs[1] = InverseOf(e)
    BY <2>1, <2>3
  <2>5. cs = <<cs[1]>>
    BY <2>2, <2>4
  <2>6. QED
    BY <1>2, <2>4, <2>5 DEF cs
<1>3. QED
  BY <1>1, <1>2

\* An event that its inverse takes back.
LEMMA GoesBack ==
  ASSUME NEW g, NEW e, Fits(g, e), ~Skipped(e),
         Fits(Step(g, e), InverseOf(e)), Step(Step(g, e), InverseOf(e)) = g
  PROVE  Goes(g, <<e>>, Step(g, e))
<1>1. ApplyAll(Step(g, e), <<InverseOf(e)>>) = Begin(g)
  BY LeadsOne DEF Leads
<1>2. QED
  BY <1>1, LeadsOne, CompensationOfOne DEF Goes, Reverts

\* An event that leaves no mark and changes nothing.
LEMMA GoesNowhere ==
  ASSUME NEW g, NEW e, Fits(g, e), Skipped(e), Step(g, e) = g
  PROVE  Goes(g, <<e>>, g)
<1>1. Compensation(<<e>>) = <<>>
  BY CompensationOfOne
<1>2. QED
  BY <1>1, LeadsOne, AppliedNone DEF Goes, Reverts

\* Two events that the inverse of the first takes back.
LEMMA GoesBackTwice ==
  ASSUME NEW g, NEW e, Fits(g, e), ~Skipped(e), NEW f, Fits(Step(g, e), f), Skipped(f),
         NEW y, y = Step(Step(g, e), f), Fits(y, InverseOf(e)), Step(y, InverseOf(e)) = g
  PROVE  Goes(g, <<e>> \o <<f>>, y)
<1>1. Leads(g, <<e>> \o <<f>>, y)
  BY LeadsOne, LeadsJoined
<1>2. <<e>> \in Seq({e, f}) /\ <<f>> \in Seq({e, f})
  OBVIOUS
<1>3. Compensation(<<e>> \o <<f>>) = Compensation(<<f>>) \o Compensation(<<e>>)
  BY <1>2, CompensationJoined
<1>4. Compensation(<<f>>) = <<>> /\ Compensation(<<e>>) = <<InverseOf(e)>>
  BY CompensationOfOne
<1>5. Compensation(<<e>> \o <<f>>) = <<InverseOf(e)>>
  BY <1>3, <1>4
<1>6. ApplyAll(y, <<InverseOf(e)>>) = Begin(g)
  BY LeadsOne DEF Leads
<1>7. QED
  BY <1>1, <1>5, <1>6 DEF Goes, Reverts

\* What cannot be undone does not become so by what follows.
LEMMA FinalThen ==
  ASSUME NEW g, NEW e, Fits(g, e), Final(e), NEW fs, NEW y, Leads(Step(g, e), fs, y)
  PROVE  Goes(g, <<e>> \o fs, y)
<1>1. Leads(g, <<e>> \o fs, y)
  BY LeadsOne, LeadsJoined
<1>2. PICK F : fs \in Seq(F)
  BY DEF Leads
<1>3. HasFinal(<<e>>) /\ <<e>> \in Seq({e})
  BY FinalOne
<1>4. HasFinal(<<e>> \o fs) /\ <<e>> \o fs \in Seq({e} \cup F)
  BY <1>2, <1>3, FinalJoined
<1>5. QED
  BY <1>1, <1>4 DEF Goes, Reverts, Lasting

\* Where the events lead, whether or not they can be undone.
Ends(g, es, S) == (\E y \in S : Leads(g, es, y)) \/ Stops(g, es)

LEMMA FaresEnds ==
  ASSUME NEW g, NEW es, NEW S, Fares(g, es, S)
  PROVE  Ends(g, es, S)
BY DEF Fares, Goes, Ends

LEMMA EndsFares ==
  ASSUME NEW g, NEW es, NEW S, Ends(g, es, S), Lasting(es)
  PROVE  Fares(g, es, S)
BY DEF Ends, Fares, Goes, Reverts

LEMMA EndsJoined ==
  ASSUME NEW g, NEW es, NEW S, Ends(g, es, S), NEW fs, NEW R,
         \A y \in S : Ends(y, fs, R), NEW F, fs \in Seq(F)
  PROVE  Ends(g, es \o fs, R)
<1>1. CASE Stops(g, es)
  BY <1>1, StopsFirst DEF Ends
<1>2. ASSUME NEW y \in S, Leads(g, es, y) PROVE Ends(g, es \o fs, R)
  <2>1. CASE Stops(y, fs)
    <3>1. PICK E : es \in Seq(E)
      BY <1>2 DEF Leads
    <3> DEFINE T == E \cup F
    <3>2. es \in Seq(T) /\ fs \in Seq(T) /\ es \o fs \in Seq(T)
      BY <3>1
    <3>3. "spark_spent" \in Kinds
      BY DEF Kinds
    <3> HIDE DEF T
    <3>4. ApplyAll(g, es \o fs) = ApplyAll(y, fs)
      BY <1>2, <3>2, <3>3, AppliedJoined DEF Leads
    <3>5. QED
      BY <2>1, <3>2, <3>4 DEF Stops, Ends
  <2>2. ASSUME NEW z \in R, Leads(y, fs, z) PROVE Ends(g, es \o fs, R)
    BY <1>2, <2>2, LeadsJoined DEF Ends
  <2>3. Ends(y, fs, R)
    OBVIOUS
  <2>4. QED
    BY <2>1, <2>2, <2>3 DEF Ends
<1>3. QED
  BY <1>1, <1>2 DEF Ends

LEMMA LastingJoined ==
  ASSUME NEW es, NEW fs, NEW E, es \in Seq(E), NEW F, fs \in Seq(F), Lasting(es) \/ Lasting(fs)
  PROVE  Lasting(es \o fs)
<1>1. HasFinal(es) \/ HasFinal(fs)
  BY DEF Lasting
<1>2. HasFinal(es \o fs) /\ es \o fs \in Seq(E \cup F)
  BY <1>1, FinalJoined
<1>3. QED
  BY <1>2 DEF Lasting

LEMMA LastingOne ==
  ASSUME NEW e, Final(e)
  PROVE  Lasting(<<e>>)
BY FinalOne DEF Lasting

=============================================================================
