--------------------------- MODULE Programs_proofs ---------------------------
(***************************************************************************)
(* Proofs about the programs a user sees: the files of terminals, cat and  *)
(* ls (module Files), and the line editing and screen of a terminal        *)
(* (module Terminal).                                                      *)
(***************************************************************************)
EXTENDS Files, Terminal, FiniteSetTheorems, SequenceTheorems, WellFoundedInduction, TLAPS

-----------------------------------------------------------------------------
(* Induction over the natural numbers, and what Pick computes.             *)

\* A non-empty set of natural numbers has a least element.
LEMMA LeastElement ==
    ASSUME NEW T \in SUBSET Nat, T # {}
    PROVE  \E x \in T : \A y \in T : x <= y
<1> DEFINE R == {ss \in Nat \X Nat : ss[1] < ss[2]}
<1>1. IsWellFoundedOn(R, Nat)
  BY NatLessThanWellFounded, Zenon DEF OpToRel
<1>2. \A a, b \in Nat : a < b => <<a, b>> \in R
  OBVIOUS
<1> HIDE DEF R
<1>3. PICK x \in T : \A y \in T : ~(<<y, x>> \in R)
  BY <1>1, WFMin, Zenon
<1>4. ASSUME NEW y \in T PROVE x <= y
  <2>1. ~(y < x)
    BY <1>2, <1>3, Zenon
  <2> QED BY <2>1
<1> QED BY <1>4

\* Induction up to a bound, with the claim as a set of numbers.
LEMMA UpTo ==
    ASSUME NEW N \in Nat, NEW T, 0 \in T, \A n \in 0..(N - 1) : n \in T => n + 1 \in T
    PROVE  \A n \in 0..N : n \in T
<1> DEFINE M == {n \in 0..N : n \notin T}
<1> SUFFICES ASSUME M # {} PROVE FALSE
  OBVIOUS
<1>1. M \in SUBSET Nat
  OBVIOUS
<1>2. PICK x \in M : \A y \in M : x <= y
  <2> HIDE DEF M
  <2> QED BY <1>1, LeastElement
<1>3. x \in 0..N /\ x \notin T /\ x # 0
  BY <1>2
<1>4. x - 1 \in 0..(N - 1) /\ ~(x <= x - 1)
  BY <1>3
<1>5. x - 1 \in T
  BY <1>2, <1>4
<1>6. (x - 1) + 1 = x
  BY <1>3
<1> QED BY <1>3, <1>4, <1>5, <1>6

\* The characters of s among the first n places that are in I.
PickTo(s, I) == LET f[n \in 0..Len(s)] == IF n = 0 THEN << >>
                                           ELSE IF n \in I THEN Append(f[n - 1], s[n]) ELSE f[n - 1]
                IN  f

\* The recursive definition has a solution.
LEMMA PickDef ==
    ASSUME NEW s, NEW I, Len(s) \in Nat
    PROVE  /\ PickTo(s, I)[0] = << >>
           /\ \A n \in 1..Len(s) :
                 PickTo(s, I)[n] = IF n \in I THEN Append(PickTo(s, I)[n - 1], s[n])
                                   ELSE PickTo(s, I)[n - 1]
           /\ Pick(s, I) = PickTo(s, I)[Len(s)]
<1> DEFINE Step(x, n) == IF n \in I THEN Append(x, s[n]) ELSE x
           Solves(g, m) == g = [n \in 0..m |-> IF n = 0 THEN << >> ELSE Step(g[n - 1], n)]
           T == {m \in Nat : \E g : Solves(g, m)}
<1>1. 0 \in T
  <2>1. Solves([n \in 0..0 |-> << >>], 0)
    OBVIOUS
  <2> QED BY <2>1
<1>2. ASSUME NEW m \in 0..(Len(s) - 1), m \in T PROVE m + 1 \in T
  <2>1. PICK g : Solves(g, m)
    BY <1>2
  <2> DEFINE f == [n \in 0..(m + 1) |-> IF n = m + 1 THEN Step(g[m], m + 1) ELSE g[n]]
  <2>2. ASSUME NEW n \in 0..(m + 1)
        PROVE  f[n] = IF n = 0 THEN << >> ELSE Step(f[n - 1], n)
    <3> HIDE DEF Step
    <3> QED BY <2>1
  <2>3. Solves(f, m + 1)
    <3> HIDE DEF Step
    <3> QED BY <2>2
  <2> HIDE DEF f, Solves
  <2> QED BY <2>3
<1>3. Len(s) \in T
  <2> HIDE DEF T
  <2>1. \A n \in 0..Len(s) : n \in T
    BY <1>1, <1>2, UpTo
  <2> QED BY <2>1
<1>4. PICK g : Solves(g, Len(s))
  BY <1>3
<1>5. Solves(PickTo(s, I), Len(s))
  BY <1>4 DEF PickTo
<1> HIDE DEF T
<1>6. \A n \in 0..Len(s) : PickTo(s, I)[n] = IF n = 0 THEN << >> ELSE Step(PickTo(s, I)[n - 1], n)
  <2> HIDE DEF Step
  <2> QED BY <1>5
<1>7. Pick(s, I) = PickTo(s, I)[Len(s)]
  BY DEF Pick, PickTo
<1> QED BY <1>6, <1>7

\* What is picked are characters of s.
LEMMA PickType ==
    ASSUME NEW S, NEW s \in Seq(S), NEW I
    PROVE  /\ \A n \in 0..Len(s) : PickTo(s, I)[n] \in Seq(S)
           /\ Pick(s, I) \in Seq(S)
<1> DEFINE f == PickTo(s, I)
           T == {n \in Nat : f[n] \in Seq(S)}
<1>0. Len(s) \in Nat /\ \A n \in 1..Len(s) : s[n] \in S
  OBVIOUS
<1>1. /\ f[0] = << >>
      /\ \A n \in 1..Len(s) : f[n] = IF n \in I THEN Append(f[n - 1], s[n]) ELSE f[n - 1]
      /\ Pick(s, I) = f[Len(s)]
  BY <1>0, PickDef
<1> HIDE DEF f
<1>2. 0 \in T
  <2>1. << >> \in Seq(S)
    OBVIOUS
  <2> QED BY <1>1, <2>1, Zenon
<1>3. ASSUME NEW n \in 0..(Len(s) - 1), n \in T PROVE n + 1 \in T
  <2>1. n + 1 \in 1..Len(s) /\ (n + 1) - 1 = n
    BY <1>0
  <2>2. f[n + 1] = IF n + 1 \in I THEN Append(f[n], s[n + 1]) ELSE f[n]
    BY <1>1, <2>1
  <2>3. f[n] \in Seq(S) /\ s[n + 1] \in S
    BY <1>0, <1>3, <2>1
  <2>4. Append(f[n], s[n + 1]) \in Seq(S)
    BY <2>3
  <2>5. f[n + 1] \in Seq(S)
    BY <2>2, <2>3, <2>4
  <2>6. n + 1 \in Nat
    BY <2>1
  <2> QED BY <2>5, <2>6
<1>4. \A n \in 0..Len(s) : n \in T
  <2> HIDE DEF T
  <2> QED BY <1>0, <1>2, <1>3, UpTo
<1> QED BY <1>0, <1>1, <1>4 DEF f

\* Pick depends only on the places it looks at.
LEMMA PickSame ==
    ASSUME NEW s, NEW t, NEW I, NEW J, Len(s) \in Nat, Len(t) \in Nat, NEW N \in Nat,
           N <= Len(s), N <= Len(t),
           \A n \in 1..N : s[n] = t[n] /\ (n \in I <=> n \in J)
    PROVE  \A n \in 0..N : PickTo(s, I)[n] = PickTo(t, J)[n]
<1> DEFINE f == PickTo(s, I)
           g == PickTo(t, J)
           T == {n \in Nat : f[n] = g[n]}
<1>1. /\ f[0] = << >>
      /\ \A n \in 1..Len(s) : f[n] = IF n \in I THEN Append(f[n - 1], s[n]) ELSE f[n - 1]
  BY PickDef
<1>2. /\ g[0] = << >>
      /\ \A n \in 1..Len(t) : g[n] = IF n \in J THEN Append(g[n - 1], t[n]) ELSE g[n - 1]
  BY PickDef
<1> HIDE DEF f, g
<1>3. 0 \in T
  BY <1>1, <1>2
<1>4. ASSUME NEW n \in 0..(N - 1), n \in T PROVE n + 1 \in T
  <2>1. n + 1 \in 1..Len(s) /\ n + 1 \in 1..Len(t) /\ n + 1 \in 1..N /\ (n + 1) - 1 = n
    OBVIOUS
  <2>2. /\ f[n + 1] = IF n + 1 \in I THEN Append(f[n], s[n + 1]) ELSE f[n]
        /\ g[n + 1] = IF n + 1 \in J THEN Append(g[n], t[n + 1]) ELSE g[n]
    BY <1>1, <1>2, <2>1
  <2> QED BY <1>4, <2>1, <2>2
<1>5. \A n \in 0..N : n \in T
  <2> HIDE DEF T
  <2> QED BY <1>3, <1>4, UpTo
<1> QED BY <1>5 DEF f, g

\* One more character.
LEMMA PickAppend ==
    ASSUME NEW S, NEW s \in Seq(S), NEW x, NEW I, NEW J,
           \A n \in 1..Len(s) : n \in I <=> n \in J
    PROVE  Pick(Append(s, x), J) = IF Len(s) + 1 \in J THEN Append(Pick(s, I), x) ELSE Pick(s, I)
<1> DEFINE t == Append(s, x)
<1>1. /\ Len(s) \in Nat /\ Len(t) = Len(s) + 1 /\ t[Len(s) + 1] = x
      /\ \A n \in 1..Len(s) : s[n] = t[n]
  OBVIOUS
<1> HIDE DEF t
<1>2. PickTo(s, I)[Len(s)] = PickTo(t, J)[Len(s)]
  BY <1>1, PickSame
<1>3. Pick(s, I) = PickTo(s, I)[Len(s)]
  BY <1>1, PickDef
<1>4. /\ Pick(t, J) = PickTo(t, J)[Len(s) + 1]
      /\ PickTo(t, J)[Len(s) + 1] = IF Len(s) + 1 \in J THEN Append(PickTo(t, J)[Len(s)], x)
                                    ELSE PickTo(t, J)[Len(s)]
  BY <1>1, PickDef
<1> QED BY <1>2, <1>3, <1>4 DEF t

\* Without the last place that is picked.
LEMMA PickWithout ==
    ASSUME NEW S, NEW s \in Seq(S), NEW I, NEW p \in 1..Len(s), p \in I,
           \A n \in (p + 1)..Len(s) : n \notin I
    PROVE  Pick(s, I) = Append(Pick(s, I \ {p}), s[p])
<1> DEFINE J == I \ {p}
           f == PickTo(s, I)
           g == PickTo(s, J)
           T == {n \in Nat : (n < p => f[n] = g[n]) /\ (n >= p => f[n] = Append(g[n], s[p]))}
<1>0. Len(s) \in Nat /\ p \in Nat
  OBVIOUS
<1>1. /\ f[0] = << >>
      /\ \A n \in 1..Len(s) : f[n] = IF n \in I THEN Append(f[n - 1], s[n]) ELSE f[n - 1]
      /\ Pick(s, I) = f[Len(s)]
  BY <1>0, PickDef
<1>2. /\ g[0] = << >>
      /\ \A n \in 1..Len(s) : g[n] = IF n \in J THEN Append(g[n - 1], s[n]) ELSE g[n - 1]
      /\ Pick(s, J) = g[Len(s)]
  BY <1>0, PickDef
<1>3. \A n \in 1..Len(s) : (n # p => (n \in I <=> n \in J)) /\ (n > p => n \notin I) /\ p \notin J
  BY <1>0
<1> HIDE DEF f, g, J
<1>4. 0 \in T
  BY <1>1, <1>2
<1>5. ASSUME NEW n \in 0..(Len(s) - 1), n \in T PROVE n + 1 \in T
  <2>1. n + 1 \in 1..Len(s) /\ (n + 1) - 1 = n
    BY <1>0
  <2>2. /\ f[n + 1] = IF n + 1 \in I THEN Append(f[n], s[n + 1]) ELSE f[n]
        /\ g[n + 1] = IF n + 1 \in J THEN Append(g[n], s[n + 1]) ELSE g[n]
    BY <1>1, <1>2, <2>1
  <2>3. CASE n + 1 < p
    BY <1>0, <1>3, <1>5, <2>1, <2>2, <2>3
  <2>4. CASE n + 1 = p
    <3>1. f[n] = g[n]
      BY <1>0, <1>5, <2>4
    <3>2. f[n + 1] = Append(f[n], s[p]) /\ g[n + 1] = g[n]
      BY <1>3, <2>1, <2>2, <2>4
    <3>3. f[n + 1] = Append(g[n + 1], s[p])
      BY <3>1, <3>2
    <3> QED BY <1>0, <2>4, <3>3
  <2>5. CASE n + 1 > p
    BY SMTT(30), <1>0, <1>3, <1>5, <2>1, <2>2, <2>5
  <2> QED BY <1>0, <2>3, <2>4, <2>5
<1>6. \A n \in 0..Len(s) : n \in T
  <2> HIDE DEF T
  <2> QED BY <1>0, <1>4, <1>5, UpTo
<1>7. Len(s) \in T /\ Len(s) >= p
  BY <1>0, <1>6
<1>8. f[Len(s)] = Append(g[Len(s)], s[p])
  BY <1>7
<1> QED BY <1>1, <1>2, <1>8 DEF J

-----------------------------------------------------------------------------
(* What is typed and what is run.                                          *)

\* How many backspaces there are at the places a..b.
Backs(s, a, b) == Cardinality({m \in a..b : s[m] = "bs"})

\* The characters b that can be edited are those of s at the places P: they are
\* on its last line, whatever else is there was taken back, and after each of
\* them there have been as many backspaces as characters that are gone.
Place(s, P, b, k) ==
    /\ P[k] \in 1..Len(s)
    /\ b[k] = s[P[k]]
    /\ s[P[k]] \notin {"bs", "nl"}
    /\ \A l \in 1..(k - 1) : P[l] < P[k]
    /\ \A m \in (P[k] + 1)..Len(s) : s[m] # "nl"
    /\ 2 * Backs(s, P[k] + 1, Len(s)) = Len(s) - P[k] - (Len(P) - k)
    /\ \A j \in (P[k] + 1)..Len(s) : 2 * Backs(s, P[k] + 1, j) <= j - P[k]

Elsewhere(s, P, i) ==
    \/ \E k \in 1..Len(P) : i = P[k]
    \/ s[i] \in {"bs", "nl"}
    \/ \E m \in (i + 1)..Len(s) : s[m] = "nl"
    \/ TakenBack(s, i)

OnLine(s, P, b) ==
    /\ Len(P) = Len(b)
    /\ \A k \in 1..Len(P) : Place(s, P, b, k)
    /\ \A i \in 1..Len(s) : Elsewhere(s, P, i)

\* w is u and then v.
Joined(w, u, v) == w = u \o v

\* What can be in a line, and what the pty passes on: the pty keeps the backspaces.
Char == Key \cup {"nl"}
Sent == Char \ {"bs"}

\* The keys that nobody has read yet.
Unread == IF mode = "pty" THEN events ELSE ttyq

TermTypes == /\ mode \in {"pty", "console"}
             /\ typed \in Seq(Key) /\ events \in Seq(Key) /\ ttyq \in Seq(Key)
             /\ pty = [master_read |-> pty.master_read, master_write |-> pty.master_write,
                       line_buf |-> pty.line_buf]
             /\ pty.master_write \in Seq(Sent) /\ pty.line_buf \in Seq(Sent)
             /\ line \in Seq(Char) /\ ran \in Seq(Char)
             /\ lost \in BOOLEAN
             /\ Len(ttyq) <= TTYQ_LEN - 1 /\ Len(pty.line_buf) <= PTY_LINE_CAP - 1

\* What was typed is what was read and what waits.
KeysInOrder == typed = Read \o Unread

\* In the pty's line buffer.
PtyLines == \E P \in Seq(Nat), c \in Seq(Char) :
    /\ OnLine(Read, P, pty.line_buf)
    /\ Joined(Edited(Read), c, pty.line_buf)
    /\ NoTabs(c) = NoTabs(ran \o line \o pty.master_write)

\* In the shell's.
ShellLines == \E P \in Seq(Nat) :
    /\ OnLine(NoTabs(Read), P, line)
    /\ Joined(Edited(NoTabs(Read)), ran, line)

TermInv == /\ TermTypes
           /\ ~lost => /\ KeysInOrder
                       /\ mode = "pty" => PtyLines
                       /\ mode = "console" => ShellLines

-----------------------------------------------------------------------------

\* Concatenation, one character at a time.
LEMMA ConcatAppend ==
    ASSUME NEW S, NEW s \in Seq(S), NEW t \in Seq(S), NEW x \in S
    PROVE  s \o Append(t, x) = Append(s \o t, x)
  OBVIOUS

\* Concatenation is associative.
LEMMA ConcatAssoc ==
    ASSUME NEW S, NEW s \in Seq(S), NEW t \in Seq(S), NEW u \in Seq(S)
    PROVE  s \o (t \o u) = (s \o t) \o u
  OBVIOUS

\* The same for citing: concatenation can be regrouped.
Associates(s, t, u) == (s \o t) \o u = s \o (t \o u)

\* Sequences can.
LEMMA AssociatesAll ==
    ASSUME NEW S, NEW s \in Seq(S), NEW t \in Seq(S), NEW u \in Seq(S)
    PROVE  Associates(s, t, u)
  BY DEF Associates

\* The empty sequence adds nothing.
LEMMA ConcatEmpty ==
    ASSUME NEW S, NEW s \in Seq(S)
    PROVE  s \o << >> = s /\ << >> \o s = s
  OBVIOUS

\* What the shell leaves out of one more character.
LEMMA NoTabsAppend ==
    ASSUME NEW S, NEW s \in Seq(S), NEW x \in S
    PROVE  /\ NoTabs(s) \in Seq(S)
           /\ NoTabs(Append(s, x)) = IF x = "tab" THEN NoTabs(s) ELSE Append(NoTabs(s), x)
<1> DEFINE t == Append(s, x)
           I == {i \in DOMAIN s : s[i] # "tab"}
           J == {i \in DOMAIN t : t[i] # "tab"}
<1>1. /\ \A n \in 1..Len(s) : n \in I <=> n \in J
      /\ Len(s) + 1 \in J <=> x # "tab"
  OBVIOUS
<1> HIDE DEF I, J
<1>2. Pick(t, J) = IF Len(s) + 1 \in J THEN Append(Pick(s, I), x) ELSE Pick(s, I)
  BY <1>1, PickAppend
<1>3. Pick(s, I) \in Seq(S)
  BY PickType
<1>4. NoTabs(s) = Pick(s, I) /\ NoTabs(t) = Pick(t, J)
  BY DEF NoTabs, I, J
<1> QED BY <1>1, <1>2, <1>3, <1>4

\* Leaving out the tabs of nothing leaves nothing.
LEMMA NoTabsEmpty == NoTabs(<< >>) = << >>
<1>1. Len(<< >>) = 0
  OBVIOUS
<1>2. \A I : Pick(<< >>, I) = PickTo(<< >>, I)[0] /\ PickTo(<< >>, I)[0] = << >>
  BY <1>1, PickDef
<1> QED BY <1>2 DEF NoTabs

\* Tabs may be left out of each part.
LEMMA NoTabsConcat ==
    ASSUME NEW S, NEW s \in Seq(S), NEW t \in Seq(S)
    PROVE  NoTabs(s \o t) = NoTabs(s) \o NoTabs(t)
<1> DEFINE u(n) == SubSeq(t, 1, n)
           T == {n \in Nat : NoTabs(s \o u(n)) = NoTabs(s) \o NoTabs(u(n))}
<1>0. /\ Len(t) \in Nat /\ \A n \in 0..Len(t) : u(n) \in Seq(S)
      /\ \A n \in 0..(Len(t) - 1) : u(n + 1) = Append(u(n), t[n + 1]) /\ t[n + 1] \in S
      /\ u(0) = << >> /\ u(Len(t)) = t
  OBVIOUS
<1> HIDE DEF u
<1>1. 0 \in T
  <2>1. NoTabs(s) \in Seq(S)
    BY PickType DEF NoTabs
  <2>2. s \o u(0) = s /\ NoTabs(s) \o NoTabs(u(0)) = NoTabs(s)
    BY <1>0, <2>1, NoTabsEmpty, ConcatEmpty
  <2> QED BY <2>2
<1>2. ASSUME NEW n \in 0..(Len(t) - 1), n \in T PROVE n + 1 \in T
  <2> DEFINE x == t[n + 1]
  <2>1. n \in 0..Len(t) /\ u(n) \in Seq(S) /\ x \in S /\ u(n + 1) = Append(u(n), x) /\ n + 1 \in Nat
    BY <1>0
  <2> HIDE DEF x
  <2>2. s \o Append(u(n), x) = Append(s \o u(n), x)
    BY <2>1, ConcatAppend
  <2>3. s \o u(n) \in Seq(S)
    BY <2>1
  <2>4. NoTabs(s \o u(n + 1)) = IF x = "tab" THEN NoTabs(s \o u(n)) ELSE Append(NoTabs(s \o u(n)), x)
    <3>1. NoTabs(Append(s \o u(n), x)) = IF x = "tab" THEN NoTabs(s \o u(n))
                                         ELSE Append(NoTabs(s \o u(n)), x)
      BY <2>1, <2>3, NoTabsAppend
    <3> QED BY <2>1, <2>2, <3>1
  <2>5. /\ NoTabs(u(n)) \in Seq(S)
        /\ NoTabs(u(n + 1)) = IF x = "tab" THEN NoTabs(u(n)) ELSE Append(NoTabs(u(n)), x)
    BY <2>1, NoTabsAppend
  <2>6. NoTabs(s) \in Seq(S)
    BY PickType DEF NoTabs
  <2>7. NoTabs(s \o u(n)) = NoTabs(s) \o NoTabs(u(n))
    BY <1>2
  <2>8. NoTabs(s) \o Append(NoTabs(u(n)), x) = Append(NoTabs(s) \o NoTabs(u(n)), x)
    BY SMTT(30), <2>1, <2>5, <2>6, ConcatAppend
  <2>9. NoTabs(s \o u(n + 1)) = NoTabs(s) \o NoTabs(u(n + 1))
    BY <2>4, <2>5, <2>7, <2>8
  <2> QED BY <2>1, <2>9
<1>3. \A n \in 0..Len(t) : n \in T
  <2> HIDE DEF T
  <2> QED BY <1>0, <1>1, <1>2, UpTo
<1>4. Len(t) \in T
  <2> HIDE DEF T
  <2> QED BY <1>0, <1>3
<1> QED BY <1>0, <1>4

\* How the number of backspaces grows.
LEMMA BacksAppend ==
    ASSUME NEW S, NEW s \in Seq(S), NEW x \in S, NEW a \in 1..(Len(s) + 1)
    PROVE  /\ \A j \in 0..Len(s) : /\ Backs(s, a, j) \in Nat
                                   /\ Backs(Append(s, x), a, j) = Backs(s, a, j)
           /\ Backs(Append(s, x), a, Len(s) + 1) =
                 IF x = "bs" THEN Backs(s, a, Len(s)) + 1 ELSE Backs(s, a, Len(s))
<1> DEFINE t == Append(s, x)
           B(u, j) == {m \in a..j : u[m] = "bs"}
<1>1. /\ Len(s) \in Nat /\ t[Len(s) + 1] = x
      /\ \A n \in 1..Len(s) : t[n] = s[n]
  OBVIOUS
<1> HIDE DEF t
<1>2. ASSUME NEW j \in 0..Len(s)
      PROVE  B(t, j) = B(s, j) /\ IsFiniteSet(B(s, j)) /\ Cardinality(B(s, j)) \in Nat
  <2>1. B(t, j) = B(s, j)
    BY <1>1
  <2>2. IsFiniteSet(a..j)
    BY FS_Interval
  <2>3. IsFiniteSet(B(s, j))
    BY <2>2, FS_Subset
  <2> QED BY <2>1, <2>3, FS_CardinalityType
<1>3. B(t, Len(s) + 1) = IF x = "bs" THEN B(s, Len(s)) \cup {Len(s) + 1} ELSE B(s, Len(s))
  BY <1>1
<1>4. Len(s) + 1 \notin B(s, Len(s)) /\ Len(s) \in 0..Len(s)
  BY <1>1
<1>5. Cardinality(B(t, Len(s) + 1)) =
         IF x = "bs" THEN Cardinality(B(s, Len(s))) + 1 ELSE Cardinality(B(s, Len(s)))
  <2> DEFINE C == B(s, Len(s))
  <2>1. IsFiniteSet(C) /\ Len(s) + 1 \notin C
    BY <1>2, <1>4
  <2>2. B(t, Len(s) + 1) = IF x = "bs" THEN C \cup {Len(s) + 1} ELSE C
    BY <1>3
  <2> HIDE DEF C
  <2>3. Cardinality(C \cup {Len(s) + 1}) = Cardinality(C) + 1
    BY <2>1, FS_AddElement
  <2> QED BY <2>2, <2>3 DEF C
<1> QED BY <1>2, <1>5 DEF Backs, t

\* When one more key takes a character back.
LEMMA TakenBackAppend ==
    ASSUME NEW S, NEW s \in Seq(S), NEW x \in S, NEW i \in 1..Len(s)
    PROVE  TakenBack(Append(s, x), i) <=>
              \/ TakenBack(s, i)
              \/ /\ x = "bs"
                 /\ \A m \in (i + 1)..Len(s) : s[m] # "nl"
                 /\ 2 * Backs(s, i + 1, Len(s)) + 1 > Len(s) - i
<1> DEFINE t == Append(s, x)
           N == Len(s)
           Line(u, j) == \A m \in (i + 1)..j : u[m] # "nl"
           Dropped(u, j) == Line(u, j) /\ 2 * Backs(u, i + 1, j) > j - i
<1>1. /\ N \in Nat /\ Len(t) = N + 1 /\ t[N + 1] = x
      /\ \A n \in 1..N : t[n] = s[n]
  OBVIOUS
<1>2. TakenBack(t, i) <=> \E j \in (i + 1)..(N + 1) : Dropped(t, j)
  BY <1>1 DEF TakenBack, Backs
<1>3. TakenBack(s, i) <=> \E j \in (i + 1)..N : Dropped(s, j)
  BY DEF TakenBack, Backs
<1>4. /\ \A j \in 0..N : /\ Backs(s, i + 1, j) \in Nat
                         /\ Backs(t, i + 1, j) = Backs(s, i + 1, j)
      /\ Backs(t, i + 1, N + 1) = IF x = "bs" THEN Backs(s, i + 1, N) + 1 ELSE Backs(s, i + 1, N)
  BY BacksAppend
<1> HIDE DEF t
<1>5. ASSUME NEW j \in (i + 1)..N PROVE Dropped(t, j) <=> Dropped(s, j)
  <2>1. Line(t, j) <=> Line(s, j)
    BY <1>1
  <2> QED BY <1>1, <1>4, <2>1
<1>6. Line(t, N + 1) <=> Line(s, N) /\ x # "nl"
  BY <1>1
<1>7. CASE x = "bs"
  <2>1. Dropped(t, N + 1) <=> Line(s, N) /\ 2 * (Backs(s, i + 1, N) + 1) > N + 1 - i
    BY <1>4, <1>6, <1>7
  <2>2. 2 * (Backs(s, i + 1, N) + 1) > N + 1 - i <=> 2 * Backs(s, i + 1, N) + 1 > N - i
    <3>1. N \in 0..N /\ Backs(s, i + 1, N) \in Nat
      BY <1>1, <1>4
    <3> QED BY <1>1, <3>1
  <2> HIDE DEF t, N, Dropped
  <2>3. (\E j \in (i + 1)..(N + 1) : Dropped(t, j)) <=> (\E j \in (i + 1)..N : Dropped(s, j)) \/ Dropped(t, N + 1)
    BY <1>1, <1>5 DEF N
  <2> QED BY <1>2, <1>3, <1>7, <2>1, <2>2, <2>3 DEF t, N
<1>8. CASE x # "bs"
  <2>1. Dropped(t, N + 1) => i + 1 \in (i + 1)..N /\ Dropped(s, N) /\ N \in (i + 1)..N
    <3>1. N \in 0..N /\ Backs(s, i + 1, N) \in Nat
      BY <1>1, <1>4
    <3>2. Dropped(t, N + 1) => Line(s, N) /\ 2 * Backs(s, i + 1, N) > N + 1 - i
      BY <1>4, <1>6, <1>8
    <3>3. N = i => Backs(s, i + 1, N) = 0
      <4> SUFFICES ASSUME N = i PROVE Backs(s, i + 1, N) = 0
        OBVIOUS
      <4>1. {m \in (i + 1)..N : s[m] = "bs"} = {}
        BY <1>1
      <4> QED BY <4>1, FS_EmptySet DEF Backs
    <3> QED BY <1>1, <3>1, <3>2, <3>3
  <2> HIDE DEF t, N, Dropped
  <2>2. (\E j \in (i + 1)..(N + 1) : Dropped(t, j)) <=> (\E j \in (i + 1)..N : Dropped(s, j)) \/ Dropped(t, N + 1)
    BY <1>1, <1>5 DEF N
  <2> QED BY <1>2, <1>3, <1>8, <2>1, <2>2 DEF t, N
<1> QED BY <1>7, <1>8

\* The places of what was typed and not taken back.
Kept(s) == {i \in DOMAIN s : s[i] # "bs" /\ (s[i] = "nl" \/ ~TakenBack(s, i))}

\* What a key does to what is kept.
LEMMA KeptAppend ==
    ASSUME NEW S, NEW s \in Seq(S), NEW x \in S
    PROVE  /\ Kept(s) \subseteq 1..Len(s)
           /\ Len(s) + 1 \in Kept(Append(s, x)) <=> x # "bs"
           /\ \A i \in 1..Len(s) :
                 i \in Kept(Append(s, x)) <=>
                    /\ i \in Kept(s)
                    /\ \/ s[i] = "nl" \/ x # "bs"
                       \/ \E m \in (i + 1)..Len(s) : s[m] = "nl"
                       \/ ~(2 * Backs(s, i + 1, Len(s)) + 1 > Len(s) - i)
<1> DEFINE t == Append(s, x)
<1>1. /\ Len(s) \in Nat /\ Len(t) = Len(s) + 1 /\ t[Len(s) + 1] = x
      /\ \A n \in 1..Len(s) : t[n] = s[n]
      /\ DOMAIN t = 1..(Len(s) + 1) /\ DOMAIN s = 1..Len(s)
  OBVIOUS
<1>2. \A i \in 1..Len(s) :
         TakenBack(t, i) <=>
              \/ TakenBack(s, i)
              \/ /\ x = "bs"
                 /\ \A m \in (i + 1)..Len(s) : s[m] # "nl"
                 /\ 2 * Backs(s, i + 1, Len(s)) + 1 > Len(s) - i
  BY TakenBackAppend
<1> HIDE DEF t
<1>3. ~TakenBack(t, Len(s) + 1)
  <2>1. (Len(s) + 1 + 1)..Len(t) = {}
    BY <1>1
  <2> QED BY <2>1, Zenon DEF TakenBack
<1>4. Len(s) + 1 \in Kept(t) <=> x # "bs"
  BY <1>1, <1>3 DEF Kept
<1>5. Kept(s) \subseteq 1..Len(s)
  BY <1>1 DEF Kept
<1>6. ASSUME NEW i \in 1..Len(s)
      PROVE  i \in Kept(t) <=>
                    /\ i \in Kept(s)
                    /\ \/ s[i] = "nl" \/ x # "bs"
                       \/ \E m \in (i + 1)..Len(s) : s[m] = "nl"
                       \/ ~(2 * Backs(s, i + 1, Len(s)) + 1 > Len(s) - i)
  <2>1. /\ i \in Kept(t) <=> s[i] # "bs" /\ (s[i] = "nl" \/ ~TakenBack(t, i))
        /\ i \in Kept(s) <=> s[i] # "bs" /\ (s[i] = "nl" \/ ~TakenBack(s, i))
    BY <1>1 DEF Kept
  <2> QED BY <1>2, <2>1
<1> QED BY <1>4, <1>5, <1>6 DEF t

\* A newline or any other character that is not a backspace is added.
LEMMA EditedAppend ==
    ASSUME NEW S, NEW s \in Seq(S), NEW x \in S, x # "bs"
    PROVE  Edited(s) \in Seq(S) /\ Edited(Append(s, x)) = Append(Edited(s), x)
<1> DEFINE t == Append(s, x)
<1>1. /\ Edited(s) = Pick(s, Kept(s)) /\ Edited(t) = Pick(t, Kept(t))
  BY DEF Edited, Kept
<1>2. /\ \A n \in 1..Len(s) : n \in Kept(s) <=> n \in Kept(t)
      /\ Len(s) + 1 \in Kept(t)
  BY KeptAppend
<1>3. Pick(t, Kept(t)) = Append(Pick(s, Kept(s)), x)
  BY <1>2, PickAppend
<1>4. Pick(s, Kept(s)) \in Seq(S)
  BY PickType
<1> QED BY <1>1, <1>3, <1>4

\* Nothing comes before the first place.
LEMMA NoBacks ==
    ASSUME NEW s, NEW n \in Nat
    PROVE  Backs(s, n + 1, n) = 0
<1>1. {m \in (n + 1)..n : s[m] = "bs"} = {}
  OBVIOUS
<1> QED BY <1>1, FS_EmptySet DEF Backs

\* The line after a newline is empty.
LEMMA LineNl ==
    ASSUME NEW S, NEW s \in Seq(S), "nl" \in S
    PROVE  OnLine(Append(s, "nl"), << >>, << >>)
<1> DEFINE t == Append(s, "nl")
<1>1. Len(t) = Len(s) + 1 /\ Len(s) \in Nat /\ t[Len(s) + 1] = "nl"
  OBVIOUS
<1> HIDE DEF t
<1>2. ASSUME NEW i \in 1..Len(t)
      PROVE  Elsewhere(t, << >>, i)
  <2>1. CASE i = Len(s) + 1
    BY <1>1, <2>1 DEF Elsewhere
  <2>2. CASE i # Len(s) + 1
    <3>1. Len(s) + 1 \in (i + 1)..Len(t)
      BY <1>1, <2>2
    <3> QED BY <1>1, <3>1 DEF Elsewhere
  <2> QED BY <2>1, <2>2
<1>3. Len(<< >>) = 0 /\ 1..0 = {}
  OBVIOUS
<1>4. OnLine(t, << >>, << >>)
  BY <1>2, <1>3, Zenon DEF OnLine
<1> QED BY <1>4 DEF t

\* The line after another character.
LEMMA LineChar ==
    ASSUME NEW S, NEW s \in Seq(S), NEW x \in S, x \notin {"bs", "nl"},
           NEW P \in Seq(Nat), NEW b \in Seq(S), OnLine(s, P, b)
    PROVE  OnLine(Append(s, x), Append(P, Len(s) + 1), Append(b, x))
<1> DEFINE t == Append(s, x)
           N == Len(s)
           L == Len(P)
           R == Append(P, N + 1)
           c == Append(b, x)
<1>1. /\ N \in Nat /\ Len(t) = N + 1 /\ t[N + 1] = x
      /\ \A n \in 1..N : t[n] = s[n]
  OBVIOUS
<1>2. /\ L \in Nat /\ Len(b) = L
      /\ \A k \in 1..L : Place(s, P, b, k)
      /\ \A i \in 1..N : Elsewhere(s, P, i)
  BY DEF OnLine
<1>3. /\ Len(R) = L + 1 /\ Len(c) = L + 1 /\ R[L + 1] = N + 1 /\ c[L + 1] = x
      /\ \A k \in 1..L : R[k] = P[k] /\ c[k] = b[k]
  BY <1>2
<1>4. \A i \in 1..(N + 1) : /\ \A j \in 0..N : /\ Backs(s, i, j) \in Nat
                                              /\ Backs(t, i, j) = Backs(s, i, j)
                            /\ Backs(t, i, N + 1) = Backs(s, i, N)
  BY BacksAppend
<1>5. \A i \in 1..N : TakenBack(t, i) <=> TakenBack(s, i)
  BY TakenBackAppend
<1>a. N = Len(s) /\ L = Len(P)
  OBVIOUS
<1> HIDE DEF t, R, c, N, L
<1>6. ASSUME NEW k \in 1..L PROVE Place(t, R, c, k)
  <2> DEFINE p == P[k]
  <2>1. /\ p \in 1..N /\ b[k] = s[p] /\ s[p] \notin {"bs", "nl"}
        /\ \A l \in 1..(k - 1) : P[l] < p
        /\ \A m \in (p + 1)..N : s[m] # "nl"
        /\ 2 * Backs(s, p + 1, N) = N - p - (L - k)
        /\ \A j \in (p + 1)..N : 2 * Backs(s, p + 1, j) <= j - p
    BY <1>2 DEF Place, N, L
  <2>2. R[k] = p /\ c[k] = b[k] /\ t[p] = s[p]
    BY <1>1, <1>3, <2>1
  <2>a. k \in Nat /\ p \in Nat
    BY <1>1, <1>2, <2>1
  <2> HIDE DEF p
  <2>3. /\ p + 1 \in 1..(N + 1) /\ N \in 0..N
        /\ Backs(t, p + 1, N + 1) = Backs(s, p + 1, N) /\ Backs(s, p + 1, N) \in Nat
    BY <1>1, <1>4, <2>1
  <2>4. \A l \in 1..(k - 1) : R[l] < p
    BY <1>2, <1>3, <2>1
  <2>5. ASSUME NEW m \in (p + 1)..(N + 1) PROVE t[m] # "nl"
    <3>1. CASE m = N + 1
      BY <1>1, <3>1
    <3>2. CASE m # N + 1
      <4>1. m \in (p + 1)..N /\ m \in 1..N
        BY <1>1, <2>a, <3>2
      <4> QED BY <1>1, <2>1, <4>1
    <3> QED BY <3>1, <3>2
  <2>6. 2 * Backs(t, p + 1, N + 1) = N + 1 - p - (L + 1 - k)
    <3> DEFINE B == Backs(s, p + 1, N)
    <3>1. B \in Nat /\ 2 * B = N - p - (L - k) /\ Backs(t, p + 1, N + 1) = B
      BY <2>1, <2>3
    <3> HIDE DEF B
    <3> QED BY SMTT(30), <1>1, <1>2, <2>a, <3>1
  <2>7. ASSUME NEW j \in (p + 1)..(N + 1) PROVE 2 * Backs(t, p + 1, j) <= j - p
    <3>1. CASE j = N + 1
      BY <1>1, <1>2, <2>a, <2>6, <3>1
    <3>2. CASE j # N + 1
      <4>1. j \in (p + 1)..N /\ j \in 0..N
        BY <1>1, <2>a, <3>2
      <4>2. Backs(t, p + 1, j) = Backs(s, p + 1, j)
        BY <1>4, <2>3, <4>1
      <4> QED BY <2>1, <4>1, <4>2
    <3> QED BY <3>1, <3>2
  <2>8. p \in 1..(N + 1) /\ c[k] = t[p] /\ t[p] \notin {"bs", "nl"}
    BY <1>1, <2>1, <2>2
  <2>9. /\ R[k] = p /\ Len(t) = N + 1 /\ Len(R) = L + 1
    BY <1>1, <1>3, <2>2
  <2>b. R[k] \in 1..Len(t) /\ c[k] = t[R[k]] /\ t[R[k]] \notin {"bs", "nl"}
    BY <2>8, <2>9
  <2>c. \A l \in 1..(k - 1) : R[l] < R[k]
    BY <2>4, <2>9
  <2>d. \A m \in (R[k] + 1)..Len(t) : t[m] # "nl"
    BY <2>5, <2>9
  <2>e. 2 * Backs(t, R[k] + 1, Len(t)) = Len(t) - R[k] - (Len(R) - k)
    BY <1>1, <1>2, <2>a, <2>3, <2>6, <2>9
  <2>f. \A j \in (R[k] + 1)..Len(t) : 2 * Backs(t, R[k] + 1, j) <= j - R[k]
    BY <2>7, <2>9
  <2> QED BY <2>b, <2>c, <2>d, <2>e, <2>f, Zenon DEF Place
<1>7. Place(t, R, c, L + 1)
  <2>1. (N + 1 + 1)..(N + 1) = {}
    BY <1>1
  <2>2. N + 1 \in Nat
    BY <1>1
  <2>3. Backs(t, N + 1 + 1, N + 1) = 0
    BY <2>2, NoBacks, Zenon
  <2>4. ASSUME NEW l \in 1..(L + 1 - 1) PROVE R[l] < N + 1
    <3>1. l \in 1..L
      BY <1>2
    <3>2. R[l] = P[l] /\ P[l] \in 1..N
      BY <1>2, <1>3, <3>1 DEF Place, N
    <3> QED BY <1>1, <3>2
  <2>5. N + 1 \in 1..(N + 1) /\ 2 * 0 = (N + 1) - (N + 1) - ((L + 1) - (L + 1))
    BY <1>1, <1>2
  <2>6. x \notin {"bs", "nl"}
    OBVIOUS
  <2>7. /\ \A m \in (N + 1 + 1)..(N + 1) : t[m] # "nl"
        /\ \A j \in (N + 1 + 1)..(N + 1) : 2 * Backs(t, N + 1 + 1, j) <= j - (N + 1)
        /\ 2 * Backs(t, N + 1 + 1, N + 1) = (N + 1) - (N + 1) - ((L + 1) - (L + 1))
    BY <2>1, <2>3, <2>5, Zenon
  <2> DEFINE K == L + 1
  <2>9. /\ R[K] = N + 1 /\ Len(t) = N + 1 /\ Len(R) = K /\ c[K] = x /\ K = L + 1
    BY <1>1, <1>3
  <2> HIDE DEF K
  <2>b. R[K] \in 1..Len(t) /\ c[K] = t[R[K]] /\ t[R[K]] \notin {"bs", "nl"}
    BY <1>1, <2>5, <2>6, <2>9
  <2>c. \A l \in 1..(K - 1) : R[l] < R[K]
    BY <1>1, <1>2, <2>4, <2>9
  <2>d. \A m \in (R[K] + 1)..Len(t) : t[m] # "nl"
    BY <2>7, <2>9
  <2>e. 2 * Backs(t, R[K] + 1, Len(t)) = Len(t) - R[K] - (Len(R) - K)
    BY <2>7, <2>9
  <2>f. \A j \in (R[K] + 1)..Len(t) : 2 * Backs(t, R[K] + 1, j) <= j - R[K]
    BY <2>7, <2>9
  <2>g. Place(t, R, c, K)
    BY <2>b, <2>c, <2>d, <2>e, <2>f, Zenon DEF Place
  <2> QED BY <2>9, <2>g
<1>8. ASSUME NEW i \in 1..(N + 1) PROVE Elsewhere(t, R, i)
  <2>1. CASE i = N + 1
    <3>1. L + 1 \in 1..(L + 1)
      BY <1>2
    <3> QED BY <1>3, <2>1, <3>1, Zenon DEF Elsewhere
  <2>2. CASE i # N + 1
    <3>1. i \in 1..N
      BY <1>1, <2>2
    <3>2. \/ \E k \in 1..L : i = P[k]
          \/ s[i] \in {"bs", "nl"}
          \/ \E m \in (i + 1)..N : s[m] = "nl"
          \/ TakenBack(s, i)
      BY <1>2, <3>1 DEF Elsewhere, N, L
    <3>3. CASE \E k \in 1..L : i = P[k]
      <4>1. \A k \in 1..L : k \in 1..(L + 1)
        BY <1>2
      <4> QED BY <1>3, <3>3, <4>1, Zenon DEF Elsewhere
    <3>4. CASE s[i] \in {"bs", "nl"} \/ TakenBack(s, i)
      BY <1>1, <1>5, <3>1, <3>4, Zenon DEF Elsewhere
    <3>5. CASE \E m \in (i + 1)..N : s[m] = "nl"
      <4>1. \A m \in (i + 1)..N : m \in (i + 1)..(N + 1) /\ m \in 1..N
        BY <1>1, <3>1
      <4> QED BY <1>1, <3>5, <4>1, Zenon DEF Elsewhere
    <3> QED BY <3>2, <3>3, <3>4, <3>5
  <2> QED BY <2>1, <2>2
<1>9. \A k \in 1..(L + 1) : k \in 1..L \/ k = L + 1
  BY <1>2
<1>11. OnLine(t, R, c)
  BY <1>1, <1>3, <1>6, <1>7, <1>8, <1>9, Zenon DEF OnLine
<1> QED BY <1>11 DEF t, R, c, N

\* What is gone or on an earlier line stays so.
LEMMA ElsewhereAppend ==
    ASSUME NEW S, NEW s \in Seq(S), NEW x \in S, NEW P, NEW R, NEW i \in 1..Len(s),
           Elsewhere(s, P, i), ~\E k \in 1..Len(P) : i = P[k]
    PROVE  Elsewhere(Append(s, x), R, i)
<1> DEFINE t == Append(s, x)
           N == Len(s)
<1>1. /\ N \in Nat /\ Len(t) = N + 1
      /\ \A n \in 1..N : t[n] = s[n]
  OBVIOUS
<1>2. TakenBack(s, i) => TakenBack(t, i)
  BY TakenBackAppend
<1>3. \/ s[i] \in {"bs", "nl"}
      \/ \E m \in (i + 1)..N : s[m] = "nl"
      \/ TakenBack(s, i)
  BY Zenon DEF Elsewhere
<1> HIDE DEF t, N
<1>4. CASE s[i] \in {"bs", "nl"} \/ TakenBack(s, i)
  <2>1. t[i] = s[i]
    BY <1>1 DEF N
  <2>2. Elsewhere(t, R, i)
    BY <1>2, <1>4, <2>1, Zenon DEF Elsewhere
  <2> QED BY <2>2 DEF t
<1>5. CASE \E m \in (i + 1)..N : s[m] = "nl"
  <2>1. \A m \in (i + 1)..N : m \in (i + 1)..Len(t) /\ t[m] = s[m]
    BY <1>1
  <2>2. Elsewhere(t, R, i)
    BY <1>5, <2>1, Zenon DEF Elsewhere
  <2> QED BY <2>2 DEF t
<1> QED BY <1>3, <1>4, <1>5

\* A character that is on no earlier line and not among the last one's is not kept
\* once a backspace comes, unless it was kept for another reason.
LEMMA KeptElsewhere ==
    ASSUME NEW S, NEW s \in Seq(S), "bs" \in S, NEW P, NEW i \in 1..Len(s),
           Elsewhere(s, P, i), ~\E k \in 1..Len(P) : i = P[k]
    PROVE  i \in Kept(Append(s, "bs")) <=> i \in Kept(s)
<1>1. \/ s[i] \in {"bs", "nl"}
      \/ \E m \in (i + 1)..Len(s) : s[m] = "nl"
      \/ TakenBack(s, i)
  BY Zenon DEF Elsewhere
<1>2. i \in Kept(Append(s, "bs")) <=>
                    /\ i \in Kept(s)
                    /\ \/ s[i] = "nl" \/ "bs" # "bs"
                       \/ \E m \in (i + 1)..Len(s) : s[m] = "nl"
                       \/ ~(2 * Backs(s, i + 1, Len(s)) + 1 > Len(s) - i)
  BY KeptAppend
<1>3. i \in Kept(s) => s[i] # "bs" /\ (s[i] = "nl" \/ ~TakenBack(s, i))
  BY Zenon DEF Kept
<1> QED BY <1>1, <1>2, <1>3, Zenon

\* A backspace on an empty line does nothing.
LEMMA LineBsEmpty ==
    ASSUME NEW S, NEW s \in Seq(S), "bs" \in S, OnLine(s, << >>, << >>)
    PROVE  Edited(Append(s, "bs")) = Edited(s) /\ OnLine(Append(s, "bs"), << >>, << >>)
<1> DEFINE t == Append(s, "bs")
           N == Len(s)
<1>1. /\ N \in Nat /\ Len(t) = N + 1 /\ t[N + 1] = "bs" /\ Len(<< >>) = 0 /\ 1..0 = {}
  OBVIOUS
<1>2. \A i \in 1..N : Elsewhere(s, << >>, i) /\ ~\E k \in 1..Len(<< >>) : i = << >>[k]
  BY <1>1 DEF OnLine
<1>3. \A i \in 1..N : i \in Kept(s) <=> i \in Kept(t)
  BY <1>2, KeptElsewhere
<1>4. N + 1 \notin Kept(t)
  BY KeptAppend
<1>5. Edited(s) = Pick(s, Kept(s)) /\ Edited(t) = Pick(t, Kept(t))
  BY DEF Edited, Kept
<1>6. Pick(t, Kept(t)) = Pick(s, Kept(s))
  BY <1>3, <1>4, PickAppend
<1>7. \A i \in 1..N : Elsewhere(t, << >>, i)
  BY <1>2, ElsewhereAppend
<1> HIDE DEF t, N
<1>8. Elsewhere(t, << >>, N + 1)
  BY <1>1, Zenon DEF Elsewhere
<1>9. \A i \in 1..(N + 1) : i \in 1..N \/ i = N + 1
  BY <1>1
<1>10. OnLine(t, << >>, << >>)
  BY <1>1, <1>7, <1>8, <1>9, Zenon DEF OnLine
<1> QED BY <1>5, <1>6, <1>10 DEF t

\* What is not empty ends with a character.
LEMMA FrontLast ==
    ASSUME NEW S, NEW w \in Seq(S), w # << >>
    PROVE  /\ SubSeq(w, 1, Len(w) - 1) \in Seq(S) /\ w[Len(w)] \in S
           /\ w = Append(SubSeq(w, 1, Len(w) - 1), w[Len(w)])
<1> DEFINE d == SubSeq(w, 1, Len(w) - 1)
           x == w[Len(w)]
<1>1. Len(w) \in Nat \ {0} /\ Len(w) \in 1..Len(w) /\ x \in S
  OBVIOUS
<1>2. \A i \in 1..(Len(w) - 1) : w[i] \in S
  BY <1>1
<1>3. d \in Seq(S)
  BY <1>1, <1>2, SubSeqProperties
<1>4. SubSeq(w, 1, Len(w)) = w /\ 1 \in 1..Len(w)
  BY <1>1, SubSeqFull
<1>5. w = d \o <<x>>
  <2>1. SubSeq(w, 1, Len(w)) = SubSeq(w, 1, Len(w) - 1) \o <<w[Len(w)]>>
    BY <1>1, <1>4, SubSeqRecursiveSecond, Zenon
  <2> QED BY <1>4, <2>1, Zenon
<1> HIDE DEF d, x
<1>6. w = Append(d, x)
  BY <1>1, <1>3, <1>5, AppendIsConcat
<1> QED BY <1>1, <1>3, <1>6 DEF d, x

\* One more character at the end of both.
LEMMA JoinedAppend ==
    ASSUME NEW S, NEW u \in Seq(S), NEW w \in Seq(S), NEW v \in Seq(S), NEW x \in S
    PROVE  Joined(w, u, v) => Joined(Append(w, x), u, Append(v, x))
<1>1. u \o Append(v, x) = Append(u \o v, x)
  OBVIOUS
<1>2. w = u \o v => Append(w, x) = Append(u \o v, x)
  BY Zenon
<1> QED BY <1>1, <1>2, Zenon DEF Joined

\* Nothing else at the end.
LEMMA JoinedEmpty ==
    ASSUME NEW S, NEW u \in Seq(S)
    PROVE  Joined(u, u, << >>)
  BY DEF Joined

\* The same characters, but for the last one.
LEMMA AppendSame ==
    ASSUME NEW S
    PROVE  \A y, v \in Seq(S), x \in S : Append(y, x) = Append(v, x) => y = v
  OBVIOUS

\* Taking back the last character of the whole takes it from the last part.
LEMMA JoinedFront ==
    ASSUME NEW S, NEW u \in Seq(S), NEW w \in Seq(S), NEW v \in Seq(S), NEW x \in S
    PROVE  Joined(Append(w, x), u, Append(v, x)) => Joined(w, u, v)
<1> SUFFICES ASSUME Append(w, x) = u \o Append(v, x) PROVE w = u \o v
  BY DEF Joined
<1> DEFINE y == u \o v
<1>1. y \in Seq(S) /\ u \o Append(v, x) = Append(y, x)
  OBVIOUS
<1> HIDE DEF y
<1>2. Append(y, x) = Append(w, x)
  BY <1>1
<1>3. y = w
  BY <1>1, <1>2, AppendSame, Zenon
<1> QED BY <1>3 DEF y

\* A backspace takes away the last character of the line, and nothing else.
LEMMA LineBs ==
    ASSUME NEW S, NEW s \in Seq(S), "bs" \in S, NEW P \in Seq(Nat), NEW b \in Seq(S),
           OnLine(s, P, b), Len(P) # 0
    PROVE  /\ Edited(Append(s, "bs")) \in Seq(S)
           /\ \A c \in Seq(S) :
                 Joined(Edited(s), c, b)
                    => Joined(Edited(Append(s, "bs")), c, SubSeq(b, 1, Len(b) - 1))
           /\ OnLine(Append(s, "bs"), SubSeq(P, 1, Len(P) - 1), SubSeq(b, 1, Len(b) - 1))
<1> DEFINE t == Append(s, "bs")
           N == Len(s)
           L == Len(P)
           p == P[L]
           Q == SubSeq(P, 1, L - 1)
           d == SubSeq(b, 1, L - 1)
<1>1. /\ N \in Nat /\ Len(t) = N + 1 /\ t[N + 1] = "bs"
      /\ \A n \in 1..N : t[n] = s[n]
  OBVIOUS
<1>2. /\ L \in Nat /\ L # 0 /\ Len(b) = L
      /\ \A k \in 1..L : Place(s, P, b, k)
      /\ \A i \in 1..N : Elsewhere(s, P, i)
  BY DEF OnLine
<1>3. /\ Len(Q) = L - 1 /\ Len(d) = L - 1
      /\ \A k \in 1..(L - 1) : Q[k] = P[k] /\ d[k] = b[k]
  BY <1>2
<1>4. \A i \in 1..(N + 1) : /\ \A j \in 0..N : /\ Backs(s, i, j) \in Nat
                                              /\ Backs(t, i, j) = Backs(s, i, j)
                            /\ Backs(t, i, N + 1) = Backs(s, i, N) + 1
  BY BacksAppend
<1>5. \A i \in 1..N : TakenBack(t, i) <=>
              \/ TakenBack(s, i)
              \/ /\ \A m \in (i + 1)..N : s[m] # "nl"
                 /\ 2 * Backs(s, i + 1, N) + 1 > N - i
  BY TakenBackAppend
<1>6. /\ Kept(s) \subseteq 1..N
      /\ N + 1 \notin Kept(t)
      /\ \A i \in 1..N :
                 i \in Kept(t) <=>
                    /\ i \in Kept(s)
                    /\ \/ s[i] = "nl"
                       \/ \E m \in (i + 1)..N : s[m] = "nl"
                       \/ ~(2 * Backs(s, i + 1, N) + 1 > N - i)
  BY KeptAppend
<1>7. ASSUME NEW i \in 1..N, ~\E k \in 1..L : i = P[k]
      PROVE  (i \in Kept(t) <=> i \in Kept(s)) /\ Elsewhere(t, Q, i)
  BY <1>2, <1>7, KeptElsewhere, ElsewhereAppend
<1>8. Edited(s) = Pick(s, Kept(s)) /\ Edited(t) = Pick(t, Kept(t))
  BY DEF Edited, Kept
<1>9. DOMAIN s = 1..N
  OBVIOUS
<1>10. ASSUME NEW k \in 1..L
       PROVE  /\ P[k] \in 1..N /\ b[k] = s[P[k]] /\ s[P[k]] # "bs" /\ s[P[k]] # "nl"
              /\ \A l \in 1..(k - 1) : P[l] < P[k]
              /\ \A m \in (P[k] + 1)..N : s[m] # "nl"
              /\ 2 * Backs(s, P[k] + 1, N) = N - P[k] - (L - k)
              /\ \A j \in (P[k] + 1)..N : 2 * Backs(s, P[k] + 1, j) <= j - P[k]
  BY <1>2 DEF Place
<1> HIDE DEF t, N, L, Q, d
<1>11. L \in 1..L
  BY <1>2
<1>12. /\ p \in 1..N /\ p \in Nat /\ b[L] = s[p] /\ s[p] # "bs" /\ s[p] # "nl"
       /\ \A l \in 1..(L - 1) : P[l] < p
       /\ \A m \in (p + 1)..N : s[m] # "nl"
       /\ 2 * Backs(s, p + 1, N) = N - p
       /\ \A j \in (p + 1)..N : 2 * Backs(s, p + 1, j) <= j - p
  <2>1. N - P[L] - (L - L) = N - P[L]
    BY <1>1, <1>2, <1>10, <1>11
  <2>2. P[L] \in Nat
    BY <1>1, <1>10, <1>11
  <2>3. 2 * Backs(s, P[L] + 1, N) = N - P[L] - (L - L)
    BY <1>10, <1>11
  <2> QED BY <1>10, <1>11, <2>1, <2>2, <2>3
<1> HIDE DEF p
<1>13. p \in Kept(s)
  <2>1. ~TakenBack(s, p)
    <3> SUFFICES ASSUME NEW j \in (p + 1)..N, 2 * Backs(s, p + 1, j) > j - p PROVE FALSE
      BY DEF TakenBack, Backs, N
    <3>1. j \in 0..N /\ p + 1 \in 1..(N + 1) /\ j \in Nat
      BY <1>1, <1>12
    <3>2. Backs(s, p + 1, j) \in Nat /\ 2 * Backs(s, p + 1, j) <= j - p
      BY <1>4, <1>12, <3>1
    <3> QED BY <1>12, <3>1, <3>2
  <2> QED BY <1>9, <1>12, <2>1 DEF Kept
<1>14. p \notin Kept(t) /\ TakenBack(t, p)
  <2>1. N \in 0..N /\ p + 1 \in 1..(N + 1)
    BY <1>1, <1>12
  <2>2. Backs(s, p + 1, N) \in Nat
    BY <1>4, <2>1
  <2>3. 2 * Backs(s, p + 1, N) + 1 > N - p
    BY <1>1, <1>12, <2>2
  <2>4. ~\E m \in (p + 1)..N : s[m] = "nl"
    BY <1>12
  <2> QED BY <1>5, <1>6, <1>12, <2>3, <2>4
<1>15. ASSUME NEW k \in 1..(L - 1)
       PROVE  /\ k \in 1..L /\ P[k] # p /\ P[k] \in Nat /\ k \in Nat
              /\ Backs(s, P[k] + 1, N) \in Nat
              /\ Backs(t, P[k] + 1, N + 1) = Backs(s, P[k] + 1, N) + 1
              /\ P[k] + 1 \in 1..(N + 1)
              /\ P[k] \in Kept(t) <=> P[k] \in Kept(s)
  <2>1. k \in 1..L
    BY <1>2
  <2>2. P[k] \in 1..N /\ P[k] < p
    BY <1>10, <1>12, <2>1
  <2>3. N \in 0..N /\ P[k] + 1 \in 1..(N + 1) /\ P[k] \in Nat /\ P[k] # p
    BY SMTT(30), <1>1, <1>12, <2>2
  <2>4. /\ Backs(s, P[k] + 1, N) \in Nat
        /\ Backs(t, P[k] + 1, N + 1) = Backs(s, P[k] + 1, N) + 1
    BY <1>4, <2>3
  <2>5. 2 * Backs(s, P[k] + 1, N) = N - P[k] - (L - k)
    BY <1>10, <2>1
  <2>6. ~(2 * Backs(s, P[k] + 1, N) + 1 > N - P[k])
    <3> DEFINE B == Backs(s, P[k] + 1, N)
               q == P[k]
    <3>1. B \in Nat /\ q \in Nat /\ 2 * B = N - q - (L - k)
      BY <2>3, <2>4, <2>5
    <3>2. N \in Nat /\ L \in Nat /\ k \in Nat /\ k < L
      BY <1>1, <1>2
    <3> HIDE DEF B, q
    <3>3. ~(2 * B + 1 > N - q)
      BY <3>1, <3>2
    <3> QED BY <3>3 DEF B, q
  <2>7. P[k] \in Kept(t) <=> P[k] \in Kept(s)
    BY <1>6, <2>2, <2>6
  <2> QED BY <2>1, <2>3, <2>4, <2>7
<1>16. \A k \in 1..L : k \in 1..(L - 1) \/ k = L
  BY <1>2
<1>17. \A i \in 1..N : i \in Kept(t) <=> i \in Kept(s) \ {p}
  <2> TAKE i \in 1..N
  <2>1. CASE ~\E k \in 1..L : i = P[k]
    <3>1. i # p
      BY <1>11, <2>1 DEF p
    <3> QED BY <1>7, <2>1, <3>1
  <2>2. CASE \E k \in 1..L : i = P[k]
    <3>1. PICK k \in 1..L : i = P[k]
      BY <2>2
    <3>2. CASE k = L
      BY <1>14, <3>1, <3>2 DEF p
    <3>3. CASE k \in 1..(L - 1)
      BY <1>15, <3>1, <3>3
    <3> QED BY <1>16, <3>2, <3>3
  <2> QED BY <2>1, <2>2
<1>18. ASSUME NEW n \in (p + 1)..N PROVE n \notin Kept(s)
  <2>1. n \in 1..N /\ n > p
    BY <1>1, <1>12
  <2>2. ~\E k \in 1..L : n = P[k]
    <3> SUFFICES ASSUME NEW k \in 1..L, n = P[k] PROVE FALSE
      OBVIOUS
    <3>1. CASE k = L
      BY <1>12, <2>1, <3>1 DEF p
    <3>2. CASE k \in 1..(L - 1)
      <4>1. P[k] < p /\ P[k] \in Nat
        BY <1>12, <1>15, <3>2
      <4> QED BY <1>12, <2>1, <4>1
    <3> QED BY <1>16, <3>1, <3>2
  <2>3. s[n] # "nl" /\ ~\E m \in (n + 1)..N : s[m] = "nl"
    <3>1. \A m \in (n + 1)..N : m \in (p + 1)..N
      BY <1>1, <1>12, <2>1
    <3> QED BY <1>12, <3>1
  <2>4. Elsewhere(s, P, n)
    BY <1>2, <2>1
  <2>5. s[n] \in {"bs", "nl"} \/ TakenBack(s, n)
    BY <2>2, <2>3, <2>4, Zenon DEF Elsewhere, L, N
  <2> QED BY <2>3, <2>5, Zenon DEF Kept
<1>19. Pick(s, Kept(s)) = Append(Pick(s, Kept(s) \ {p}), s[p])
  BY <1>12, <1>13, <1>18, PickWithout DEF N
<1>20. Pick(t, Kept(t)) = Pick(s, Kept(s) \ {p})
  BY <1>6, <1>17, PickAppend DEF t, N
<1>21. Pick(s, Kept(s) \ {p}) \in Seq(S)
  BY PickType
<1>22. Edited(t) \in Seq(S) /\ Edited(s) = Append(Edited(t), b[Len(b)])
  BY <1>2, <1>8, <1>12, <1>19, <1>20, <1>21
<1>23. ASSUME NEW k \in 1..(L - 1) PROVE Place(t, Q, d, k)
  <2> DEFINE q == P[k]
  <2>1. /\ q \in 1..N /\ b[k] = s[q] /\ s[q] # "bs" /\ s[q] # "nl"
        /\ \A l \in 1..(k - 1) : P[l] < q
        /\ \A m \in (q + 1)..N : s[m] # "nl"
        /\ 2 * Backs(s, q + 1, N) = N - q - (L - k)
        /\ \A j \in (q + 1)..N : 2 * Backs(s, q + 1, j) <= j - q
        /\ q \in Nat /\ k \in Nat /\ Backs(s, q + 1, N) \in Nat
        /\ Backs(t, q + 1, N + 1) = Backs(s, q + 1, N) + 1
        /\ q + 1 \in 1..(N + 1)
    BY <1>10, <1>15
  <2>2. Q[k] = q /\ d[k] = b[k] /\ t[q] = s[q] /\ Len(t) = N + 1 /\ Len(Q) = L - 1
    BY <1>1, <1>3, <2>1
  <2> HIDE DEF q
  <2>3. Q[k] \in 1..Len(t) /\ d[k] = t[Q[k]] /\ t[Q[k]] \notin {"bs", "nl"}
    BY <1>1, <2>1, <2>2
  <2>4. \A l \in 1..(k - 1) : Q[l] < Q[k]
    <3>1. \A l \in 1..(k - 1) : l \in 1..(L - 1)
      BY <1>2, <2>1
    <3> QED BY <1>3, <2>1, <2>2, <3>1
  <2>5. ASSUME NEW m \in (q + 1)..(N + 1) PROVE t[m] # "nl"
    <3>1. CASE m = N + 1
      BY <1>1, <3>1
    <3>2. CASE m # N + 1
      <4>1. m \in (q + 1)..N /\ m \in 1..N
        BY <1>1, <2>1, <3>2
      <4> QED BY <1>1, <2>1, <4>1
    <3> QED BY <3>1, <3>2
  <2>6. 2 * Backs(t, q + 1, N + 1) = (N + 1) - q - ((L - 1) - k)
    <3> DEFINE B == Backs(s, q + 1, N)
    <3>1. B \in Nat /\ 2 * B = N - q - (L - k) /\ Backs(t, q + 1, N + 1) = B + 1
      BY <2>1
    <3>2. N \in Nat /\ L \in Nat /\ k \in Nat /\ q \in Nat
      BY <1>1, <1>2, <2>1
    <3> HIDE DEF B
    <3>3. 2 * (B + 1) = (N + 1) - q - ((L - 1) - k)
      BY <3>1, <3>2
    <3> QED BY <3>1, <3>3
  <2>7. ASSUME NEW j \in (q + 1)..(N + 1) PROVE 2 * Backs(t, q + 1, j) <= j - q
    <3>1. CASE j = N + 1
      BY <1>1, <1>2, <2>1, <2>6, <3>1
    <3>2. CASE j # N + 1
      <4>1. j \in (q + 1)..N /\ j \in 0..N
        BY <1>1, <2>1, <3>2
      <4>2. Backs(t, q + 1, j) = Backs(s, q + 1, j)
        BY <1>4, <2>1, <4>1
      <4> QED BY <2>1, <4>1, <4>2
    <3> QED BY <3>1, <3>2
  <2>8. \A m \in (Q[k] + 1)..Len(t) : t[m] # "nl"
    BY <2>2, <2>5
  <2>9. 2 * Backs(t, Q[k] + 1, Len(t)) = Len(t) - Q[k] - (Len(Q) - k)
    BY <1>1, <1>2, <2>1, <2>2, <2>6
  <2>10. \A j \in (Q[k] + 1)..Len(t) : 2 * Backs(t, Q[k] + 1, j) <= j - Q[k]
    BY <2>2, <2>7
  <2> QED BY <2>3, <2>4, <2>8, <2>9, <2>10, Zenon DEF Place
<1>24. ASSUME NEW i \in 1..(N + 1) PROVE Elsewhere(t, Q, i)
  <2>1. CASE i = N + 1
    BY <1>1, <2>1, Zenon DEF Elsewhere
  <2>2. CASE i \in 1..N /\ ~\E k \in 1..L : i = P[k]
    BY <1>7, <2>2
  <2>3. CASE i \in 1..N /\ \E k \in 1..L : i = P[k]
    <3>1. PICK k \in 1..L : i = P[k]
      BY <2>3
    <3>2. CASE k = L
      <4>1. i = p
        BY <3>1, <3>2 DEF p
      <4> QED BY <1>14, <4>1, Zenon DEF Elsewhere
    <3>3. CASE k \in 1..(L - 1)
      <4>1. i = Q[k] /\ k \in 1..Len(Q)
        BY <1>3, <3>1, <3>3
      <4> QED BY <4>1, Zenon DEF Elsewhere
    <3> QED BY <1>16, <3>2, <3>3
  <2> QED BY <1>1, <2>1, <2>2, <2>3
<1>25. OnLine(t, Q, d)
  BY <1>1, <1>3, <1>23, <1>24, Zenon DEF OnLine
<1>26. ASSUME NEW c \in Seq(S), Joined(Edited(s), c, b)
       PROVE  Joined(Edited(t), c, d)
  <2> DEFINE x == b[Len(b)]
             E == Edited(t)
  <2>1. b # << >>
    BY <1>2
  <2>2. d \in Seq(S) /\ x \in S /\ b = Append(d, x)
    BY <1>2, <2>1, FrontLast DEF d
  <2>3. E \in Seq(S) /\ Edited(s) = Append(E, x)
    BY <1>22
  <2> HIDE DEF x, E
  <2>4. Joined(Append(E, x), c, Append(d, x))
    BY <1>26, <2>2, <2>3
  <2>5. Joined(E, c, d)
    BY <2>2, <2>3, <2>4, JoinedFront, Zenon
  <2> QED BY <2>5 DEF E
<1> QED BY <1>2, <1>22, <1>25, <1>26 DEF t, Q, d, L

-----------------------------------------------------------------------------
(* The steps.                                                              *)

\* The lesser of two numbers.
LEMMA MinOfTwo ==
    ASSUME NEW a \in Int, NEW b \in Int
    PROVE  Min({a, b}) = IF a <= b THEN a ELSE b
<1> DEFINE m == IF a <= b THEN a ELSE b
<1>1. m \in {a, b} /\ \A y \in {a, b} : m <= y
  OBVIOUS
<1>2. \A x \in {a, b} : (\A y \in {a, b} : x <= y) => x = m
  OBVIOUS
<1> HIDE DEF m
<1>3. (CHOOSE x \in {a, b} : \A y \in {a, b} : x <= y) = m
  BY <1>1, <1>2
<1> QED BY <1>3 DEF Min, m

\* What is written to a fifo: all of it if there is room.
LEMMA FifoWrite ==
    ASSUME NEW S, NEW q \in Seq(S), NEW d \in Seq(S)
    PROVE  /\ fifo_write(q, d) \in Seq(S)
           /\ Len(d) <= fifo_free(q) => fifo_write(q, d) = q \o d
<1> DEFINE m == Min({Len(d), fifo_free(q)})
<1>1. Len(d) \in Nat /\ fifo_free(q) \in Int
  BY PtyAssumption DEF fifo_free
<1>2. m = IF Len(d) <= fifo_free(q) THEN Len(d) ELSE fifo_free(q)
  BY <1>1, MinOfTwo
<1>3. m \in Int /\ m <= Len(d)
  BY <1>1, <1>2
<1> HIDE DEF m
<1>4. SubSeq(d, 1, m) \in Seq(S)
  BY <1>3
<1>5. SubSeq(d, 1, Len(d)) = d
  OBVIOUS
<1>6. fifo_write(q, d) = q \o SubSeq(d, 1, m)
  BY DEF fifo_write, m
<1>7. \A u \in Seq(S) : q \o u \in Seq(S)
  OBVIOUS
<1> HIDE DEF m
<1>8. fifo_write(q, d) \in Seq(S)
  BY <1>4, <1>6, <1>7, Zenon
<1>9. Len(d) <= fifo_free(q) => fifo_write(q, d) = q \o d
  BY <1>2, <1>5, <1>6
<1> QED BY <1>8, <1>9

\* A read of one character.
LEMMA LeftOne ==
    ASSUME NEW S, NEW q \in Seq(S), q # << >>
    PROVE  Left(q, 1) = Tail(q)
<1>1. Len(q) \in Nat \ {0}
  OBVIOUS
<1>2. Min({1, Len(q)}) = 1
  BY <1>1, MinOfTwo
<1>3. SubSeq(q, 1 + 1, Len(q)) = Tail(q)
  BY <1>1
<1> QED BY <1>2, <1>3 DEF Left

\* The head and the tail of what is not empty.
LEMMA HeadTail ==
    ASSUME NEW S, NEW q \in Seq(S), q # << >>
    PROVE  /\ Head(q) \in S /\ Tail(q) \in Seq(S) /\ Len(Tail(q)) = Len(q) - 1
           /\ \A r \in Seq(S) : Append(r, Head(q)) \o Tail(q) = r \o q
  OBVIOUS

\* What has been read, when what waits is known.
LEMMA ReadIs ==
    ASSUME NEW S, NEW r \in Seq(S), NEW u \in Seq(S)
    PROVE  SubSeq(r \o u, 1, Len(r \o u) - Len(u)) = r
  OBVIOUS

\* The keys that were read are keys.
LEMMA ReadType ==
    ASSUME TermTypes, ~lost, KeysInOrder
    PROVE  Read \in Seq(Key) /\ Unread \in Seq(Key)
<1>1. Unread \in Seq(Key)
  BY DEF TermTypes, Unread
<1>2. Read = SubSeq(typed, 1, Len(typed) - Len(Unread))
  BY DEF Read, Unread
<1>3. Len(typed) - Len(Unread) \in Int /\ Len(typed) - Len(Unread) <= Len(typed) /\ typed \in Seq(Key)
  BY <1>1 DEF TermTypes
<1>4. \A n \in Int : n <= Len(typed) => SubSeq(typed, 1, n) \in Seq(Key)
  BY <1>3
<1> QED BY <1>1, <1>2, <1>3, <1>4

\* The keys stay in order when what was read and what waits make up what is typed.
LEMMA KeysStep ==
    ASSUME NEW r \in Seq(Key), Unread' \in Seq(Key), typed' = r \o Unread'
    PROVE  Read' = r /\ KeysInOrder'
<1>1. Read' = SubSeq(typed', 1, Len(typed') - Len(Unread'))
  BY DEF Read, Unread
<1>2. Read' = r
  BY <1>1, ReadIs
<1> QED BY <1>2 DEF KeysInOrder

\* A step that touches none of this.
LEMMA Frame ==
    ASSUME TermInv, UNCHANGED <<mode, typed, events, ttyq, line, ran, lost>>, NEW q,
           pty' = [master_read |-> q, master_write |-> pty.master_write, line_buf |-> pty.line_buf]
    PROVE  TermInv'
<1>1. /\ pty'.master_write = pty.master_write /\ pty'.line_buf = pty.line_buf /\ pty'.master_read = q
  OBVIOUS
<1>2. pty' = [master_read |-> pty'.master_read, master_write |-> pty'.master_write,
              line_buf |-> pty'.line_buf]
  BY <1>1
<1>3. TermTypes'
  BY <1>1, <1>2 DEF TermInv, TermTypes
<1>4. Read' = Read /\ Unread' = Unread
  BY DEF Read, Unread
<1>5. KeysInOrder => KeysInOrder'
  BY <1>4 DEF KeysInOrder
<1>6. PtyLines => PtyLines'
  BY <1>1, <1>4 DEF PtyLines
<1>7. ShellLines => ShellLines'
  BY <1>4 DEF ShellLines
<1> QED BY <1>3, <1>5, <1>6, <1>7 DEF TermInv

\* Output changes only what the terminal will read.
LEMMA OutputFrame ==
    ASSUME TermTypes, NEW d
    PROVE  /\ \E q : pty_slave_write(pty, d) =
                  [master_read |-> q, master_write |-> pty.master_write, line_buf |-> pty.line_buf]
           /\ \E q : pty_master_read(pty, d) =
                  [master_read |-> q, master_write |-> pty.master_write, line_buf |-> pty.line_buf]
           /\ \E q : pty =
                  [master_read |-> q, master_write |-> pty.master_write, line_buf |-> pty.line_buf]
<1>1. pty = [master_read |-> pty.master_read, master_write |-> pty.master_write,
             line_buf |-> pty.line_buf]
  BY DEF TermTypes
<1>2. \A q : [pty EXCEPT !.master_read = q] =
                  [master_read |-> q, master_write |-> pty.master_write, line_buf |-> pty.line_buf]
  BY <1>1
<1> QED BY <1>1, <1>2 DEF pty_slave_write, pty_write_output, pty_master_read

\* The pty's line after the characters that matter; c is what was there before.
LEMMA PtyStep ==
    ASSUME NEW P \in Seq(Nat), NEW c \in Seq(Char),
           OnLine(Read', P, pty'.line_buf),
           Joined(Edited(Read'), c, pty'.line_buf),
           NoTabs(c) = NoTabs(ran' \o line' \o pty'.master_write)
    PROVE  PtyLines'
  BY DEF PtyLines

\* Typing a key.
LEMMA TypeStep ==
    ASSUME TermInv, NEW k \in Key, type(k)
    PROVE  TermInv'
<1>1. /\ typed \in Seq(Key) /\ events \in Seq(Key) /\ ttyq \in Seq(Key) /\ lost \in BOOLEAN
      /\ Len(ttyq) <= TTYQ_LEN - 1 /\ TTYQ_LEN \in Nat \ {0, 1}
  BY TerminalAssumption DEF TermInv, TermTypes
<1>2. typed' = Append(typed, k) /\ UNCHANGED <<mode, pty, line, ran>>
  BY DEF type, shellVars
<1>3. /\ events' \in Seq(Key) /\ ttyq' \in Seq(Key) /\ lost' \in BOOLEAN
      /\ Len(ttyq') <= TTYQ_LEN - 1
      /\ ~lost' => ~lost /\ Unread' = Append(Unread, k)
  <2>1. CASE mode = "pty"
    <3>1. events' = Append(events, k) /\ UNCHANGED <<ttyq, lost, mode>>
      BY <2>1 DEF type
    <3> QED BY <1>1, <2>1, <3>1 DEF Unread
  <2>2. CASE mode = "console"
    <3>1. /\ ttyq' = IF Len(ttyq) < TTYQ_LEN - 1 THEN Append(ttyq, k) ELSE Append(Tail(ttyq), k)
          /\ lost' = (lost \/ Len(ttyq) = TTYQ_LEN - 1)
          /\ UNCHANGED <<events, mode>>
      BY <2>2 DEF type
    <3>2. CASE Len(ttyq) < TTYQ_LEN - 1
      BY <1>1, <2>2, <3>1, <3>2 DEF Unread
    <3>3. CASE Len(ttyq) = TTYQ_LEN - 1
      <4>1. ttyq # << >>
        BY <1>1, <3>3
      <4>2. Tail(ttyq) \in Seq(Key) /\ Len(Tail(ttyq)) = Len(ttyq) - 1
        BY <1>1, <4>1, HeadTail
      <4>3. ttyq' = Append(Tail(ttyq), k)
        BY <1>1, <3>1, <3>3
      <4>4. ttyq' \in Seq(Key) /\ Len(ttyq') = Len(Tail(ttyq)) + 1
        BY <4>2, <4>3
      <4>5. Len(ttyq') <= TTYQ_LEN - 1
        BY <1>1, <3>3, <4>2, <4>4
      <4>6. events' \in Seq(Key) /\ lost' = TRUE
        BY <1>1, <3>1, <3>3
      <4> QED BY <4>4, <4>5, <4>6
    <3> QED BY <1>1, <3>2, <3>3
  <2> QED BY <2>1, <2>2 DEF TermInv, TermTypes
<1>4. TermTypes'
  <2>1. typed' \in Seq(Key)
    BY <1>1, <1>2
  <2> QED BY <1>2, <1>3, <2>1 DEF TermInv, TermTypes
<1>5. ASSUME ~lost'
      PROVE  /\ KeysInOrder'
             /\ mode' = "pty" => PtyLines'
             /\ mode' = "console" => ShellLines'
  <2>1. ~lost /\ KeysInOrder /\ TermTypes
    BY <1>3, <1>5 DEF TermInv
  <2>2. Read \in Seq(Key) /\ Unread \in Seq(Key)
    BY <2>1, ReadType
  <2>3. Read \o Append(Unread, k) = Append(Read \o Unread, k)
    BY <2>2, ConcatAppend
  <2>4. typed' = Read \o Unread'
    BY <1>2, <1>3, <1>5, <2>1, <2>3 DEF KeysInOrder
  <2>5. Unread' \in Seq(Key)
    BY <1>3, <1>5, <2>2
  <2>6. Read' = Read /\ KeysInOrder'
    BY <2>2, <2>4, <2>5, KeysStep
  <2>7. PtyLines => PtyLines'
    BY <1>2, <2>6 DEF PtyLines
  <2>8. ShellLines => ShellLines'
    BY <1>2, <2>6 DEF ShellLines
  <2> QED BY <1>2, <2>1, <2>6, <2>7, <2>8 DEF TermInv
<1> QED BY <1>4, <1>5 DEF TermInv

\* What a key does to the pty, whatever it echoes.
PtyAs(q, m, b) == [master_read |-> q, master_write |-> m, line_buf |-> b]

\* The pty p after key k, from what it was: a backspace takes the last character of the
\* line, a newline commits the line, any other key joins it if there is room.
KeyMakes(p, q0, mw, lb, k) ==
    /\ k = "bs" /\ lb = << >> => p = PtyAs(q0, mw, lb)
    /\ k = "bs" /\ lb # << >>
          => p = PtyAs(fifo_write(q0, Onlcr(<<"bs", "sp", "bs">>)), mw, Front(lb))
    /\ k = "nl" => p = PtyAs(fifo_write(q0, Onlcr(<<"nl">>)), fifo_write(mw, Append(lb, "nl")), << >>)
    /\ k \notin {"bs", "nl"} /\ Len(lb) < PTY_LINE_CAP - 1
          => p = PtyAs(fifo_write(q0, Onlcr(<<k>>)), mw, Append(lb, k))
    /\ k \notin {"bs", "nl"} /\ ~(Len(lb) < PTY_LINE_CAP - 1) => p = PtyAs(q0, mw, lb)

\* One character written to the master (pty_master_write_data), with its echo.
LEMMA PtyEcho ==
    ASSUME NEW k, k # "cr", NEW q0, NEW mw, NEW lb
    PROVE  KeyMakes(pty_master_write(PtyAs(q0, mw, lb), k), q0, mw, lb, k)
<1> DEFINE p == pty_master_write(PtyAs(q0, mw, lb), k)
<1> SUFFICES /\ k = "bs" /\ lb = << >> => p = PtyAs(q0, mw, lb)
             /\ k = "bs" /\ lb # << >>
                   => p = PtyAs(fifo_write(q0, Onlcr(<<"bs", "sp", "bs">>)), mw, Front(lb))
             /\ k = "nl" => p = PtyAs(fifo_write(q0, Onlcr(<<"nl">>)), fifo_write(mw, Append(lb, "nl")), << >>)
             /\ k \notin {"bs", "nl"} /\ Len(lb) < PTY_LINE_CAP - 1
                   => p = PtyAs(fifo_write(q0, Onlcr(<<k>>)), mw, Append(lb, k))
             /\ k \notin {"bs", "nl"} /\ ~(Len(lb) < PTY_LINE_CAP - 1) => p = PtyAs(q0, mw, lb)
  BY Zenon DEF KeyMakes
<1> DEFINE y == PtyAs(q0, mw, lb)
<1>1. y.master_read = q0 /\ y.master_write = mw /\ y.line_buf = lb
  BY DEF PtyAs
<1>2. \A a, b, c, d : pty_write_output(PtyAs(a, b, c), d) = PtyAs(fifo_write(a, Onlcr(d)), b, c)
  BY DEF PtyAs, pty_write_output
<1>3. CASE k = "bs"
  <2>1. pty_master_write(y, k) = Erase(y)
    BY <1>3 DEF pty_master_write
  <2>2. CASE lb = << >>
    <3>1. Erase(y) = y
      BY <1>1, <2>2 DEF Erase
    <3> QED BY <1>3, <2>1, <2>2, <3>1
  <2>3. CASE lb # << >>
    <3> DEFINE z == pty_echo_backspace(y)
               r == fifo_write(q0, Onlcr(<<"bs", "sp", "bs">>))
    <3>1. z = PtyAs(r, mw, lb)
      BY <1>2 DEF pty_echo_backspace
    <3>2. Erase(y) = [z EXCEPT !.line_buf = Front(@)]
      BY <1>1, <2>3 DEF Erase
    <3> HIDE DEF z, r
    <3>3. [z EXCEPT !.line_buf = Front(@)] = PtyAs(r, mw, Front(lb))
      BY <3>1 DEF PtyAs
    <3> QED BY <1>3, <2>1, <2>3, <3>2, <3>3 DEF r
  <2> QED BY <2>2, <2>3
<1>4. CASE k = "nl"
  <2> DEFINE z == pty_commit_line(y)
             m == fifo_write(mw, Append(lb, "nl"))
             r == fifo_write(q0, Onlcr(<<"nl">>))
  <2>1. pty_master_write(y, k) = pty_write_output(z, <<"nl">>)
    BY <1>4 DEF pty_master_write
  <2>2. z = PtyAs(q0, m, << >>)
    <3>1. z = [y EXCEPT !.master_write = m, !.line_buf = << >>]
      BY <1>1 DEF pty_commit_line
    <3> HIDE DEF z, m
    <3> QED BY <3>1 DEF PtyAs
  <2>3. pty_write_output(z, <<"nl">>) = PtyAs(r, m, << >>)
    BY <1>2, <2>2
  <2> QED BY <1>4, <2>1, <2>3
<1>5. CASE k \notin {"bs", "nl"} /\ Len(lb) < PTY_LINE_CAP - 1
  <2> DEFINE z == [y EXCEPT !.line_buf = Append(@, k)]
             r == fifo_write(q0, Onlcr(<<k>>))
  <2>1. pty_master_write(y, k) = pty_write_output(z, <<k>>)
    BY <1>1, <1>5 DEF pty_master_write
  <2>2. z = PtyAs(q0, mw, Append(lb, k))
    BY DEF PtyAs
  <2>3. pty_write_output(z, <<k>>) = PtyAs(r, mw, Append(lb, k))
    BY <1>2, <2>2
  <2> QED BY <1>5, <2>1, <2>3
<1>6. CASE k \notin {"bs", "nl"} /\ ~(Len(lb) < PTY_LINE_CAP - 1)
  <2>1. pty_master_write(y, k) = y
    BY <1>1, <1>6 DEF pty_master_write
  <2> QED BY <1>6, <2>1
<1> QED BY <1>3, <1>4, <1>5, <1>6

\* A key that the pty gets.
LEMMA KeyStep ==
    ASSUME TermInv, terminal_key
    PROVE  TermInv'
<1> DEFINE k == Head(events)
           lb == pty.line_buf
           mw == pty.master_write
<1>1. /\ mode = "pty" /\ mode' = "pty" /\ events # << >> /\ events' = Tail(events)
      /\ UNCHANGED <<typed, ttyq, line, ran>>
      /\ pty' = pty_master_write(pty, k)
      /\ lost' = (lost \/ (Len(lb) = PTY_LINE_CAP - 1 /\ k \notin {"bs", "nl"})
                       \/ (k = "nl" /\ fifo_free(mw) <= Len(lb)))
  BY DEF terminal_key, shellVars
<1>2. /\ typed \in Seq(Key) /\ events \in Seq(Key) /\ ttyq \in Seq(Key) /\ lost \in BOOLEAN
      /\ line \in Seq(Char) /\ ran \in Seq(Char) /\ Len(ttyq) <= TTYQ_LEN - 1
      /\ lb \in Seq(Sent) /\ mw \in Seq(Sent) /\ Len(lb) <= PTY_LINE_CAP - 1
      /\ pty = PtyAs(pty.master_read, mw, lb)
  BY DEF TermInv, TermTypes, PtyAs
<1>3. /\ k \in Key /\ events' \in Seq(Key) /\ k # "cr" /\ k \in Char /\ "nl" \in Char /\ "nl" \in Sent
      /\ \A r \in Seq(Key) : Append(r, k) \o events' = r \o events
  BY <1>1, <1>2, HeadTail, TerminalAssumption DEF Char, Sent
<1>4. \A u \in Seq(Sent) : u \in Seq(Char)
  BY SeqMonotonic DEF Sent
<1>5. lost' \in BOOLEAN /\ (~lost' => ~lost /\ KeysInOrder /\ PtyLines /\ TermTypes)
  BY <1>1, <1>2 DEF TermInv
<1> HIDE DEF k, lb, mw
<1>6. ASSUME ~lost' PROVE KeysInOrder' /\ Read' = Append(Read, k) /\ Read \in Seq(Key)
  <2>1. Read \in Seq(Key) /\ Unread = events /\ Unread' = events'
    BY <1>1, <1>5, <1>6, ReadType DEF Unread
  <2>2. Append(Read, k) \in Seq(Key)
    BY <1>3, <2>1, AppendProperties
  <2>3. typed' = Append(Read, k) \o Unread'
    BY <1>1, <1>3, <1>5, <1>6, <2>1 DEF KeysInOrder
  <2> QED BY <1>3, <2>1, <2>2, <2>3, KeysStep
<1>7. \A q, m, b : PtyAs(q, m, b).master_write = m /\ PtyAs(q, m, b).line_buf = b
  BY DEF PtyAs
<1>8. ASSUME NEW q, NEW m \in Seq(Sent), NEW b \in Seq(Sent), pty' = PtyAs(q, m, b),
             Len(b) <= PTY_LINE_CAP - 1
      PROVE  TermTypes' /\ pty'.master_write = m /\ pty'.line_buf = b
  <2>1. /\ pty'.master_write = m /\ pty'.line_buf = b /\ pty'.master_read = q
    BY <1>8 DEF PtyAs
  <2> QED BY <1>1, <1>2, <1>3, <1>5, <1>8, <2>1 DEF TermTypes, PtyAs
<1>9. ASSUME ~lost'
      PROVE \E P \in Seq(Nat), c \in Seq(Char) : /\ OnLine(Read, P, lb)
                                                 /\ Joined(Edited(Read), c, lb)
                                                 /\ NoTabs(c) = NoTabs(ran \o line \o mw)
  BY <1>5, <1>9 DEF PtyLines, lb, mw
<1>10. \A u \in Seq(Key) : u \in Seq(Char)
  BY SeqMonotonic DEF Char
<1>a. pty' = pty_master_write(PtyAs(pty.master_read, mw, lb), k) /\ k # "cr"
  BY <1>1, <1>2, <1>3
<1>b. /\ k = "bs" => \E q : pty' = PtyAs(q, mw, IF lb = << >> THEN lb ELSE Front(lb))
      /\ k = "nl" => \E q : pty' = PtyAs(q, fifo_write(mw, Append(lb, "nl")), << >>)
      /\ k \notin {"bs", "nl"} /\ Len(lb) < PTY_LINE_CAP - 1
            => \E q : pty' = PtyAs(q, mw, Append(lb, k))
      /\ k \notin {"bs", "nl"} /\ ~(Len(lb) < PTY_LINE_CAP - 1)
            => \E q : pty' = PtyAs(q, mw, lb)
  <2> DEFINE q0 == pty.master_read
             q1 == fifo_write(q0, Onlcr(<<"bs", "sp", "bs">>))
             q2 == fifo_write(q0, Onlcr(<<"nl">>))
             q3 == fifo_write(q0, Onlcr(<<k>>))
  <2>1. /\ k = "bs" /\ lb = << >> => pty' = PtyAs(q0, mw, lb)
        /\ k = "bs" /\ lb # << >> => pty' = PtyAs(q1, mw, Front(lb))
        /\ k = "nl" => pty' = PtyAs(q2, fifo_write(mw, Append(lb, "nl")), << >>)
        /\ k \notin {"bs", "nl"} /\ Len(lb) < PTY_LINE_CAP - 1 => pty' = PtyAs(q3, mw, Append(lb, k))
        /\ k \notin {"bs", "nl"} /\ ~(Len(lb) < PTY_LINE_CAP - 1) => pty' = PtyAs(q0, mw, lb)
    <3>1. KeyMakes(pty', q0, mw, lb, k)
      BY <1>a, PtyEcho, Zenon
    <3> HIDE DEF q0
    <3> QED BY <3>1, Zenon DEF KeyMakes
  <2> HIDE DEF q0, q1, q2, q3
  <2> QED BY <2>1
<1>c. Len(lb) \in Nat /\ PTY_LINE_CAP \in Nat /\ Len(lb) <= PTY_LINE_CAP - 1
  BY <1>2, LenProperties, PtyAssumption
<1>11. CASE k = "bs" /\ lb = << >>
  <2>1. PICK q : pty' = PtyAs(q, mw, lb)
    BY <1>b, <1>11, Zenon
  <2>2. TermTypes' /\ pty'.master_write = mw /\ pty'.line_buf = lb
    BY <1>2, <1>8, <2>1
  <2>3. ASSUME ~lost' PROVE PtyLines'
    <3>1. PICK P \in Seq(Nat), c \in Seq(Char) : /\ OnLine(Read, P, lb)
                                                 /\ Joined(Edited(Read), c, lb)
                                                 /\ NoTabs(c) = NoTabs(ran \o line \o mw)
      BY <1>9, <2>3
    <3>2. Len(P) = 0
      BY <1>11, <3>1 DEF OnLine
    <3>3. P = << >>
      BY <3>2, EmptySeq
    <3>4. Edited(Append(Read, "bs")) = Edited(Read) /\ OnLine(Append(Read, "bs"), << >>, << >>)
      BY <1>3, <1>6, <1>11, <2>3, <3>1, <3>3, LineBsEmpty
    <3> QED BY <1>1, <1>6, <1>11, <2>2, <2>3, <3>1, <3>3, <3>4, PtyStep
  <2> QED BY <1>1, <1>6, <2>2, <2>3 DEF TermInv
<1>12. CASE k = "bs" /\ lb # << >>
  <2>0. Len(lb) \in Nat \ {0} /\ Front(lb) = SubSeq(lb, 1, Len(lb) - 1)
    BY <1>2, <1>12, EmptySeq DEF Front
  <2>1. PICK q : pty' = PtyAs(q, mw, Front(lb))
    BY <1>b, <1>12, Zenon
  <2>2. Front(lb) \in Seq(Sent) /\ Len(Front(lb)) <= PTY_LINE_CAP - 1
    <3>1. \A i \in 1..(Len(lb) - 1) : lb[i] \in Sent
      BY <1>2
    <3>2. /\ SubSeq(lb, 1, Len(lb) - 1) \in Seq(Sent)
          /\ Len(SubSeq(lb, 1, Len(lb) - 1)) = IF 1 <= Len(lb) - 1 THEN Len(lb) - 1 - 1 + 1 ELSE 0
      BY <2>0, <3>1, SubSeqProperties
    <3>3. Len(SubSeq(lb, 1, Len(lb) - 1)) <= Len(lb)
      BY <2>0, <3>2
    <3> HIDE DEF lb
    <3> QED BY <1>2, <2>0, <3>2, <3>3, PtyAssumption
  <2>3. TermTypes' /\ pty'.master_write = mw /\ pty'.line_buf = Front(lb)
    BY <1>2, <1>8, <2>1, <2>2
  <2>4. ASSUME ~lost' PROVE PtyLines'
    <3>1. PICK P \in Seq(Nat), c \in Seq(Char) : /\ OnLine(Read, P, lb)
                                                 /\ Joined(Edited(Read), c, lb)
                                                 /\ NoTabs(c) = NoTabs(ran \o line \o mw)
      BY <1>9, <2>4
    <3>2. Len(P) = Len(lb)
      BY <3>1 DEF OnLine
    <3>3. Read \in Seq(Char) /\ lb \in Seq(Char) /\ "bs" \in Char
      BY <1>2, <1>3, <1>4, <1>6, <1>10, <1>12, <2>4
    <3> DEFINE t == Append(Read, "bs")
               R == SubSeq(P, 1, Len(P) - 1)
    <3>4. /\ Joined(Edited(t), c, SubSeq(lb, 1, Len(lb) - 1))
          /\ OnLine(t, R, SubSeq(lb, 1, Len(lb) - 1))
      <4>1. Len(P) # 0 /\ OnLine(Read, P, lb) /\ Joined(Edited(Read), c, lb)
        BY <2>0, <3>1, <3>2
      <4> QED BY <3>3, <4>1, LineBs, Zenon
    <3>5. R \in Seq(Nat)
      <4>1. Len(P) - 1 \in Int /\ 1 \in Int /\ \A i \in 1..(Len(P) - 1) : P[i] \in Nat
        BY <2>0, <3>2
      <4> QED BY <4>1, SubSeqProperties
    <3> HIDE DEF t, R
    <3>7. OnLine(t, R, Front(lb)) /\ Joined(Edited(t), c, Front(lb)) /\ Read' = t
      BY <1>6, <1>12, <2>0, <2>4, <3>4 DEF t
    <3> QED BY <1>1, <2>3, <3>1, <3>5, <3>7, PtyStep
  <2> QED BY <1>1, <1>6, <2>3, <2>4 DEF TermInv
<1>13. CASE k = "nl"
  <2> DEFINE d == Append(lb, "nl")
             m == fifo_write(mw, d)
  <2>0. d \in Seq(Sent) /\ Len(d) = Len(lb) + 1
    BY <1>2, <1>3, AppendProperties
  <2>1. PICK q : pty' = PtyAs(q, m, << >>)
    BY <1>b, <1>13, Zenon
  <2>2. m \in Seq(Sent) /\ (Len(d) <= fifo_free(mw) => m = mw \o d)
    BY <1>2, <2>0, FifoWrite
  <2>3. << >> \in Seq(Sent) /\ Len(<< >>) <= PTY_LINE_CAP - 1
    BY <1>c, EmptySeq
  <2>4. TermTypes' /\ pty'.master_write = m /\ pty'.line_buf = << >>
    BY <1>8, <2>1, <2>2, <2>3
  <2>5. ASSUME ~lost' PROVE PtyLines'
    <3>1. PICK P \in Seq(Nat), c \in Seq(Char) : /\ OnLine(Read, P, lb)
                                                 /\ Joined(Edited(Read), c, lb)
                                                 /\ NoTabs(c) = NoTabs(ran \o line \o mw)
      BY <1>9, <2>5
    <3>2. m = mw \o d
      <4>1. ~(fifo_free(mw) <= Len(lb))
        BY <1>1, <1>13, <2>5 DEF lb, mw
      <4>2. fifo_free(mw) \in Int
        BY <1>2, LenProperties, PtyAssumption DEF fifo_free
      <4>3. Len(d) <= fifo_free(mw)
        BY <1>c, <2>0, <4>1, <4>2
      <4> QED BY <2>2, <4>3
    <3> HIDE DEF m
    <3>3. /\ Read \in Seq(Char) /\ lb \in Seq(Char) /\ mw \in Seq(Char) /\ d \in Seq(Char)
          /\ "nl" \in Char /\ "nl" # "bs"
      BY <1>2, <1>3, <1>4, <1>6, <1>10, <2>0, <2>5
    <3>4. Edited(Append(Read, "nl")) = Append(Edited(Read), "nl") /\ Edited(Read) \in Seq(Char)
      BY <3>3, EditedAppend
    <3>5. Joined(Edited(Append(Read, "nl")), c, d)
      BY <3>1, <3>3, <3>4, JoinedAppend, Zenon
    <3>6. OnLine(Append(Read, "nl"), << >>, << >>)
      BY <3>3, LineNl
    <3> HIDE DEF d
    <3>7. c \o d \in Seq(Char) /\ ran \o line \in Seq(Char) /\ (ran \o line) \o mw \in Seq(Char)
      BY <1>2, <3>3, ConcatProperties
    <3>8. NoTabs(c \o d) = NoTabs(((ran \o line) \o mw) \o d)
      <4>1. NoTabs(c \o d) = NoTabs(c) \o NoTabs(d)
        BY <3>3, NoTabsConcat
      <4>2. NoTabs(((ran \o line) \o mw) \o d) = NoTabs((ran \o line) \o mw) \o NoTabs(d)
        BY <3>3, <3>7, NoTabsConcat
      <4> QED BY <3>1, <4>1, <4>2
    <3>9. ((ran \o line) \o mw) \o d = (ran \o line) \o (mw \o d)
      <4>1. ran \o line \in Seq(Char) /\ mw \in Seq(Char) /\ d \in Seq(Char)
        BY <3>3, <3>7
      <4>2. Associates(ran \o line, mw, d)
        BY <4>1, AssociatesAll, Zenon
      <4> QED BY <4>2, Zenon DEF Associates
    <3>10. Joined(c \o d, c \o d, << >>)
      BY <3>7, JoinedEmpty, Zenon
    <3>11. /\ OnLine(Read', << >>, pty'.line_buf)
           /\ Joined(Edited(Read'), c \o d, pty'.line_buf)
           /\ NoTabs(c \o d) = NoTabs(ran' \o line' \o pty'.master_write)
      BY <1>1, <1>6, <1>13, <2>4, <2>5, <3>2, <3>4, <3>5, <3>6, <3>8, <3>9, <3>10 DEF m, Joined
    <3>12. << >> \in Seq(Nat)
      BY EmptySeq
    <3> QED BY <3>7, <3>11, <3>12, PtyStep
  <2> QED BY <1>1, <1>6, <2>4, <2>5 DEF TermInv
<1>14. CASE k \notin {"bs", "nl"} /\ Len(lb) < PTY_LINE_CAP - 1
  <2> DEFINE d == Append(lb, k)
  <2>0. d \in Seq(Sent) /\ Len(d) = Len(lb) + 1
    <3>1. k \in Sent
      BY <1>3, <1>14 DEF Sent
    <3> QED BY <1>2, <3>1, AppendProperties
  <2>1. PICK q : pty' = PtyAs(q, mw, d)
    BY <1>b, <1>14, Zenon
  <2>2. Len(d) <= PTY_LINE_CAP - 1
    BY <1>c, <1>14, <2>0
  <2>3. TermTypes' /\ pty'.master_write = mw /\ pty'.line_buf = d
    BY <1>2, <1>8, <2>0, <2>1, <2>2
  <2>4. ASSUME ~lost' PROVE PtyLines'
    <3>1. PICK P \in Seq(Nat), c \in Seq(Char) : /\ OnLine(Read, P, lb)
                                                 /\ Joined(Edited(Read), c, lb)
                                                 /\ NoTabs(c) = NoTabs(ran \o line \o mw)
      BY <1>9, <2>4
    <3>2. Read \in Seq(Char) /\ lb \in Seq(Char) /\ k \in Char
      BY <1>2, <1>3, <1>4, <1>6, <1>10, <2>4
    <3>3. Edited(Append(Read, k)) = Append(Edited(Read), k) /\ Edited(Read) \in Seq(Char)
      BY <1>14, <3>2, EditedAppend
    <3>4. Joined(Edited(Append(Read, k)), c, d)
      BY <3>1, <3>2, <3>3, JoinedAppend, Zenon
    <3> DEFINE R == Append(P, Len(Read) + 1)
    <3>5. OnLine(Append(Read, k), R, d)
      BY <1>14, <3>1, <3>2, LineChar
    <3>6. R \in Seq(Nat)
      <4>1. Len(Read) + 1 \in Nat
        BY <3>2, LenProperties
      <4> QED BY <4>1, AppendProperties
    <3> HIDE DEF R, d
    <3> QED BY <1>1, <1>6, <2>3, <2>4, <3>1, <3>4, <3>5, <3>6, PtyStep
  <2> QED BY <1>1, <1>6, <2>3, <2>4 DEF TermInv
<1>15. CASE k \notin {"bs", "nl"} /\ ~(Len(lb) < PTY_LINE_CAP - 1)
  <2>1. PICK q : pty' = PtyAs(q, mw, lb)
    BY <1>b, <1>15, Zenon
  <2>2. TermTypes'
    BY <1>2, <1>8, <2>1
  <2>3. lost'
    <3>1. Len(lb) = PTY_LINE_CAP - 1
      BY <1>c, <1>15
    <3> QED BY <1>1, <1>15, <3>1 DEF lb
  <2> QED BY <2>2, <2>3 DEF TermInv
<1> QED BY <1>11, <1>12, <1>13, <1>14, <1>15

\* A character moves from the front of one sequence to the end of another.
LEMMA JoinedMove ==
    ASSUME NEW S, NEW r \in Seq(S), NEW l \in Seq(S), NEW x \in S, NEW m \in Seq(S)
    PROVE  Joined((r \o Append(l, x)) \o m, r \o l, <<x>> \o m)
<1>1. r \o Append(l, x) = (r \o l) \o <<x>>
  OBVIOUS
<1> DEFINE a == r \o l
           e == <<x>>
<1>2. a \in Seq(S) /\ e \in Seq(S)
  OBVIOUS
<1>3. r \o Append(l, x) = a \o e
  BY <1>1
<1> HIDE DEF a, e
<1>4. (a \o e) \o m = a \o (e \o m)
  BY SMTT(30), <1>2, ConcatAssociative
<1>5. Joined((r \o Append(l, x)) \o m, a, e \o m)
  BY <1>3, <1>4, Zenon DEF Joined
<1> QED BY <1>5 DEF a, e

\* A tab in front is left out.
LEMMA NoTabsTab ==
    ASSUME NEW S, NEW m \in Seq(S), "tab" \in S
    PROVE  NoTabs(<<"tab">> \o m) = NoTabs(m)
<1>1. /\ <<"tab">> = Append(<< >>, "tab") /\ << >> \in Seq(S) /\ <<"tab">> \in Seq(S)
  OBVIOUS
<1>2. NoTabs(<<"tab">>) = << >>
  BY <1>1, NoTabsAppend, NoTabsEmpty
<1>3. NoTabs(<<"tab">> \o m) = NoTabs(<<"tab">>) \o NoTabs(m)
  BY <1>1, NoTabsConcat
<1>4. NoTabs(m) \in Seq(S)
  BY PickType DEF NoTabs
<1> QED BY <1>2, <1>3, <1>4, ConcatEmpty

\* A step of the shell on a line that the pty has edited: the characters are the
\* same, wherever they are, but for tabs.
LEMMA ShellPty ==
    ASSUME TermInv, shell_read_line, mode = "pty"
    PROVE  TermInv'
<1> DEFINE mw == pty.master_write
           c == Head(mw)
           m == Tail(mw)
<1>1. /\ mw # << >> /\ mode' = "pty" /\ UNCHANGED <<typed, events, ttyq>>
      /\ pty' = pty_slave_read(pty, 1)
      /\ \/ c = "nl" /\ ran' = ran \o Append(line, "nl") /\ line' = << >> /\ lost' = lost
         \/ c = "bs"
         \/ c = "tab" /\ UNCHANGED <<line, ran, lost>>
         \/ c \notin {"nl", "bs", "tab"} /\ line' = Append(line, c) /\ UNCHANGED <<ran, lost>>
         \/ lost' = TRUE /\ UNCHANGED <<line, ran>>
  BY DEF shell_read_line, Input
<1>2. /\ typed \in Seq(Key) /\ events \in Seq(Key) /\ ttyq \in Seq(Key) /\ lost \in BOOLEAN
      /\ line \in Seq(Char) /\ ran \in Seq(Char) /\ Len(ttyq) <= TTYQ_LEN - 1
      /\ pty.line_buf \in Seq(Sent) /\ mw \in Seq(Sent) /\ Len(pty.line_buf) <= PTY_LINE_CAP - 1
      /\ pty = PtyAs(pty.master_read, mw, pty.line_buf)
  BY DEF TermInv, TermTypes, PtyAs
<1> HIDE DEF mw
<1>3. c \in Sent /\ m \in Seq(Sent) /\ c \in Char /\ c # "bs" /\ "nl" \in Char
  BY <1>1, <1>2, HeadTail DEF Sent, Char
<1>4. mw = <<c>> \o m
  BY <1>1, <1>2
<1>5. pty' = PtyAs(pty.master_read, m, pty.line_buf)
  <2>1. Left(mw, 1) = m
    BY <1>1, <1>2, LeftOne
  <2>2. pty' = [pty EXCEPT !.master_write = Left(mw, 1)]
    BY <1>1 DEF pty_slave_read, mw
  <2> HIDE DEF m
  <2> QED BY <1>2, <2>1, <2>2 DEF PtyAs
<1> HIDE DEF c, m
<1>6. /\ pty'.master_write = m /\ pty'.line_buf = pty.line_buf
      /\ pty' = [master_read |-> pty'.master_read, master_write |-> pty'.master_write,
                 line_buf |-> pty'.line_buf]
  BY <1>5 DEF PtyAs
<1>7. \A u \in Seq(Sent) : u \in Seq(Char)
  BY SeqMonotonic DEF Sent
<1>8. << >> \in Seq(Char) /\ <<c>> \in Seq(Char) /\ m \in Seq(Char)
  BY <1>3, <1>7
<1>9. line' \in Seq(Char) /\ ran' \in Seq(Char) /\ lost' \in BOOLEAN
  <2>1. Append(line, "nl") \in Seq(Char) /\ Append(line, c) \in Seq(Char)
    BY <1>2, <1>3, AppendProperties
  <2>2. ran \o Append(line, "nl") \in Seq(Char)
    BY <1>2, <2>1, ConcatProperties
  <2> QED BY <1>1, <1>2, <1>3, <1>8, <2>1, <2>2
<1>10. TermTypes'
  BY <1>1, <1>2, <1>3, <1>6, <1>9 DEF TermTypes
<1>11. ASSUME ~lost' PROVE ~lost /\ NoTabs(ran' \o line' \o m) = NoTabs(ran \o line \o mw)
  <2>0. (ran \o Append(line, c)) \o m = (ran \o line) \o mw
    <3>1. Joined((ran \o Append(line, c)) \o m, ran \o line, <<c>> \o m)
      BY <1>2, <1>3, <1>8, JoinedMove, Zenon
    <3> QED BY <1>4, <3>1, Zenon DEF Joined
  <2>1. CASE c = "nl" /\ ran' = ran \o Append(line, "nl") /\ line' = << >> /\ lost' = lost
    <3>1. ran \o Append(line, c) \in Seq(Char)
      BY <1>9, <2>1
    <3>2. (ran \o Append(line, c)) \o << >> = ran \o Append(line, c)
      BY <3>1, ConcatEmpty
    <3> QED BY <1>11, <2>0, <2>1, <3>2
  <2>2. CASE c = "tab" /\ UNCHANGED <<line, ran, lost>>
    <3> DEFINE a == ran \o line
    <3>1. a \in Seq(Char) /\ <<c>> \o m \in Seq(Char)
      BY <1>2, <1>8, ConcatProperties
    <3> HIDE DEF a
    <3>2. NoTabs(a \o m) = NoTabs(a) \o NoTabs(m) /\ NoTabs(a \o mw) = NoTabs(a) \o NoTabs(mw)
      BY <1>4, <1>8, <3>1, NoTabsConcat
    <3>3. NoTabs(mw) = NoTabs(m)
      BY <1>3, <1>4, <1>8, <2>2, NoTabsTab
    <3>4. NoTabs(a \o m) = NoTabs(a \o mw)
      BY <3>2, <3>3
    <3> QED BY <1>11, <2>2, <3>4 DEF a
  <2>3. CASE c \notin {"nl", "bs", "tab"} /\ line' = Append(line, c) /\ UNCHANGED <<ran, lost>>
    BY <1>11, <2>0, <2>3
  <2> QED BY <1>1, <1>3, <1>11, <2>1, <2>2, <2>3
<1>12. Read' = Read /\ Unread' = Unread
  BY <1>1 DEF Read, Unread
<1>13. ASSUME ~lost' PROVE KeysInOrder' /\ PtyLines'
  <2>1. KeysInOrder /\ PtyLines
    BY <1>11, <1>13 DEF TermInv
  <2>2. KeysInOrder'
    BY <1>1, <1>12, <2>1 DEF KeysInOrder
  <2>3. PICK P \in Seq(Nat), b \in Seq(Char) :
              /\ OnLine(Read, P, pty.line_buf)
              /\ Joined(Edited(Read), b, pty.line_buf)
              /\ NoTabs(b) = NoTabs(ran \o line \o mw)
    BY <2>1 DEF PtyLines, mw
  <2>4. PtyLines'
    BY <1>6, <1>11, <1>12, <1>13, <2>3, PtyStep
  <2> QED BY <2>2, <2>4
<1> QED BY <1>1, <1>10, <1>13 DEF TermInv

\* A step of the shell that edits what comes from the keyboard itself.
LEMMA ShellConsole ==
    ASSUME TermInv, shell_read_line, mode = "console"
    PROVE  TermInv'
<1> DEFINE c == Head(ttyq)
<1>1. /\ ttyq # << >> /\ mode' = "console" /\ UNCHANGED <<typed, events, pty>> /\ ttyq' = Tail(ttyq)
      /\ \/ c = "nl" /\ ran' = ran \o Append(line, "nl") /\ line' = << >> /\ lost' = lost
         \/ c = "bs" /\ line' = (IF line = << >> THEN line ELSE Front(line)) /\ UNCHANGED <<ran, lost>>
         \/ c = "tab" /\ UNCHANGED <<line, ran, lost>>
         \/ c \notin {"nl", "bs", "tab"} /\ line' = Append(line, c) /\ UNCHANGED <<ran, lost>>
         \/ lost' = TRUE /\ UNCHANGED <<line, ran>>
  BY DEF shell_read_line, Input
<1>2. /\ typed \in Seq(Key) /\ events \in Seq(Key) /\ ttyq \in Seq(Key) /\ lost \in BOOLEAN
      /\ line \in Seq(Char) /\ ran \in Seq(Char) /\ Len(ttyq) <= TTYQ_LEN - 1
  BY DEF TermInv, TermTypes
<1>3. /\ c \in Key /\ ttyq' \in Seq(Key) /\ c \in Char /\ "nl" \in Char /\ Len(ttyq') = Len(ttyq) - 1
      /\ \A r \in Seq(Key) : Append(r, c) \o ttyq' = r \o ttyq
  BY <1>1, <1>2, HeadTail DEF Char
<1>4. << >> \in Seq(Char) /\ << >> \in Seq(Nat)
  BY EmptySeq
<1> HIDE DEF c
<1>5. line # << >> => Front(line) \in Seq(Char) /\ Front(line) = SubSeq(line, 1, Len(line) - 1)
  BY <1>2, FrontLast DEF Front
<1>6. line' \in Seq(Char) /\ ran' \in Seq(Char) /\ lost' \in BOOLEAN
  <2>1. Append(line, "nl") \in Seq(Char) /\ Append(line, c) \in Seq(Char)
    BY <1>2, <1>3, AppendProperties
  <2>2. ran \o Append(line, "nl") \in Seq(Char)
    BY <1>2, <2>1, ConcatProperties
  <2> QED BY <1>1, <1>2, <1>4, <1>5, <2>1, <2>2
<1>7. TermTypes'
  <2>1. Len(ttyq') <= TTYQ_LEN - 1
    <3>1. Len(ttyq) \in Nat /\ TTYQ_LEN \in Nat
      BY <1>2, LenProperties, TerminalAssumption
    <3> QED BY <1>2, <1>3, <3>1
  <2> QED BY <1>1, <1>2, <1>3, <1>6, <2>1 DEF TermInv, TermTypes
<1>8. ASSUME ~lost' PROVE ~lost /\ KeysInOrder /\ ShellLines /\ TermTypes
  BY <1>1, <1>2, <1>8 DEF TermInv
<1>9. ASSUME ~lost' PROVE KeysInOrder' /\ Read' = Append(Read, c) /\ Read \in Seq(Key)
  <2>1. Read \in Seq(Key) /\ Unread = ttyq /\ Unread' = ttyq'
    BY <1>1, <1>8, <1>9, ReadType DEF Unread
  <2>2. Append(Read, c) \in Seq(Key)
    BY <1>3, <2>1, AppendProperties
  <2>3. typed' = Append(Read, c) \o Unread'
    BY <1>1, <1>3, <1>8, <1>9, <2>1 DEF KeysInOrder
  <2> QED BY <1>3, <2>1, <2>2, <2>3, KeysStep
<1> DEFINE s == NoTabs(Read)
           t == NoTabs(Read')
<1>10. ASSUME ~lost' PROVE ShellLines'
  <2>0. /\ \A u \in Seq(Key) : u \in Seq(Char)
    BY SeqMonotonic DEF Char
  <2>1. s \in Seq(Char) /\ t = IF c = "tab" THEN s ELSE Append(s, c)
    BY <1>3, <1>9, <1>10, <2>0, NoTabsAppend
  <2> HIDE DEF s, t
  <2>2. PICK P \in Seq(Nat) : OnLine(s, P, line) /\ Joined(Edited(s), ran, line)
    BY <1>8, <1>10 DEF ShellLines, s
  <2> SUFFICES \E R \in Seq(Nat) : OnLine(t, R, line') /\ Joined(Edited(t), ran', line')
    BY DEF ShellLines, t
  <2>3. c # "bs" => Edited(s) \in Seq(Char) /\ Edited(Append(s, c)) = Append(Edited(s), c)
    BY <1>3, <2>1, EditedAppend
  <2>4. CASE c = "nl" /\ ran' = ran \o Append(line, "nl") /\ line' = << >>
    <3>1. OnLine(t, << >>, << >>)
      BY <1>3, <2>1, <2>4, LineNl
    <3>2. Append(line, "nl") \in Seq(Char)
      BY <1>2, <1>3, AppendProperties
    <3>3. Joined(Append(Edited(s), "nl"), ran, Append(line, "nl"))
      BY <1>2, <1>3, <2>2, <2>3, <2>4, JoinedAppend, Zenon
    <3>4. Edited(t) = ran'
      BY <2>1, <2>3, <2>4, <3>3 DEF Joined
    <3>5. Joined(ran', ran', << >>)
      BY <1>6, JoinedEmpty, Zenon
    <3> QED BY <1>4, <2>4, <3>1, <3>4, <3>5
  <2>5. CASE c = "bs" /\ line = << >> /\ line' = << >> /\ ran' = ran
    <3>1. Len(P) = 0
      BY <2>2, <2>5 DEF OnLine
    <3>2. P = << >>
      BY <3>1, EmptySeq
    <3>3. Edited(t) = Edited(s) /\ OnLine(t, << >>, << >>)
      BY <1>3, <2>1, <2>2, <2>5, <3>2, LineBsEmpty
    <3> QED BY <1>4, <2>2, <2>5, <3>3
  <2>6. CASE c = "bs" /\ line # << >> /\ line' = Front(line) /\ ran' = ran
    <3>1. Len(P) # 0 /\ "bs" \in Char
      <4>1. Len(line) # 0
        BY <1>2, <2>6, EmptySeq
      <4> QED BY <1>3, <2>2, <2>6, <4>1 DEF OnLine
    <3> DEFINE R == SubSeq(P, 1, Len(P) - 1)
               l == SubSeq(line, 1, Len(line) - 1)
    <3>2. Joined(Edited(Append(s, "bs")), ran, l) /\ OnLine(Append(s, "bs"), R, l)
      BY <1>2, <2>1, <2>2, <3>1, LineBs, Zenon
    <3>3. R \in Seq(Nat)
      <4>1. Len(P) \in Nat /\ \A i \in 1..(Len(P) - 1) : P[i] \in Nat
        OBVIOUS
      <4> QED BY <4>1, SubSeqProperties
    <3>4. line' = l /\ t = Append(s, "bs")
      BY <1>5, <2>1, <2>6
    <3> HIDE DEF R, l
    <3> QED BY <2>6, <3>2, <3>3, <3>4
  <2>7. CASE c = "tab" /\ UNCHANGED <<line, ran>>
    BY <2>1, <2>2, <2>7
  <2>8. CASE c \notin {"nl", "bs", "tab"} /\ line' = Append(line, c) /\ ran' = ran
    <3> DEFINE R == Append(P, Len(s) + 1)
    <3>1. OnLine(Append(s, c), R, Append(line, c))
      BY <1>2, <1>3, <2>1, <2>2, <2>8, LineChar
    <3>2. R \in Seq(Nat)
      <4>1. Len(s) + 1 \in Nat
        BY <2>1, LenProperties
      <4> QED BY <4>1, AppendProperties
    <3>3. Joined(Append(Edited(s), c), ran, Append(line, c))
      BY <1>2, <1>3, <2>2, <2>3, <2>8, JoinedAppend, Zenon
    <3>4. t = Append(s, c) /\ Edited(t) = Append(Edited(s), c)
      BY <2>1, <2>3, <2>8
    <3> HIDE DEF R
    <3> QED BY <2>8, <3>1, <3>2, <3>3, <3>4
  <2> QED BY <1>1, <1>10, <2>4, <2>5, <2>6, <2>7, <2>8
<1> QED BY <1>1, <1>7, <1>9, <1>10 DEF TermInv

\* Before anything is typed.
LEMMA TermInitial == TInit => TermInv
<1> SUFFICES ASSUME TInit PROVE TermInv
  OBVIOUS
<1>1. /\ mode \in {"pty", "console"} /\ typed = << >> /\ events = << >> /\ ttyq = << >>
      /\ pty = NewPty /\ line = << >> /\ ran = << >> /\ lost = FALSE
  BY DEF TInit
<1>2. \A S : << >> \in Seq(S)
  BY EmptySeq
<1>3. Len(<< >>) = 0 /\ 1..0 = {} /\ SubSeq(<< >>, 1, 0 - 0) = << >> /\ << >> \o << >> = << >>
  OBVIOUS
<1>4. /\ pty.master_write = << >> /\ pty.line_buf = << >> /\ pty.master_read = << >>
      /\ pty = [master_read |-> pty.master_read, master_write |-> pty.master_write,
                line_buf |-> pty.line_buf]
  BY <1>1 DEF NewPty
<1>5. 0 <= TTYQ_LEN - 1 /\ 0 <= PTY_LINE_CAP - 1
  BY TerminalAssumption, PtyAssumption
<1>6. TermTypes
  BY <1>1, <1>2, <1>3, <1>4, <1>5 DEF TermTypes
<1>7. Read = << >> /\ Unread = << >>
  BY <1>1, <1>3 DEF Read, Unread
<1>8. OnLine(<< >>, << >>, << >>)
  BY <1>3, Zenon DEF OnLine
<1>9. Edited(<< >>) = << >>
  <2>1. \A I : Pick(<< >>, I) = PickTo(<< >>, I)[0] /\ PickTo(<< >>, I)[0] = << >>
    BY <1>3, PickDef
  <2> QED BY <2>1 DEF Edited
<1>10. Joined(<< >>, << >>, << >>)
  BY <1>3 DEF Joined
<1>11. KeysInOrder
  BY <1>1, <1>3, <1>7 DEF KeysInOrder
<1>12. PtyLines
  <2>1. /\ OnLine(Read, << >>, pty.line_buf) /\ Joined(Edited(Read), << >>, pty.line_buf)
        /\ NoTabs(<< >>) = NoTabs(ran \o line \o pty.master_write)
    BY <1>1, <1>3, <1>4, <1>7, <1>8, <1>9, <1>10
  <2> QED BY <1>2, <2>1 DEF PtyLines
<1>13. ShellLines
  <2>1. OnLine(NoTabs(Read), << >>, line) /\ Joined(Edited(NoTabs(Read)), ran, line)
    BY <1>1, <1>7, <1>8, <1>9, <1>10, NoTabsEmpty
  <2> QED BY <1>2, <2>1 DEF ShellLines
<1> QED BY <1>6, <1>11, <1>12, <1>13 DEF TermInv

\* Closing the window loses the keys that were not read, or there were none.
LEMMA CloseStep ==
    ASSUME TermInv, terminal_close
    PROVE  TermInv'
<1>1. /\ mode = "pty" /\ events' = << >> /\ lost' = (lost \/ events # << >>)
      /\ UNCHANGED <<mode, typed, ttyq, pty, line, ran>>
  BY DEF terminal_close, shellVars
<1>2. TermTypes'
  <2>1. << >> \in Seq(Key)
    BY EmptySeq
  <2> QED BY <1>1, <2>1 DEF TermInv, TermTypes
<1>3. ASSUME ~lost' PROVE ~lost /\ UNCHANGED events
  BY <1>1, <1>3 DEF TermInv, TermTypes
<1>4. ASSUME ~lost' PROVE KeysInOrder' /\ PtyLines'
  <2>1. KeysInOrder /\ PtyLines /\ UNCHANGED events
    BY <1>1, <1>3, <1>4 DEF TermInv
  <2>2. Read' = Read /\ Unread' = Unread
    BY <1>1, <2>1 DEF Read, Unread
  <2> QED BY <1>1, <2>1, <2>2 DEF KeysInOrder, PtyLines
<1> QED BY <1>1, <1>2, <1>4 DEF TermInv

\* sys_write(1, ...) leaves alone what was typed.
LEMMA WriteStep ==
    ASSUME TermInv, NEW d, Write(d), UNCHANGED <<mode, typed, events, ttyq, line, ran, lost>>
    PROVE  TermInv'
<1>1. TermTypes
  BY DEF TermInv
<1>2. pty' = pty_slave_write(pty, d) \/ pty' = pty
  BY DEF Write
<1>3. \E q : pty' = [master_read |-> q, master_write |-> pty.master_write, line_buf |-> pty.line_buf]
  BY <1>1, <1>2, OutputFrame
<1> QED BY <1>3, Frame

\* A step that leaves the pty alone as well.
LEMMA SameStep ==
    ASSUME TermInv, UNCHANGED <<mode, typed, events, ttyq, pty, line, ran, lost>>
    PROVE  TermInv'
<1>1. TermTypes
  BY DEF TermInv
<1>2. \E q : pty' = [master_read |-> q, master_write |-> pty.master_write, line_buf |-> pty.line_buf]
  BY <1>1, OutputFrame
<1> QED BY <1>2, Frame

\* Every step.
LEMMA TermInductive == TermInv /\ [TNext]_tvars => TermInv'
<1> SUFFICES ASSUME TermInv, [TNext]_tvars PROVE TermInv'
  OBVIOUS
<1>1. CASE \E k \in Key : type(k)
  BY <1>1, TypeStep
<1>2. CASE terminal_read
  <2>1. /\ UNCHANGED <<mode, typed, events, ttyq, line, ran, lost>>
        /\ pty' = pty_master_read(pty, CHUNK)
    BY <1>2 DEF terminal_read, shellVars
  <2>2. TermTypes
    BY DEF TermInv
  <2>3. \E q : pty' = [master_read |-> q, master_write |-> pty.master_write, line_buf |-> pty.line_buf]
    BY <2>1, <2>2, OutputFrame
  <2> QED BY <2>1, <2>3, Frame
<1>3. CASE terminal_key
  BY <1>3, KeyStep
<1>4. CASE terminal_idle
  BY <1>4, SameStep DEF terminal_idle, shellVars
<1>5. CASE terminal_close
  BY <1>5, CloseStep
<1>6. CASE shell_prompt
  BY <1>6, WriteStep DEF shell_prompt
<1>7. CASE shell_read_line
  BY <1>7, ShellPty, ShellConsole DEF TermInv, TermTypes
<1>8. CASE shell_run_builtin
  <2>1. UNCHANGED <<mode, typed, events, ttyq, line, ran, lost>>
    BY <1>8 DEF shell_run_builtin
  <2>2. UNCHANGED pty \/ Write(<<"e", "nl">>)
    BY <1>8 DEF shell_run_builtin
  <2> QED BY <2>1, <2>2, WriteStep, SameStep
<1>9. CASE shell_exec_external
  <2>1. UNCHANGED <<mode, typed, events, ttyq, line, ran, lost>>
    BY <1>9 DEF shell_exec_external
  <2>2. UNCHANGED pty \/ Write(<<"e", "nl">>)
    BY <1>9 DEF shell_exec_external
  <2> QED BY <2>1, <2>2, WriteStep, SameStep
<1>10. CASE child_exit
  <2>1. UNCHANGED <<mode, typed, events, ttyq, line, ran, lost>>
    BY <1>10 DEF child_exit
  <2>2. UNCHANGED pty \/ \E d \in Output : Write(d)
    BY <1>10 DEF child_exit
  <2> QED BY <2>1, <2>2, WriteStep, SameStep
<1>11. CASE UNCHANGED tvars
  BY <1>11, SameStep DEF tvars, termVars, shellVars
<1> QED BY <1>1, <1>2, <1>3, <1>4, <1>5, <1>6, <1>7, <1>8, <1>9, <1>10, <1>11
        DEF TNext, Terminal, Shell

\* What the invariant says about the lines.
LEMMA TermMeans == TermInv => LinesFaithful
<1> SUFFICES ASSUME TermInv, ~lost
             PROVE  IF mode = "pty"
                    THEN NoTabs(ran \o line \o pty.master_write \o pty.line_buf) = NoTabs(Edited(Read))
                    ELSE ran \o line = Edited(NoTabs(Read))
  BY DEF LinesFaithful
<1>1. CASE mode = "pty"
  <2> DEFINE a == ran \o line \o pty.master_write
             b == pty.line_buf
  <2>1. PICK P \in Seq(Nat), c \in Seq(Char) : /\ Edited(Read) = c \o b
                                               /\ NoTabs(c) = NoTabs(a)
    BY <1>1 DEF TermInv, PtyLines, Joined
  <2>2. \A u \in Seq(Sent) : u \in Seq(Char)
    BY SeqMonotonic DEF Sent
  <2>3. /\ ran \in Seq(Char) /\ line \in Seq(Char) /\ pty.master_write \in Seq(Char) /\ b \in Seq(Char)
    BY <2>2 DEF TermInv, TermTypes
  <2>4. ran \o line \in Seq(Char)
    BY <2>3, ConcatProperties
  <2>5. a \in Seq(Char)
    BY <2>3, <2>4, ConcatProperties
  <2> HIDE DEF a, b
  <2>6. NoTabs(a \o b) = NoTabs(a) \o NoTabs(b) /\ NoTabs(c \o b) = NoTabs(c) \o NoTabs(b)
    BY <2>3, <2>5, NoTabsConcat
  <2>7. NoTabs(a \o b) = NoTabs(Edited(Read))
    BY <2>1, <2>6
  <2> QED BY <1>1, <2>7 DEF a, b
<1>2. CASE mode = "console"
  BY <1>2 DEF TermInv, ShellLines, Joined
<1> QED BY <1>1, <1>2 DEF TermInv, TermTypes

\* What the shell runs is what was typed and not taken back, in order, in both
\* modes and for every size of the buffers: backspace, ICRNL, the committing of a
\* line (dev_pty.c), and the shell's own editing (shell_read_line) lose, repeat and
\* reorder nothing unless a full buffer has dropped a key.
THEOREM LinesAreFaithful == TSpec => []LinesFaithful
<1>1. TInit => TermInv
  BY TermInitial
<1>2. TermInv /\ [TNext]_tvars => TermInv'
  BY TermInductive
<1>3. TermInv => LinesFaithful
  BY TermMeans
<1> QED BY <1>1, <1>2, <1>3, PTL DEF TSpec

-----------------------------------------------------------------------------
(* The inductive invariant of the terminals' files.                        *)

\* An entry of a file table, a file table, a process.
IsFile(e) == DOMAIN e = {"node", "flags", "offset"}
IsTable(t) == t = [f \in Fd |-> t[f]] /\ \A f \in Fd : IsFile(t[f])
IsProcess(r) == DOMAIN r = {"prog", "pc", "fds", "cwd", "path", "fd", "out", "child", "was"}

\* A terminal that has its pty, and the number of that pty.
HoldsPty(r) == r.prog = "terminal" /\ r.pc \in {"stdio", "exec", "loop"}
Mine(r) == r.fds[r.fd].node.id
OnPty(r, g) == \A f \in 0..2 : r.fds[f].node = Node("slave", g)

\* What holds of a process whatever the others are.
TableOk(r) == /\ r.prog # "none" => r.fds[0] # Unused /\ r.fds[1] # Unused
              /\ r.prog = "terminal" /\ r.pc \in {"window", "pty"} => r.fds[2] # Unused
              /\ r.prog = "cat" /\ r.pc \in {"read", "newline", "close"} => r.fd \in Fd \ {0, 1}
MasterOk(r, ptys) ==
    HoldsPty(r) => /\ r.fd \in Fd \ (0..2)
                   /\ Mine(r) \in 0..(ptys - 1)
                   /\ r.fds[r.fd].node = Node("master", Mine(r))
                   /\ r.pc = "stdio" => r.path = <<"dev", "pts", ToString(Mine(r))>>
                   /\ r.pc # "stdio" => OnPty(r, Mine(r))
ProcessOk(r, pids, ptys) ==
    /\ IsProcess(r)
    /\ IsTable(r.fds)
    /\ r.child \in 0..(pids - 1)
    /\ r.prog = "shell" => r.pc = "ready"
    /\ TableOk(r)
    /\ MasterOk(r, ptys)

\* Two terminals have two ptys; a running one has a shell on its own.
PtysApart == \A p, q \in Pid : p # q /\ HoldsPty(proc[p]) /\ HoldsPty(proc[q])
                                  => Mine(proc[p]) # Mine(proc[q])
ShellOnPty == \A p \in Pid : At(p, "terminal", "loop") =>
                  /\ proc[p].child # 0
                  /\ proc[proc[p].child].prog = "shell"
                  /\ OnPty(proc[proc[p].child], Mine(proc[p]))

FilesInv == /\ proc = [p \in Pid |-> proc[p]]
            /\ next_pid \in 2..(MaxProc + 1)
            /\ g_ptys \in 0..PTY_MAX
            /\ \A p \in Pid : ProcessOk(proc[p], next_pid, g_ptys)
            /\ \A p \in Pid : p >= next_pid => proc[p].prog = "none"
            /\ PtysApart
            /\ ShellOnPty

-----------------------------------------------------------------------------
(* File tables.                                                            *)

\* alloc_fd takes the first unused entry.
LEMMA FreeFdIs ==
    ASSUME NEW t, NEW f, f = FreeFd(t)
    PROVE  \/ f = -1 /\ \A k \in Fd : t[k] # Unused
           \/ f \in Fd /\ t[f] = Unused /\ \A k \in Fd : k < f => t[k] # Unused
<1> DEFINE free == {k \in Fd : t[k] = Unused}
<1>1. CASE free = {}
  BY <1>1 DEF FreeFd
<1>2. CASE free # {}
  <2>1. f = Min(free)
    BY <1>2 DEF FreeFd
  <2>2. free \in SUBSET Nat /\ free \subseteq Int
    BY FilesAssumption DEF Fd
  <2> HIDE DEF free
  <2>3. \E x \in free : \A y \in free : x <= y
    BY <1>2, <2>2, LeastElement
  <2>4. f \in free /\ \A y \in free : f <= y
    BY <2>1, <2>3 DEF Min
  <2> USE DEF free
  <2> QED BY <2>4, FilesAssumption DEF Fd
<1> QED BY <1>1, <1>2

\* A file table has the numbers 0, 1 and 2; -1 is not one of its numbers.
LEMMA FirstFds == 0 \in Fd /\ 1 \in Fd /\ 2 \in Fd /\ Fd \subseteq Nat /\ -1 \notin Fd
  BY FilesAssumption DEF Fd

\* An entry that is not in use or just opened is an entry.
LEMMA IsFileNew ==
    ASSUME NEW node, NEW flags
    PROVE  /\ IsFile([node |-> node, flags |-> flags, offset |-> 0])
           /\ IsFile(Unused)
  BY DEF IsFile, Unused

\* Changing one entry of a table.
LEMMA TableSet ==
    ASSUME NEW t, IsTable(t), NEW f \in Fd, NEW e, IsFile(e)
    PROVE  /\ IsTable([t EXCEPT ![f] = e])
           /\ [t EXCEPT ![f] = e][f] = e
           /\ \A k \in Fd : k # f => [t EXCEPT ![f] = e][k] = t[k]
<1>1. DOMAIN t = Fd
  BY DEF IsTable
<1> QED BY <1>1 DEF IsTable

\* Closing a file.
LEMMA CloseIs ==
    ASSUME NEW t, IsTable(t), NEW f \in Fd
    PROVE  /\ IsTable(Close(t, f))
           /\ Close(t, f)[f] = Unused
           /\ \A k \in Fd : k # f => Close(t, f)[k] = t[k]
<1>1. Close(t, f) = [t EXCEPT ![f] = Unused]
  BY DEF Close
<1>2. IsFile(Unused)
  BY IsFileNew
<1>3. /\ IsTable([t EXCEPT ![f] = Unused])
      /\ [t EXCEPT ![f] = Unused][f] = Unused
      /\ \A k \in Fd : k # f => [t EXCEPT ![f] = Unused][k] = t[k]
  BY <1>2, TableSet
<1> QED BY <1>1, <1>3

\* The table u is t with node opened as file f, the first unused one.
Opened(t, u, f, node) ==
    /\ f \in Fd /\ t[f] = Unused /\ \A k \in Fd : k < f => t[k] # Unused
    /\ IsTable(u) /\ u[f].node = node /\ u[f].offset = 0 /\ \A k \in Fd : k # f => u[k] = t[k]

\* Opening a file changes the free entry and nothing else.
LEMMA AllocIs ==
    ASSUME NEW t, IsTable(t), NEW node, NEW flags, FreeFd(t) # -1
    PROVE  Opened(t, alloc_fd(t, node, flags), FreeFd(t), node)
<1> DEFINE f == FreeFd(t)
           e == [node |-> node, flags |-> flags, offset |-> 0]
<1>1. f \in Fd /\ t[f] = Unused /\ \A k \in Fd : k < f => t[k] # Unused
  BY FreeFdIs
<1>2. alloc_fd(t, node, flags) = [t EXCEPT ![f] = e]
  BY DEF alloc_fd
<1>3. IsFile(e) /\ e.node = node /\ e.offset = 0
  BY IsFileNew
<1> HIDE DEF f, e
<1>4. /\ IsTable([t EXCEPT ![f] = e])
      /\ [t EXCEPT ![f] = e][f] = e
      /\ \A k \in Fd : k # f => [t EXCEPT ![f] = e][k] = t[k]
  BY <1>1, <1>3, TableSet
<1>5. Opened(t, [t EXCEPT ![f] = e], f, node)
  BY <1>1, <1>3, <1>4 DEF Opened
<1> QED BY <1>2, <1>5 DEF f

-----------------------------------------------------------------------------
(* Steps that change one process, and steps that start one.                *)

\* The other processes' invariant survives more processes and ptys.
LEMMA Weaken ==
    ASSUME NEW r, NEW m \in Nat, NEW n \in Nat, m <= n, NEW g \in Nat, NEW h \in Nat, g <= h,
           ProcessOk(r, m, g)
    PROVE  ProcessOk(r, n, h)
<1>1. r.child \in 0..(n - 1)
  BY DEF ProcessOk
<1>2. MasterOk(r, h)
  <2>1. MasterOk(r, g)
    BY DEF ProcessOk
  <2>2. Mine(r) \in 0..(g - 1) => Mine(r) \in 0..(h - 1)
    OBVIOUS
  <2> QED BY <2>1, <2>2, Zenon DEF MasterOk
<1> QED BY <1>1, <1>2 DEF ProcessOk

\* Shells keep their files, and a terminal keeps its pty or has just made it.
LEMMA AllSteps ==
    ASSUME FilesInv, NEW p \in Pid,
           proc' = [q \in Pid |-> proc'[q]],
           next_pid' \in next_pid..(MaxProc + 1),
           g_ptys' \in g_ptys..PTY_MAX,
           \A q \in Pid : ProcessOk(proc'[q], next_pid', g_ptys'),
           \A q \in Pid : q >= next_pid' => proc'[q].prog = "none",
           \A q \in Pid : proc[q].prog = "shell" => proc'[q].prog = "shell" /\ proc'[q].fds = proc[q].fds,
           \A q \in Pid : HoldsPty(proc'[q]) =>
               \/ HoldsPty(proc[q]) /\ Mine(proc'[q]) = Mine(proc[q])
               \/ q = p /\ Mine(proc'[q]) = g_ptys,
           \A q \in Pid : At(q, "terminal", "loop")' =>
               \/ At(q, "terminal", "loop") /\ proc'[q] = proc[q]
               \/ /\ proc'[q].child # 0
                  /\ proc'[proc'[q].child].prog = "shell"
                  /\ OnPty(proc'[proc'[q].child], Mine(proc'[q]))
    PROVE  FilesInv'
<1>2. next_pid \in Nat /\ g_ptys \in Nat /\ g_ptys' \in Nat /\ g_ptys <= g_ptys' /\ PTY_MAX \in Nat
  BY FilesAssumption DEF FilesInv
<1>5. ASSUME NEW q \in Pid, HoldsPty(proc[q]) PROVE Mine(proc[q]) # g_ptys
  <2>1. Mine(proc[q]) \in 0..(g_ptys - 1)
    BY <1>5 DEF FilesInv, ProcessOk, MasterOk
  <2> QED BY <1>2, <2>1
<1>6. PtysApart'
  <2> SUFFICES ASSUME NEW q \in Pid, NEW o \in Pid, q # o, HoldsPty(proc'[q]), HoldsPty(proc'[o])
               PROVE  Mine(proc'[q]) # Mine(proc'[o])
    BY DEF PtysApart, HoldsPty, Mine
  <2>1. \A a, b \in Pid : a # b /\ HoldsPty(proc[a]) /\ HoldsPty(proc[b]) => Mine(proc[a]) # Mine(proc[b])
    BY DEF FilesInv, PtysApart
  <2> QED BY <1>5, <2>1
<1>7. ShellOnPty'
  <2> SUFFICES ASSUME NEW q \in Pid, At(q, "terminal", "loop")'
               PROVE  /\ proc'[q].child # 0
                      /\ proc'[proc'[q].child].prog = "shell"
                      /\ OnPty(proc'[proc'[q].child], Mine(proc'[q]))
    BY DEF ShellOnPty, OnPty, Mine, At
  <2>1. CASE At(q, "terminal", "loop") /\ proc'[q] = proc[q]
    <3>2. /\ proc[q].child # 0
          /\ proc[proc[q].child].prog = "shell"
          /\ OnPty(proc[proc[q].child], Mine(proc[q]))
      BY <2>1 DEF FilesInv, ShellOnPty
    <3>3. proc[q].child \in Pid
      BY SMTT(30), <3>2, FilesAssumption DEF FilesInv, ProcessOk, Pid
    <3>4. /\ proc'[proc[q].child].prog = "shell"
          /\ proc'[proc[q].child].fds = proc[proc[q].child].fds
      BY <3>2, <3>3
    <3>5. OnPty(proc'[proc[q].child], Mine(proc[q]))
      BY <3>2, <3>4 DEF OnPty
    <3>6. proc'[q] = proc[q]
      BY <2>1
    <3> QED BY <3>2, <3>4, <3>5, <3>6, Zenon
  <2> QED BY <2>1
<1>8. next_pid' \in 2..(MaxProc + 1) /\ g_ptys' \in 0..PTY_MAX
  BY FilesAssumption DEF FilesInv
<1> QED BY <1>6, <1>7, <1>8 DEF FilesInv

\* One process changes; no other can tell.
LEMMA OneStep ==
    ASSUME FilesInv, NEW p \in Pid, NEW r,
           proc[p].prog # "none",
           proc' = [proc EXCEPT ![p] = r],
           next_pid' = next_pid,
           g_ptys' \in g_ptys..PTY_MAX,
           ProcessOk(r, next_pid, g_ptys'),
           proc[p].prog = "shell" => r.prog = "shell" /\ r.fds = proc[p].fds,
           HoldsPty(r) => \/ HoldsPty(proc[p]) /\ Mine(r) = Mine(proc[p])
                          \/ Mine(r) = g_ptys,
           ~(r.prog = "terminal" /\ r.pc = "loop")
    PROVE  FilesInv'
<1>1. /\ proc'[p] = r
      /\ \A q \in Pid : q # p => proc'[q] = proc[q]
      /\ proc' = [q \in Pid |-> proc'[q]]
  BY DEF FilesInv
<1>2. next_pid \in Nat /\ g_ptys \in Nat /\ g_ptys' \in Nat /\ g_ptys <= g_ptys' /\ PTY_MAX \in Nat
  BY FilesAssumption DEF FilesInv
<1>3. ASSUME NEW q \in Pid PROVE ProcessOk(proc'[q], next_pid', g_ptys')
  <2>1. CASE q = p
    BY <1>1, <2>1
  <2>2. CASE q # p
    <3>1. ProcessOk(proc[q], next_pid, g_ptys)
      BY DEF FilesInv
    <3>2. ProcessOk(proc[q], next_pid, g_ptys')
      BY <1>2, <3>1, Weaken
    <3> QED BY <1>1, <2>2, <3>2
  <2> QED BY <2>1, <2>2
<1>4. ASSUME NEW q \in Pid, q >= next_pid' PROVE proc'[q].prog = "none"
  BY <1>1, <1>4 DEF FilesInv
<1>5. next_pid' \in next_pid..(MaxProc + 1)
  BY FilesAssumption DEF FilesInv
<1>6. \A q \in Pid : proc[q].prog = "shell" => proc'[q].prog = "shell" /\ proc'[q].fds = proc[q].fds
  BY <1>1
<1>7. \A q \in Pid : HoldsPty(proc'[q]) =>
               \/ HoldsPty(proc[q]) /\ Mine(proc'[q]) = Mine(proc[q])
               \/ q = p /\ Mine(proc'[q]) = g_ptys
  BY <1>1
<1>8. \A q \in Pid : At(q, "terminal", "loop")' => At(q, "terminal", "loop") /\ proc'[q] = proc[q]
  BY <1>1 DEF At
<1> QED BY <1>1, <1>3, <1>4, <1>5, <1>6, <1>7, <1>8, AllSteps

\* A process is started.
LEMMA StartStep ==
    ASSUME FilesInv, NEW p \in Pid, NEW r, NEW c,
           proc[p].prog # "none",
           next_pid <= MaxProc,
           proc' = [proc EXCEPT ![p] = r, ![next_pid] = c],
           next_pid' = next_pid + 1,
           g_ptys' = g_ptys,
           ProcessOk(r, next_pid + 1, g_ptys),
           ProcessOk(c, next_pid + 1, g_ptys),
           proc[p].prog = "shell" => r.prog = "shell" /\ r.fds = proc[p].fds,
           HoldsPty(r) => HoldsPty(proc[p]) /\ Mine(r) = Mine(proc[p]),
           ~HoldsPty(c),
           r.prog = "terminal" /\ r.pc = "loop" =>
              r.child = next_pid /\ c.prog = "shell" /\ OnPty(c, Mine(r))
    PROVE  FilesInv'
<1>1. next_pid \in Pid /\ p # next_pid
  BY FilesAssumption DEF FilesInv, Pid
<1>2. /\ proc'[p] = r
      /\ proc'[next_pid] = c
      /\ \A q \in Pid : q # p /\ q # next_pid => proc'[q] = proc[q]
      /\ proc' = [q \in Pid |-> proc'[q]]
  BY <1>1 DEF FilesInv
<1>3. next_pid \in Nat /\ next_pid + 1 \in Nat /\ next_pid <= next_pid + 1 /\ g_ptys \in Nat
  BY FilesAssumption DEF FilesInv
<1>4. ASSUME NEW q \in Pid PROVE ProcessOk(proc'[q], next_pid', g_ptys')
  <2>1. CASE q # p /\ q # next_pid
    <3>1. ProcessOk(proc[q], next_pid, g_ptys)
      BY DEF FilesInv
    <3>2. ProcessOk(proc[q], next_pid + 1, g_ptys)
      BY <1>3, <3>1, Weaken
    <3> QED BY <1>2, <2>1, <3>2
  <2> QED BY <1>2, <2>1
<1>5. ASSUME NEW q \in Pid, q >= next_pid' PROVE proc'[q].prog = "none"
  <2>1. q # next_pid /\ q >= next_pid
    BY <1>3, <1>5 DEF Pid
  <2> QED BY <1>2, <2>1 DEF FilesInv
<1>6. next_pid' \in next_pid..(MaxProc + 1) /\ g_ptys' \in g_ptys..PTY_MAX
  BY FilesAssumption DEF FilesInv
<1>7. \A q \in Pid : proc[q].prog = "shell" => proc'[q].prog = "shell" /\ proc'[q].fds = proc[q].fds
  <2>1. proc[next_pid].prog = "none"
    BY <1>1, <1>3 DEF FilesInv
  <2> QED BY <1>2, <2>1
<1>8. \A q \in Pid : HoldsPty(proc'[q]) =>
               \/ HoldsPty(proc[q]) /\ Mine(proc'[q]) = Mine(proc[q])
               \/ q = p /\ Mine(proc'[q]) = g_ptys
  BY <1>2
<1>9. ASSUME NEW q \in Pid, At(q, "terminal", "loop")'
      PROVE  \/ At(q, "terminal", "loop") /\ proc'[q] = proc[q]
             \/ /\ proc'[q].child # 0
                /\ proc'[proc'[q].child].prog = "shell"
                /\ OnPty(proc'[proc'[q].child], Mine(proc'[q]))
  <2>1. CASE q = p
    <3>1. r.child = next_pid /\ c.prog = "shell" /\ OnPty(c, Mine(r))
      BY <1>2, <1>9, <2>1 DEF At
    <3>2. next_pid # 0
      BY DEF FilesInv
    <3> QED BY <1>2, <2>1, <3>1, <3>2
  <2>2. q # next_pid
    BY <1>2, <1>9 DEF At, HoldsPty
  <2> QED BY <1>2, <1>9, <2>1, <2>2 DEF At
<1> QED BY <1>2, <1>4, <1>5, <1>6, <1>7, <1>8, <1>9, AllSteps

-----------------------------------------------------------------------------
(* Path names.                                                             *)

\* The nodes a walk passes.
WalkTo(start, path) ==
    LET walk[k \in 0..Len(path)] == IF k = 0 THEN start ELSE finddir(walk[k - 1], path[k])
    IN  walk

\* The recursive definition has a solution.
LEMMA WalkDef ==
    \A start, path : Len(path) \in Nat =>
        /\ WalkTo(start, path)[0] = start
        /\ \A k \in 1..Len(path) : WalkTo(start, path)[k] = finddir(WalkTo(start, path)[k - 1], path[k])
        /\ vfs_walk(start, path) = WalkTo(start, path)[Len(path)]
<1> SUFFICES ASSUME NEW start, NEW path, Len(path) \in Nat
             PROVE  /\ WalkTo(start, path)[0] = start
                    /\ \A k \in 1..Len(path) :
                          WalkTo(start, path)[k] = finddir(WalkTo(start, path)[k - 1], path[k])
                    /\ vfs_walk(start, path) = WalkTo(start, path)[Len(path)]
  OBVIOUS
<1> DEFINE Step(x, n) == finddir(x, path[n])
           Solves(g, m) == g = [n \in 0..m |-> IF n = 0 THEN start ELSE Step(g[n - 1], n)]
           T == {m \in Nat : \E g : Solves(g, m)}
<1>1. 0 \in T
  <2>1. Solves([n \in 0..0 |-> start], 0)
    <3> HIDE DEF Step
    <3> QED OBVIOUS
  <2> HIDE DEF Solves
  <2> QED BY <2>1
<1>2. ASSUME NEW m \in 0..(Len(path) - 1), m \in T PROVE m + 1 \in T
  <2>1. PICK g : Solves(g, m)
    BY <1>2
  <2> DEFINE f == [n \in 0..(m + 1) |-> IF n = m + 1 THEN Step(g[m], m + 1) ELSE g[n]]
  <2>2. ASSUME NEW n \in 0..(m + 1)
        PROVE  f[n] = IF n = 0 THEN start ELSE Step(f[n - 1], n)
    <3> HIDE DEF Step
    <3> QED BY <2>1
  <2>3. Solves(f, m + 1)
    <3> HIDE DEF Step
    <3> QED BY <2>2
  <2> HIDE DEF f, Solves
  <2> QED BY <2>3
<1>3. Len(path) \in T
  <2> HIDE DEF T
  <2>1. \A n \in 0..Len(path) : n \in T
    BY <1>1, <1>2, UpTo
  <2> QED BY <2>1
<1>4. PICK g : Solves(g, Len(path))
  BY <1>3
<1>5. Solves(WalkTo(start, path), Len(path))
  BY <1>4 DEF WalkTo
<1> HIDE DEF T
<1>6. \A n \in 0..Len(path) :
         WalkTo(start, path)[n] = IF n = 0 THEN start ELSE Step(WalkTo(start, path)[n - 1], n)
  <2> HIDE DEF Step
  <2> QED BY <1>5
<1>7. vfs_walk(start, path) = WalkTo(start, path)[Len(path)]
  BY DEF vfs_walk, WalkTo
<1>8. \A n \in 1..Len(path) : n \in 0..Len(path) /\ n # 0
  OBVIOUS
<1>9. 0 \in 0..Len(path)
  OBVIOUS
<1> QED BY <1>6, <1>7, <1>8, <1>9, Zenon

\* The name of a pty leads to its slave.
LEMMA LookupPty ==
    ASSUME NEW g \in 0..PTY_MAX, g < g_ptys, g_ptys \in 0..PTY_MAX
    PROVE  vfs_lookup(<<"dev", "pts", ToString(g)>>) = Node("slave", g)
<1> DEFINE path == <<"dev", "pts", ToString(g)>>
           root == Node("ext2", ROOT)
           W == WalkTo(root, path)
<1>1. Len(path) = 3 /\ path[1] = "dev" /\ path[2] = "pts" /\ path[3] = ToString(g)
  OBVIOUS
<1> HIDE DEF path
<1>2. /\ W[0] = root
      /\ W[1] = finddir(W[0], path[1])
      /\ W[2] = finddir(W[1], path[2])
      /\ W[3] = finddir(W[2], path[3])
      /\ vfs_lookup(path) = W[3]
  <2>1. /\ WalkTo(root, path)[0] = root
        /\ \A k \in 1..Len(path) : WalkTo(root, path)[k] = finddir(WalkTo(root, path)[k - 1], path[k])
        /\ vfs_walk(root, path) = WalkTo(root, path)[Len(path)]
    <3>1. Len(path) \in Nat
      BY <1>1
    <3> QED BY <3>1, WalkDef, Zenon
  <2>2. vfs_lookup(path) = vfs_walk(root, path)
    BY DEF vfs_lookup
  <2> HIDE DEF W, root
  <2>3. 1 \in 1..3 /\ 2 \in 1..3 /\ 3 \in 1..3 /\ 1 - 1 = 0 /\ 2 - 1 = 1 /\ 3 - 1 = 2
    OBVIOUS
  <2> QED BY <1>1, <2>1, <2>2, <2>3 DEF W
<1> HIDE DEF W
<1>3. W[1] = Devfs
  <2>1. DirFind(ROOT, "dev") = Devfs
    BY DEF DirFind
  <2>2. finddir(root, "dev") = DirFind(ROOT, "dev")
    BY DEF finddir, Devfs, Pts, Node
  <2> HIDE DEF root
  <2> QED BY <1>1, <1>2, <2>1, <2>2
<1>4. W[2] = Pts
  BY <1>1, <1>2, <1>3 DEF finddir, Devfs, Pts, Node, dev_root_finddir
<1>5. W[3] = pts_finddir(ToString(g))
  BY <1>1, <1>2, <1>4 DEF finddir, Devfs, Pts, Node
<1>6. {i \in 0..(g_ptys - 1) : ToString(g) = ToString(i)} = {g}
  <2>1. g \in 0..(g_ptys - 1) /\ 0..(g_ptys - 1) \subseteq 0..PTY_MAX
    BY FilesAssumption
  <2> QED BY <2>1, DecimalAssumption
<1>7. Min({g}) = g
  BY DEF Min
<1>8. pts_finddir(ToString(g)) = Node("slave", g)
  BY <1>6, <1>7 DEF pts_finddir
<1> QED BY <1>2, <1>5, <1>8 DEF path

-----------------------------------------------------------------------------
(* The actions.                                                            *)

\* What the invariant says of one process.
LEMMA InvOf ==
    ASSUME FilesInv, NEW p \in Pid
    PROVE  /\ IsProcess(proc[p])
           /\ IsTable(proc[p].fds)
           /\ proc[p].child \in 0..(next_pid - 1)
           /\ proc[p].prog = "shell" => proc[p].pc = "ready"
           /\ TableOk(proc[p])
           /\ MasterOk(proc[p], g_ptys)
           /\ ProcessOk(proc[p], next_pid, g_ptys)
           /\ DOMAIN proc = Pid
  BY DEF FilesInv, ProcessOk

\* A process that has ended or was never there.
LEMMA GoneOk ==
    ASSUME NEW m \in Nat \ {0}, NEW g
    PROVE  ProcessOk(Gone, m, g) /\ ProcessOk(Nobody, m, g) /\ Gone.prog = "none" /\ ~HoldsPty(Gone)
<1>1. IsTable([f \in Fd |-> Unused])
  BY DEF IsTable, IsFile, Unused
<1>2. Gone.prog = "none" /\ Gone.pc = "exited" /\ Gone.fds = [f \in Fd |-> Unused] /\ Gone.child = 0 /\ IsProcess(Gone)
  BY DEF Gone, Nobody, IsProcess
<1>3. Nobody.prog = "none" /\ Nobody.fds = [f \in Fd |-> Unused] /\ Nobody.child = 0 /\ IsProcess(Nobody)
  BY DEF Nobody, IsProcess
<1>4. 0 \in 0..(m - 1)
  OBVIOUS
<1> QED BY <1>1, <1>2, <1>3, <1>4 DEF ProcessOk, TableOk, MasterOk, HoldsPty

\* A process moves on with its files and everything else as they are.
LEMMA GoesStep ==
    ASSUME FilesInv, NEW p \in Pid, NEW pc, proc[p].prog \notin {"none", "shell"},
           proc' = [proc EXCEPT ![p].pc = pc],
           next_pid' = next_pid, g_ptys' = g_ptys,
           \/ pc = "exited"
           \/ proc[p].prog = "terminal" /\ proc[p].pc = "window" /\ pc = "pty"
    PROVE  FilesInv'
<1> DEFINE q == proc[p]
           r == [q EXCEPT !.pc = pc]
<1>1. /\ IsProcess(q) /\ IsTable(q.fds) /\ q.child \in 0..(next_pid - 1)
      /\ TableOk(q) /\ DOMAIN proc = Pid
  BY InvOf
<1>2. IsProcess(r) /\ r.prog = q.prog /\ r.pc = pc /\ r.fds = q.fds /\ r.child = q.child
  BY <1>1 DEF IsProcess
<1>3. proc' = [proc EXCEPT ![p] = r]
  BY <1>1
<1> HIDE DEF r
<1>4. TableOk(r) /\ ~HoldsPty(r)
  BY <1>1, <1>2 DEF TableOk, HoldsPty
<1>5. ProcessOk(r, next_pid, g_ptys)
  BY <1>1, <1>2, <1>4 DEF ProcessOk, MasterOk
<1>6. g_ptys' \in g_ptys..PTY_MAX
  BY FilesAssumption DEF FilesInv
<1> QED BY <1>2, <1>3, <1>4, <1>5, <1>6, OneStep

\* What a new process starts with: the files of its parent.
LEMMA ChildOk ==
    ASSUME NEW me, NEW prog, NEW path, NEW m \in Nat \ {0}, NEW g,
           IsTable(me.fds), me.prog # "none", TableOk(me)
    PROVE  /\ ProcessOk(Child(me, prog, path), m, g)
           /\ ~HoldsPty(Child(me, prog, path))
           /\ Child(me, prog, path).prog = prog
           /\ Child(me, prog, path).fds = me.fds
<1> DEFINE c == Child(me, prog, path)
<1>1. /\ IsProcess(c) /\ c.prog = prog /\ c.fds = me.fds /\ c.child = 0
      /\ c.pc = IF prog \in {"shell", "background"} THEN "ready" ELSE "start"
  BY DEF Child, Nobody, IsProcess
<1> HIDE DEF c
<1>2. c.pc \in {"ready", "start"} /\ (c.prog = "shell" => c.pc = "ready")
  BY <1>1
<1>3. ~HoldsPty(c)
  BY <1>2 DEF HoldsPty
<1>4. TableOk(c)
  BY <1>1, <1>2 DEF TableOk
<1>5. 0 \in 0..(m - 1)
  OBVIOUS
<1>6. ProcessOk(c, m, g)
  BY <1>1, <1>2, <1>3, <1>4, <1>5 DEF ProcessOk, MasterOk
<1> QED BY <1>1, <1>3, <1>6 DEF c

\* sys_exec by the process p, which is me when it makes the call.
LEMMA ExecStep ==
    ASSUME FilesInv, NEW p \in Pid, NEW me, NEW prog, NEW path,
           exec(p, me, prog, path), g_ptys' = g_ptys,
           proc[p].prog # "none", me.prog = proc[p].prog, me.fds = proc[p].fds, me.fd = proc[p].fd,
           ProcessOk(me, next_pid, g_ptys),
           HoldsPty(me) => HoldsPty(proc[p]),
           me.prog = "terminal" /\ me.pc = "loop" => next_pid <= MaxProc /\ prog = "shell"
    PROVE  FilesInv'
<1>1. next_pid \in Nat \ {0} /\ next_pid + 1 \in Nat \ {0} /\ g_ptys \in Nat /\ MaxProc \in Nat
  BY FilesAssumption DEF FilesInv
<1>2. /\ IsProcess(me) /\ IsTable(me.fds) /\ me.child \in 0..(next_pid - 1)
      /\ (me.prog = "shell" => me.pc = "ready") /\ TableOk(me) /\ MasterOk(me, g_ptys)
  BY DEF ProcessOk
<1>3. ASSUME NEW k, NEW m \in Nat \ {0}, k \in 0..(m - 1)
      PROVE  /\ ProcessOk([me EXCEPT !.child = k], m, g_ptys)
             /\ [me EXCEPT !.child = k].prog = me.prog
             /\ [me EXCEPT !.child = k].pc = me.pc
             /\ [me EXCEPT !.child = k].fds = me.fds
             /\ [me EXCEPT !.child = k].fd = me.fd
             /\ [me EXCEPT !.child = k].child = k
  <2> DEFINE r == [me EXCEPT !.child = k]
  <2>1. /\ IsProcess(r) /\ r.prog = me.prog /\ r.pc = me.pc /\ r.fds = me.fds /\ r.child = k
        /\ r.fd = me.fd /\ r.path = me.path
    BY <1>2 DEF IsProcess
  <2> HIDE DEF r
  <2>2. TableOk(r) /\ MasterOk(r, g_ptys)
    <3>1. TableOk(r)
      BY <1>2, <2>1 DEF TableOk
    <3>2. Mine(r) = Mine(me) /\ (HoldsPty(r) <=> HoldsPty(me)) /\ \A g : OnPty(r, g) <=> OnPty(me, g)
      BY <2>1 DEF Mine, HoldsPty, OnPty
    <3>3. MasterOk(r, g_ptys)
      BY <1>2, <2>1, <3>2 DEF MasterOk
    <3> QED BY <3>1, <3>3
  <2>3. ProcessOk(r, m, g_ptys)
    BY <1>2, <1>3, <2>1, <2>2 DEF ProcessOk
  <2> QED BY <2>1, <2>3 DEF r
<1>4. CASE next_pid <= MaxProc
  <2> DEFINE r == [me EXCEPT !.child = next_pid]
             c == Child(me, prog, path)
  <2>1. proc' = [proc EXCEPT ![p] = r, ![next_pid] = c] /\ next_pid' = next_pid + 1
    BY <1>1, <1>4 DEF exec
  <2>2. /\ ProcessOk(r, next_pid + 1, g_ptys)
        /\ r.prog = me.prog /\ r.pc = me.pc /\ r.fds = me.fds /\ r.fd = me.fd /\ r.child = next_pid
    <3>1. next_pid \in 0..((next_pid + 1) - 1)
      BY <1>1
    <3> QED BY <1>1, <1>3, <3>1
  <2>3. ProcessOk(c, next_pid + 1, g_ptys) /\ ~HoldsPty(c) /\ c.prog = prog /\ c.fds = me.fds
    <3>1. me.prog # "none"
      OBVIOUS
    <3> HIDE DEF r, c
    <3>2. ASSUME NEW m \in Nat \ {0} PROVE ProcessOk(Child(me, prog, path), m, g_ptys)
      BY <1>2, <3>1, ChildOk, Zenon
    <3>3. ~HoldsPty(Child(me, prog, path))
      BY <1>1, <1>2, <3>1, ChildOk, Zenon
    <3>4. Child(me, prog, path).prog = prog
      BY DEF Child, Nobody
    <3>5. Child(me, prog, path).fds = me.fds
      BY DEF Child, Nobody
    <3> QED BY <1>1, <3>2, <3>3, <3>4, <3>5, Zenon DEF c
  <2> HIDE DEF r, c
  <2>4. HoldsPty(r) => HoldsPty(proc[p]) /\ Mine(r) = Mine(proc[p])
    BY <2>2 DEF HoldsPty, Mine
  <2>5. r.prog = "terminal" /\ r.pc = "loop" => r.child = next_pid /\ c.prog = "shell" /\ OnPty(c, Mine(r))
    <3>1. ASSUME r.prog = "terminal", r.pc = "loop"
          PROVE  OnPty(c, Mine(r))
      <4>1. HoldsPty(me) /\ OnPty(me, Mine(me))
        BY <1>2, <2>2, <3>1 DEF MasterOk, HoldsPty
      <4> QED BY <2>2, <2>3, <4>1 DEF OnPty, Mine
    <3> QED BY <2>2, <2>3, <3>1
  <2>6. proc[p].prog = "shell" => r.prog = "shell" /\ r.fds = proc[p].fds
    BY <2>2
  <2> QED BY <1>4, <2>1, <2>2, <2>3, <2>4, <2>5, <2>6, StartStep
<1>5. CASE ~(next_pid <= MaxProc)
  <2> DEFINE r == [me EXCEPT !.child = 0]
  <2>1. proc' = [proc EXCEPT ![p] = r] /\ next_pid' = next_pid
    BY <1>1, <1>5 DEF exec
  <2>2. /\ ProcessOk(r, next_pid, g_ptys)
        /\ r.prog = me.prog /\ r.pc = me.pc /\ r.fds = me.fds /\ r.fd = me.fd
    <3>1. 0 \in 0..(next_pid - 1)
      BY <1>1
    <3> QED BY <1>1, <1>3, <3>1
  <2> HIDE DEF r
  <2>3. HoldsPty(r) => HoldsPty(proc[p]) /\ Mine(r) = Mine(proc[p])
    BY <2>2 DEF HoldsPty, Mine
  <2>4. ~(r.prog = "terminal" /\ r.pc = "loop")
    BY <1>5, <2>2
  <2>5. g_ptys' \in g_ptys..PTY_MAX
    BY FilesAssumption DEF FilesInv
  <2>6. proc[p].prog = "shell" => r.prog = "shell" /\ r.fds = proc[p].fds
    BY <2>2
  <2>7. ProcessOk(r, next_pid, g_ptys')
    BY <2>2
  <2> QED BY <2>1, <2>3, <2>4, <2>5, <2>6, <2>7, OneStep
<1> QED BY <1>4, <1>5

\* The shell and the background start programs.
LEMMA ShellExec ==
    ASSUME FilesInv, NEW p \in Pid, shell_exec(p) \/ background_click(p)
    PROVE  FilesInv'
<1>1. g_ptys' = g_ptys /\ proc[p].prog \in {"shell", "background"}
  BY DEF shell_exec, background_click, At
<1>2. ProcessOk(proc[p], next_pid, g_ptys) /\ ~HoldsPty(proc[p])
  BY <1>1, InvOf DEF HoldsPty
<1>3. PICK prog, path : exec(p, proc[p], prog, path)
  <2> HIDE DEF exec
  <2> QED BY DEF shell_exec, background_click
<1> QED BY <1>1, <1>2, <1>3, ExecStep

\* The terminal starts its shell.
LEMMA SpawnExec ==
    ASSUME FilesInv, NEW p \in Pid, spawn_shell_exec(p)
    PROVE  FilesInv'
<1> DEFINE q == proc[p]
           me == [q EXCEPT !.pc = IF next_pid <= MaxProc THEN "loop" ELSE "exited"]
<1>1. q.prog = "terminal" /\ q.pc = "exec" /\ g_ptys' = g_ptys /\ exec(p, me, "shell", << >>)
  BY DEF spawn_shell_exec, At
<1>2. /\ IsProcess(q) /\ IsTable(q.fds) /\ q.child \in 0..(next_pid - 1)
      /\ TableOk(q) /\ MasterOk(q, g_ptys)
  BY InvOf
<1>3. /\ IsProcess(me) /\ me.prog = q.prog /\ me.fds = q.fds /\ me.fd = q.fd /\ me.child = q.child
      /\ me.pc = (IF next_pid <= MaxProc THEN "loop" ELSE "exited")
  BY <1>2 DEF IsProcess
<1> HIDE DEF me
<1>4. TableOk(me) /\ MasterOk(me, g_ptys) /\ HoldsPty(q)
  BY <1>1, <1>2, <1>3 DEF TableOk, MasterOk, HoldsPty, Mine, OnPty
<1>5. ProcessOk(me, next_pid, g_ptys)
  BY <1>1, <1>2, <1>3, <1>4 DEF ProcessOk
<1> QED BY <1>1, <1>3, <1>4, <1>5, ExecStep

\* waitpid: who is collected has ended, so is not a shell.
LEMMA ShellWait ==
    ASSUME FilesInv, NEW p \in Pid, shell_wait(p)
    PROVE  FilesInv'
<1> DEFINE k == proc[p].child
           r == [proc[p] EXCEPT !.child = 0]
<1>1. /\ proc[p].prog = "shell" /\ proc[p].pc = "ready" /\ k # 0 /\ proc[k].pc = "exited"
      /\ next_pid' = next_pid /\ g_ptys' = g_ptys
  BY DEF shell_wait, At, Globals
<1>2. /\ IsProcess(proc[p]) /\ IsTable(proc[p].fds) /\ k \in 0..(next_pid - 1)
      /\ TableOk(proc[p]) /\ DOMAIN proc = Pid
  BY InvOf
<1>3. k \in Pid /\ k # p /\ next_pid \in Nat \ {0} /\ g_ptys \in Nat
  BY SMTT(30), <1>1, <1>2, FilesAssumption DEF Pid, FilesInv
<1>4. proc' = [proc EXCEPT ![k] = Gone, ![p] = r]
  <2>1. proc' = [proc EXCEPT ![k] = Gone, ![p].child = 0]
    BY DEF shell_wait
  <2> HIDE DEF k
  <2> QED BY <1>2, <1>3, <2>1
<1>5. /\ IsProcess(r) /\ r.prog = "shell" /\ r.pc = "ready" /\ r.fds = proc[p].fds /\ r.child = 0
  BY <1>1, <1>2 DEF IsProcess
<1> HIDE DEF r, k
<1>6. /\ proc'[p] = r /\ proc'[k] = Gone /\ proc' = [q \in Pid |-> proc'[q]]
      /\ \A q \in Pid : q # p /\ q # k => proc'[q] = proc[q]
  BY <1>2, <1>3, <1>4
<1>7. ProcessOk(r, next_pid, g_ptys)
  <2>1. TableOk(r) /\ ~HoldsPty(r)
    BY <1>1, <1>2, <1>5 DEF TableOk, HoldsPty
  <2>2. 0 \in 0..(next_pid - 1)
    BY <1>3
  <2> QED BY <1>2, <1>5, <2>1, <2>2 DEF ProcessOk, MasterOk
<1>8. ProcessOk(Gone, next_pid, g_ptys) /\ Gone.prog = "none" /\ ~HoldsPty(Gone)
  BY <1>3, GoneOk
<1>9. /\ \A q \in Pid : ProcessOk(proc'[q], next_pid', g_ptys')
      /\ \A q \in Pid : q >= next_pid' => proc'[q].prog = "none"
  <2>1. \A q \in Pid : ProcessOk(proc[q], next_pid, g_ptys)
    BY DEF FilesInv
  <2>2. \A q \in Pid : q >= next_pid => proc[q].prog = "none" /\ q # p
    BY <1>1 DEF FilesInv
  <2> QED BY <1>1, <1>6, <1>7, <1>8, <2>1, <2>2
<1>10. proc[k].prog # "shell"
  BY <1>1, <1>3, InvOf
<1>11. next_pid' \in next_pid..(MaxProc + 1) /\ g_ptys' \in g_ptys..PTY_MAX
  BY <1>1, FilesAssumption DEF FilesInv
<1>12. \A q \in Pid : proc[q].prog = "shell" => proc'[q].prog = "shell" /\ proc'[q].fds = proc[q].fds
  BY <1>5, <1>6, <1>10
<1>13. \A q \in Pid : HoldsPty(proc'[q]) => HoldsPty(proc[q]) /\ Mine(proc'[q]) = Mine(proc[q])
  <2>1. ~HoldsPty(r)
    BY <1>5 DEF HoldsPty
  <2> QED BY <1>6, <1>8, <2>1
<1>14. \A q \in Pid : At(q, "terminal", "loop")' => At(q, "terminal", "loop") /\ proc'[q] = proc[q]
  BY <1>5, <1>6, <1>8 DEF At
<1> QED BY <1>6, <1>9, <1>11, <1>12, <1>13, <1>14, AllSteps

\* The shell, cat or ls goes from q to r and keeps files 0 and 1.
Quiet(q, r) ==
    /\ q.prog \in {"shell", "cat", "ls"}
    /\ IsProcess(r) /\ r.prog = q.prog /\ r.child = q.child
    /\ IsTable(r.fds) /\ r.fds[0] = q.fds[0] /\ r.fds[1] = q.fds[1]
    /\ r.prog = "shell" => r.pc = "ready" /\ r.fds = q.fds
    /\ r.prog = "cat" /\ r.pc \in {"read", "newline", "close"} => r.fd \in Fd \ {0, 1}

\* Such a step.
LEMMA QuietStep ==
    ASSUME FilesInv, NEW p \in Pid, NEW r, Quiet(proc[p], r),
           proc' = [proc EXCEPT ![p] = r], next_pid' = next_pid, g_ptys' = g_ptys
    PROVE  FilesInv'
<1>1. proc[p].child \in 0..(next_pid - 1) /\ TableOk(proc[p])
  BY InvOf
<1>2. TableOk(r) /\ ~HoldsPty(r)
  BY <1>1 DEF TableOk, HoldsPty, Quiet
<1>3. ProcessOk(r, next_pid, g_ptys)
  BY <1>1, <1>2 DEF ProcessOk, MasterOk, Quiet
<1>4. g_ptys' \in g_ptys..PTY_MAX
  BY FilesAssumption DEF FilesInv
<1>5. proc[p].prog # "none" /\ ~(r.prog = "terminal" /\ r.pc = "loop")
  BY DEF Quiet
<1>6. ProcessOk(r, next_pid, g_ptys')
  BY <1>3, <1>4
<1>7. proc[p].prog = "shell" => r.prog = "shell" /\ r.fds = proc[p].fds
  BY DEF Quiet
<1> QED BY <1>7, <1>2, <1>4, <1>5, <1>6, OneStep

\* cd.
LEMMA ChdirStep ==
    ASSUME FilesInv, NEW p \in Pid, syscall_chdir(p)
    PROVE  FilesInv'
<1> DEFINE q == proc[p]
<1>1. q.prog = "shell" /\ q.pc = "ready" /\ next_pid' = next_pid /\ g_ptys' = g_ptys
  BY DEF syscall_chdir, At, Globals
<1>2. PICK cwd : proc' = [proc EXCEPT ![p].cwd = cwd]
  BY DEF syscall_chdir
<1> DEFINE r == [q EXCEPT !.cwd = cwd]
<1>3. IsProcess(q) /\ IsTable(q.fds) /\ DOMAIN proc = Pid
  BY InvOf
<1>4. /\ IsProcess(r) /\ r.prog = q.prog /\ r.pc = q.pc /\ r.fds = q.fds /\ r.child = q.child
  BY <1>3 DEF IsProcess
<1>5. proc' = [proc EXCEPT ![p] = r]
  BY <1>2, <1>3
<1> HIDE DEF r
<1>6. Quiet(q, r)
  BY <1>1, <1>3, <1>4 DEF Quiet
<1> QED BY <1>1, <1>5, <1>6, QuietStep

\* cat: its file is never 0 or 1.
LEMMA CatStep ==
    ASSUME FilesInv, NEW p \in Pid, cat_open(p) \/ cat_read(p) \/ cat_newline(p) \/ cat_close(p)
    PROVE  FilesInv'
<1> DEFINE q == proc[p]
<1>1. q.prog = "cat" /\ next_pid' = next_pid /\ g_ptys' = g_ptys
  <2>1. CASE cat_open(p)
    BY <2>1, Zenon DEF cat_open, At, Globals
  <2>2. CASE cat_read(p)
    BY <2>2 DEF cat_read, At, Globals
  <2>3. CASE cat_newline(p)
    BY <2>3 DEF cat_newline, At, Globals
  <2>4. CASE cat_close(p)
    BY <2>4 DEF cat_close, At, Globals
  <2> QED BY <2>1, <2>2, <2>3, <2>4
<1>2. IsProcess(q) /\ IsTable(q.fds) /\ DOMAIN proc = Pid /\ q.fds[0] # Unused /\ q.fds[1] # Unused
  BY <1>1, InvOf DEF TableOk
<1>3. CASE Goes(p, "exited")
  BY <1>1, <1>3, GoesStep DEF Goes
<1>4. CASE cat_open(p) /\ ~Goes(p, "exited")
  <2> DEFINE f == FreeFd(q.fds)
             node == vfs_lookup(q.path)
             t == alloc_fd(q.fds, node, {"r"})
             r == [q EXCEPT !.fds = t, !.fd = f, !.pc = "read"]
  <2>1. f # -1 /\ proc' = [proc EXCEPT ![p].fds = t, ![p].fd = f, ![p].pc = "read"]
    <3> HIDE DEF f
    <3> QED BY <1>4 DEF cat_open, f
  <2>2. f \in Fd /\ q.fds[f] = Unused
    BY <2>1, FreeFdIs
  <2>3. IsTable(t) /\ \A k \in Fd : k # f => t[k] = q.fds[k]
    <3> HIDE DEF node
    <3>1. FreeFd(q.fds) # -1
      BY <2>1
    <3>2. Opened(q.fds, t, f, node)
      BY <1>2, <3>1, AllocIs, Zenon
    <3> HIDE DEF t, f
    <3> QED BY <3>2 DEF Opened
  <2> HIDE DEF t, f
  <2>4. /\ IsProcess(r) /\ r.prog = q.prog /\ r.pc = "read" /\ r.fds = t /\ r.child = q.child /\ r.fd = f
    BY <1>2 DEF IsProcess
  <2>5. proc' = [proc EXCEPT ![p] = r]
    BY <1>2, <2>1 DEF IsProcess
  <2>6. f # 0 /\ f # 1 /\ 0 \in Fd /\ 1 \in Fd
    BY <1>2, <2>2, FirstFds
  <2>7. r.fds[0] = q.fds[0] /\ r.fds[1] = q.fds[1] /\ IsTable(r.fds)
    BY <2>3, <2>4, <2>6
  <2>8. r.fd \in Fd \ {0, 1} /\ r.prog = "cat"
    BY <1>1, <2>2, <2>4, <2>6
  <2> HIDE DEF r
  <2>9. Quiet(q, r)
    BY <1>1, <2>4, <2>7, <2>8 DEF Quiet
  <2> QED BY <1>1, <2>5, <2>9, QuietStep
<1>5. CASE cat_read(p)
  <2> DEFINE f == q.fd
  <2>1. q.pc = "read" /\ f \in Fd \ {0, 1}
    BY <1>1, <1>5, InvOf DEF cat_read, At, TableOk
  <2>2. PICK data, pc :
           /\ proc' = [proc EXCEPT ![p].out = @ \o data, ![p].fds = syscall_read(@, f, data), ![p].pc = pc]
           /\ pc \in {"newline", "read"}
    <3>1. PICK data :
             proc' = [proc EXCEPT ![p].out = @ \o data, ![p].fds = syscall_read(@, f, data),
                                  ![p].pc = IF Len(data) < CATBUF THEN "newline" ELSE "read"]
      BY <1>5, Zenon DEF cat_read
    <3>2. (IF Len(data) < CATBUF THEN "newline" ELSE "read") \in {"newline", "read"}
      OBVIOUS
    <3> QED BY <3>1, <3>2, Zenon
  <2> DEFINE t == syscall_read(q.fds, f, data)
             r == [q EXCEPT !.out = q.out \o data, !.fds = t, !.pc = pc]
  <2>3. IsTable(t) /\ t[0] = q.fds[0] /\ t[1] = q.fds[1]
    <3>1. PICK o : t = [q.fds EXCEPT ![f].offset = o]
      BY DEF syscall_read
    <3>2. DOMAIN q.fds = Fd
      BY <1>2 DEF IsTable
    <3>3. /\ \A k \in Fd : k # f => t[k] = q.fds[k]
          /\ t[f] = [q.fds[f] EXCEPT !.offset = o]
          /\ t = [k \in Fd |-> t[k]]
      BY <2>1, <3>1, <3>2
    <3>4. IsFile(t[f])
      BY <1>2, <2>1, <3>3 DEF IsTable, IsFile
    <3> HIDE DEF t
    <3>5. IsTable(t)
      BY <1>2, <3>3, <3>4 DEF IsTable
    <3> QED BY <2>1, <3>3, <3>5, FirstFds
  <2> HIDE DEF t
  <2>4. /\ IsProcess(r) /\ r.prog = q.prog /\ r.pc = pc /\ r.fds = t /\ r.child = q.child /\ r.fd = f
    BY <1>2 DEF IsProcess
  <2>5. proc' = [proc EXCEPT ![p] = r]
    BY <1>2, <2>2 DEF IsProcess, t
  <2> HIDE DEF r
  <2>6. Quiet(q, r)
    BY <1>1, <2>1, <2>3, <2>4 DEF Quiet
  <2> QED BY <1>1, <2>5, <2>6, QuietStep
<1>6. CASE cat_newline(p)
  <2> DEFINE o == Append(q.out, Newline)
             r == [q EXCEPT !.out = o, !.pc = "close"]
  <2>1. q.pc = "newline" /\ q.fd \in Fd \ {0, 1}
    BY <1>1, <1>6, InvOf DEF cat_newline, At, TableOk
  <2>2. proc' = [proc EXCEPT ![p].out = o, ![p].pc = "close"]
    BY <1>2, <1>6 DEF cat_newline, IsProcess
  <2> HIDE DEF o
  <2>3. /\ IsProcess(r) /\ r.prog = q.prog /\ r.pc = "close" /\ r.fds = q.fds /\ r.child = q.child
        /\ r.fd = q.fd
    BY <1>2 DEF IsProcess
  <2>4. proc' = [proc EXCEPT ![p] = r]
    BY <1>2, <2>2 DEF IsProcess
  <2> HIDE DEF r
  <2>5. Quiet(q, r)
    BY <1>1, <1>2, <2>1, <2>3 DEF Quiet
  <2> QED BY <1>1, <2>4, <2>5, QuietStep
<1>7. CASE cat_close(p)
  <2> DEFINE t == Close(q.fds, q.fd)
             r == [q EXCEPT !.fds = t, !.pc = "exited"]
  <2>1. q.pc = "close" /\ q.fd \in Fd \ {0, 1}
    BY <1>1, <1>7, InvOf DEF cat_close, At, TableOk
  <2>2. IsTable(t) /\ t[0] = q.fds[0] /\ t[1] = q.fds[1]
    BY ZenonT(60), <1>2, <2>1, CloseIs, FirstFds
  <2>3. proc' = [proc EXCEPT ![p].fds = t, ![p].pc = "exited"]
    BY <1>2, <1>7 DEF cat_close, IsProcess
  <2> HIDE DEF t
  <2>4. /\ IsProcess(r) /\ r.prog = q.prog /\ r.pc = "exited" /\ r.fds = t /\ r.child = q.child
    BY <1>2 DEF IsProcess
  <2>5. proc' = [proc EXCEPT ![p] = r]
    BY <1>2, <2>3 DEF IsProcess
  <2> HIDE DEF r
  <2>6. Quiet(q, r)
    BY <1>1, <2>2, <2>4 DEF Quiet
  <2> QED BY <1>1, <2>5, <2>6, QuietStep
<1> QED BY <1>3, <1>4, <1>5, <1>6, <1>7

\* ls opens nothing.
LEMMA LsStep ==
    ASSUME FilesInv, NEW p \in Pid, ls_start(p) \/ ls_readdir(p) \/ ls_stat(p)
    PROVE  FilesInv'
<1> DEFINE q == proc[p]
<1>1. q.prog = "ls" /\ next_pid' = next_pid /\ g_ptys' = g_ptys
  BY DEF ls_start, ls_readdir, ls_stat, At, Globals
<1>2. IsProcess(q) /\ IsTable(q.fds) /\ DOMAIN proc = Pid
  BY InvOf
<1>3. CASE Goes(p, "exited")
  BY <1>1, <1>3, GoesStep DEF Goes
<1>4. CASE ls_start(p)
  <2>1. PICK was : proc' = [proc EXCEPT ![p].was = was, ![p].pc = "readdir"]
    BY <1>4 DEF ls_start
  <2> DEFINE r == [q EXCEPT !.was = was, !.pc = "readdir"]
  <2>2. IsProcess(r) /\ r.prog = q.prog /\ r.fds = q.fds /\ r.child = q.child
    BY <1>2 DEF IsProcess
  <2>3. proc' = [proc EXCEPT ![p] = r]
    BY <1>2, <2>1 DEF IsProcess
  <2> HIDE DEF r
  <2>4. Quiet(q, r)
    BY <1>1, <1>2, <2>2 DEF Quiet
  <2> QED BY <1>1, <2>3, <2>4, QuietStep
<1>5. CASE ls_readdir(p) /\ ~Goes(p, "exited")
  <2>1. PICK e : proc' = [proc EXCEPT ![p].out = Append(@, e), ![p].pc = "stat"]
    BY <1>5 DEF ls_readdir
  <2> DEFINE r == [q EXCEPT !.out = Append(q.out, e), !.pc = "stat"]
  <2>2. IsProcess(r) /\ r.prog = q.prog /\ r.fds = q.fds /\ r.child = q.child
    BY <1>2 DEF IsProcess
  <2>3. proc' = [proc EXCEPT ![p] = r]
    BY <1>2, <2>1 DEF IsProcess
  <2> HIDE DEF r
  <2>4. Quiet(q, r)
    BY <1>1, <1>2, <2>2 DEF Quiet
  <2> QED BY <1>1, <2>3, <2>4, QuietStep
<1>6. CASE ls_stat(p)
  <2>1. PICK n : proc' = [proc EXCEPT ![p].out[Len(proc[p].out)].node = n, ![p].pc = "readdir"]
    BY <1>6 DEF ls_stat
  <2> DEFINE o == [q.out EXCEPT ![Len(q.out)].node = n]
             r == [q EXCEPT !.out = o, !.pc = "readdir"]
  <2>2. proc' = [proc EXCEPT ![p] = r]
    BY <1>2, <2>1 DEF IsProcess
  <2> HIDE DEF o
  <2>3. IsProcess(r) /\ r.prog = q.prog /\ r.fds = q.fds /\ r.child = q.child
    BY <1>2 DEF IsProcess
  <2> HIDE DEF r
  <2>4. Quiet(q, r)
    BY <1>1, <1>2, <2>3 DEF Quiet
  <2> QED BY <1>1, <2>2, <2>4, QuietStep
<1> QED BY <1>3, <1>4, <1>5, <1>6

\* A terminal on its way to its loop: r is what it becomes.
Steps(q, r, ptys) ==
    /\ q.prog = "terminal"
    /\ IsProcess(r) /\ r.prog = "terminal" /\ r.pc # "loop" /\ r.child = q.child
    /\ IsTable(r.fds) /\ r.fds[0] # Unused /\ r.fds[1] # Unused
    /\ r.pc \in {"window", "pty"} => r.fds[2] # Unused
    /\ MasterOk(r, ptys)

\* Such a step.
LEMMA TerminalStep ==
    ASSUME FilesInv, NEW p \in Pid, NEW r, Steps(proc[p], r, g_ptys'),
           HoldsPty(r) => (HoldsPty(proc[p]) /\ Mine(r) = Mine(proc[p])) \/ Mine(r) = g_ptys,
           proc' = [proc EXCEPT ![p] = r], next_pid' = next_pid, g_ptys' \in g_ptys..PTY_MAX
    PROVE  FilesInv'
<1>1. proc[p].child \in 0..(next_pid - 1)
  BY InvOf
<1>2. TableOk(r)
  BY DEF TableOk, Steps
<1>3. ProcessOk(r, next_pid, g_ptys')
  BY <1>1, <1>2 DEF ProcessOk, Steps
<1>4. proc[p].prog # "none" /\ ~(r.prog = "terminal" /\ r.pc = "loop")
  BY DEF Steps
<1>5. proc[p].prog = "shell" => r.prog = "shell" /\ r.fds = proc[p].fds
  BY DEF Steps
<1> QED BY <1>3, <1>4, <1>5, OneStep

\* After reserve_stdio_fds files 0 to 2 are in use.
LEMMA ReserveStep ==
    ASSUME FilesInv, NEW p \in Pid, reserve_stdio_fds(p)
    PROVE  FilesInv'
<1> DEFINE q == proc[p]
           null == Node("null", 0)
           f == FreeFd(q.fds)
           u == alloc_fd(q.fds, null, RDWR)
           t == IF f > 2 THEN Close(u, f) ELSE u
           r == [q EXCEPT !.fds = t, !.pc = "window"]
<1>1. /\ q.prog = "terminal" /\ next_pid' = next_pid /\ g_ptys' = g_ptys
      /\ g_ptys' \in g_ptys..PTY_MAX
  BY FilesAssumption DEF reserve_stdio_fds, At, Globals, FilesInv
<1>2. /\ IsProcess(q) /\ IsTable(q.fds) /\ DOMAIN proc = Pid
      /\ q.fds[0] # Unused /\ q.fds[1] # Unused
  BY <1>1, InvOf DEF TableOk
<1>3. proc' = [proc EXCEPT ![p].fds = t, ![p].pc = "window"]
  BY DEF reserve_stdio_fds
<1>4. IsTable(t) /\ t[0] # Unused /\ t[1] # Unused /\ t[2] # Unused
  <2> HIDE DEF null
  <2>0. null # NoNode
    BY DEF null, NoNode, Node
  <2>1. CASE f = -1
    <3>1. u = q.fds
      BY <2>1 DEF alloc_fd
    <3>2. t = q.fds
      BY <2>1, <3>1
    <3>3. \A k \in Fd : q.fds[k] # Unused
      BY <2>1, FreeFdIs, FirstFds
    <3> QED BY <1>2, <3>2, <3>3, FirstFds
  <2>2. CASE f # -1
    <3>1. Opened(q.fds, u, f, null)
      BY <1>2, <2>2, AllocIs, Zenon
    <3> HIDE DEF u, f
    <3>2. CASE f > 2
      <4>1. t = Close(u, f) /\ f # 0 /\ f # 1 /\ f # 2 /\ f \in Fd /\ IsTable(u)
        BY <3>1, <3>2 DEF Opened
      <4>2. IsTable(t) /\ \A k \in Fd : k # f => t[k] = u[k]
        BY <4>1, CloseIs
      <4>3. \A k \in Fd : k # f => u[k] = q.fds[k]
        BY <3>1 DEF Opened
      <4>4. q.fds[2] # Unused
        BY <3>1, <3>2, FirstFds DEF Opened
      <4> HIDE DEF t
      <4> QED BY <1>2, <4>1, <4>2, <4>3, <4>4, FirstFds
    <3>3. CASE ~(f > 2)
      <4>1. t = u /\ f \in Fd /\ IsTable(u) /\ q.fds[f] = Unused /\ u[f].node = null
        BY <3>1, <3>3 DEF Opened
      <4>2. f = 2
        BY <1>2, <3>3, <4>1 DEF Fd
      <4>3. \A k \in Fd : k # f => u[k] = q.fds[k]
        BY <3>1 DEF Opened
      <4>4. u[2] # Unused
        BY <2>0, <4>1, <4>2 DEF Unused
      <4> HIDE DEF t
      <4> QED BY <1>2, <4>1, <4>2, <4>3, <4>4, FirstFds
    <3> QED BY <3>2, <3>3
  <2> QED BY <2>1, <2>2
<1> HIDE DEF t
<1>5. IsProcess(r) /\ r.prog = q.prog /\ r.pc = "window" /\ r.fds = t /\ r.child = q.child
  BY <1>2 DEF IsProcess
<1>6. proc' = [proc EXCEPT ![p] = r]
  BY <1>2, <1>3 DEF IsProcess
<1> HIDE DEF r
<1>7. ~HoldsPty(r)
  BY <1>5 DEF HoldsPty
<1>8. Steps(q, r, g_ptys')
  BY <1>1, <1>4, <1>5, <1>7 DEF Steps, MasterOk
<1> QED BY <1>1, <1>6, <1>7, <1>8, TerminalStep

\* The window needs a file for a moment.
LEMMA WindowStep ==
    ASSUME FilesInv, NEW p \in Pid, open_window(p)
    PROVE  FilesInv'
<1>1. proc[p].prog = "terminal" /\ proc[p].pc = "window" /\ next_pid' = next_pid /\ g_ptys' = g_ptys
  BY DEF open_window, At, Globals
<1>2. Goes(p, "exited") \/ Goes(p, "pty")
  BY DEF open_window
<1>3. PICK pc \in {"exited", "pty"} : proc' = [proc EXCEPT ![p].pc = pc]
  BY <1>2 DEF Goes
<1> QED BY <1>1, <1>3, GoesStep

\* The new pty has a number of its own, and its master a file above 2.
LEMMA SetupStep ==
    ASSUME FilesInv, NEW p \in Pid, setup_pty(p)
    PROVE  FilesInv'
<1> DEFINE q == proc[p]
           master == Node("master", g_ptys)
           f == FreeFd(q.fds)
           t == alloc_fd(q.fds, master, RDWR)
           path == <<"dev", "pts", ToString(g_ptys)>>
           pc == IF f = -1 THEN "exited" ELSE "stdio"
           r == [q EXCEPT !.fds = t, !.fd = f, !.path = path, !.pc = pc]
<1>1. q.prog = "terminal" /\ q.pc = "pty" /\ next_pid' = next_pid
  BY DEF setup_pty, At
<1>2. /\ IsProcess(q) /\ IsTable(q.fds) /\ DOMAIN proc = Pid
      /\ q.fds[0] # Unused /\ q.fds[1] # Unused /\ q.fds[2] # Unused
  BY <1>1, InvOf DEF TableOk
<1>3. CASE Goes(p, "exited") /\ g_ptys' = g_ptys
  BY <1>1, <1>3, GoesStep DEF Goes
<1>4. CASE ~(Goes(p, "exited") /\ g_ptys' = g_ptys)
  <2>1. /\ g_ptys < PTY_MAX /\ g_ptys' = g_ptys + 1
        /\ proc' = [proc EXCEPT ![p].fds = t, ![p].fd = f, ![p].path = path, ![p].pc = pc]
    BY <1>4 DEF setup_pty, pty_create
  <2>2. g_ptys \in Nat /\ g_ptys' \in g_ptys..PTY_MAX /\ g_ptys \in 0..(g_ptys' - 1)
    BY <2>1, FilesAssumption DEF FilesInv
  <2>3. CASE f = -1
    <3>1. t = q.fds /\ pc = "exited"
      BY <2>3 DEF alloc_fd
    <3> HIDE DEF t, f, path, pc
    <3>2. IsProcess(r) /\ r.prog = q.prog /\ r.pc = pc /\ r.fds = t /\ r.child = q.child
      BY <1>2 DEF IsProcess
    <3>3. proc' = [proc EXCEPT ![p] = r]
      BY <1>2, <2>1 DEF IsProcess
    <3> HIDE DEF r
    <3>4. ~HoldsPty(r)
      BY <3>1, <3>2 DEF HoldsPty
    <3>5. Steps(q, r, g_ptys')
      BY <1>1, <1>2, <3>1, <3>2, <3>4 DEF Steps, MasterOk
    <3> QED BY <1>1, <2>2, <3>3, <3>4, <3>5, TerminalStep
  <2>4. CASE f # -1
    <3> HIDE DEF master
    <3>1. Opened(q.fds, t, f, master) /\ pc = "stdio"
      BY <1>2, <2>4, AllocIs, Zenon
    <3> HIDE DEF t, f, path, pc
    <3>2. IsProcess(r) /\ r.prog = q.prog /\ r.pc = pc /\ r.fds = t /\ r.child = q.child /\ r.fd = f /\ r.path = path
      BY <1>2 DEF IsProcess
    <3>3. proc' = [proc EXCEPT ![p] = r]
      BY <1>2, <2>1 DEF IsProcess
    <3> HIDE DEF r
    <3>4. f \in Fd \ (0..2) /\ IsTable(t) /\ t[f].node = master /\ t[0] = q.fds[0] /\ t[1] = q.fds[1] /\ t[2] = q.fds[2]
      <4>1. f \in Fd /\ f # 0 /\ f # 1 /\ f # 2
        BY <1>2, <3>1 DEF Opened
      <4>2. f \notin 0..2
        BY <4>1, FirstFds
      <4> QED BY <3>1, <4>1, <4>2, FirstFds DEF Opened
    <3>5. Mine(r) = g_ptys /\ HoldsPty(r) /\ r.fds[r.fd].node = Node("master", Mine(r))
      BY <1>1, <3>1, <3>2, <3>4 DEF Mine, HoldsPty, master, Node
    <3>6. MasterOk(r, g_ptys')
      BY <2>2, <3>1, <3>2, <3>4, <3>5 DEF MasterOk, path
    <3>7. Steps(q, r, g_ptys')
      BY <1>1, <1>2, <3>1, <3>2, <3>4, <3>6 DEF Steps
    <3> QED BY <1>1, <2>2, <3>3, <3>5, <3>7, TerminalStep
  <2> QED BY <2>3, <2>4
<1> QED BY <1>3, <1>4

\* Files 0 to 2 are closed and opened again in that order; the master stays.
LEMMA ThreeOpened ==
    ASSUME NEW t, IsTable(t), NEW node, node # NoNode
    PROVE  LET closed == Close(Close(Close(t, 0), 1), 2)
               u == alloc_fd(alloc_fd(alloc_fd(closed, node, RDWR), node, RDWR), node, RDWR)
           IN  /\ IsTable(u)
               /\ \A f \in 0..2 : u[f].node = node
               /\ \A f \in Fd \ (0..2) : u[f] = t[f]
<1> DEFINE c0 == Close(t, 0)
           c1 == Close(c0, 1)
           c2 == Close(c1, 2)
           u0 == alloc_fd(c2, node, RDWR)
           u1 == alloc_fd(u0, node, RDWR)
           u2 == alloc_fd(u1, node, RDWR)
<1>1. /\ IsTable(c2) /\ c2[0] = Unused /\ c2[1] = Unused /\ c2[2] = Unused
      /\ \A k \in Fd \ (0..2) : c2[k] = t[k]
  <2>1. IsTable(c0) /\ c0[0] = Unused /\ \A k \in Fd : k # 0 => c0[k] = t[k]
    BY CloseIs, FirstFds
  <2> HIDE DEF c0
  <2>2. IsTable(c1) /\ c1[1] = Unused /\ \A k \in Fd : k # 1 => c1[k] = c0[k]
    BY <2>1, CloseIs, FirstFds
  <2> HIDE DEF c1
  <2>3. IsTable(c2) /\ c2[2] = Unused /\ \A k \in Fd : k # 2 => c2[k] = c1[k]
    BY <2>2, CloseIs, FirstFds
  <2> HIDE DEF c2
  <2> QED BY <2>1, <2>2, <2>3, FirstFds
<1> HIDE DEF c2
<1>2. ASSUME NEW v, IsTable(v), NEW f \in 0..2, v[f] = Unused, \A k \in 0..(f - 1) : v[k].node = node
      PROVE  FreeFd(v) = f /\ Opened(v, alloc_fd(v, node, RDWR), f, node)
  <2>1. f \in Fd /\ f \in Nat /\ 0..(f - 1) \subseteq Fd
    BY FilesAssumption DEF Fd
  <2>2. \A k \in 0..(f - 1) : v[k] # Unused
    BY <1>2 DEF Unused
  <2>3. FreeFd(v) = f
    <3>1. \/ FreeFd(v) = -1 /\ \A k \in Fd : v[k] # Unused
          \/ /\ FreeFd(v) \in Fd /\ v[FreeFd(v)] = Unused
             /\ \A k \in Fd : k < FreeFd(v) => v[k] # Unused
      BY FreeFdIs
    <3>2. FreeFd(v) \in Nat /\ v[FreeFd(v)] = Unused /\ ~(f < FreeFd(v))
      BY <1>2, <2>1, <3>1, FirstFds
    <3>3. ~(FreeFd(v) < f)
      BY <2>1, <2>2, <3>2
    <3> QED BY <2>1, <3>2, <3>3
  <2>4. FreeFd(v) # -1
    BY <2>1, <2>3
  <2>5. Opened(v, alloc_fd(v, node, RDWR), FreeFd(v), node)
    BY <1>2, <2>4, AllocIs, Zenon
  <2> QED BY <2>3, <2>5
<1>3. Opened(c2, u0, 0, node)
  BY <1>1, <1>2
<1> HIDE DEF u0
<1>4. IsTable(u0) /\ u0[0].node = node /\ u0[1] = Unused /\ u0[2] = Unused
      /\ \A k \in Fd \ (0..2) : u0[k] = t[k]
  <2>1. IsTable(u0) /\ u0[0].node = node /\ \A k \in Fd : k # 0 => u0[k] = c2[k]
    BY <1>3 DEF Opened
  <2>2. \A k \in Fd \ (0..2) : k \in Fd /\ k # 0
    OBVIOUS
  <2>3. u0[1] = Unused /\ u0[2] = Unused
    BY <1>1, <2>1, FirstFds
  <2> QED BY <1>1, <2>1, <2>2, <2>3
<1>5. Opened(u0, u1, 1, node)
  <2>1. 1 \in 0..2 /\ \A k \in 0..(1 - 1) : u0[k].node = node
    BY <1>4
  <2> QED BY <1>2, <1>4, <2>1
<1> HIDE DEF u1
<1>6. IsTable(u1) /\ u1[0].node = node /\ u1[1].node = node /\ u1[2] = Unused
      /\ \A k \in Fd \ (0..2) : u1[k] = t[k]
  BY <1>4, <1>5, FirstFds DEF Opened
<1>7. Opened(u1, u2, 2, node)
  <2>1. 2 \in 0..2 /\ \A k \in 0..(2 - 1) : u1[k].node = node
    BY <1>6
  <2> QED BY <1>2, <1>6, <2>1
<1> HIDE DEF u2
<1>8. IsTable(u2) /\ u2[0].node = node /\ u2[1].node = node /\ u2[2].node = node
      /\ \A k \in Fd \ (0..2) : u2[k] = t[k]
  BY <1>6, <1>7, FirstFds DEF Opened
<1>9. \A f \in 0..2 : u2[f].node = node
  BY <1>8
<1> QED BY <1>8, <1>9 DEF u2, u1, u0, c2

\* The slave replaces files 0 to 2.
LEMMA SpawnFiles ==
    ASSUME FilesInv, NEW p \in Pid, spawn_shell_files(p)
    PROVE  FilesInv'
<1> DEFINE q == proc[p]
           g == Mine(q)
           slave == Node("slave", g)
           closed == Close(Close(Close(q.fds, 0), 1), 2)
           t == alloc_fd(alloc_fd(alloc_fd(closed, slave, RDWR), slave, RDWR), slave, RDWR)
           r == [q EXCEPT !.fds = t, !.pc = "exec"]
<1>1. /\ q.prog = "terminal" /\ q.pc = "stdio" /\ next_pid' = next_pid /\ g_ptys' = g_ptys
      /\ g_ptys' \in g_ptys..PTY_MAX
  <2>1. /\ q.prog = "terminal" /\ q.pc = "stdio" /\ next_pid' = next_pid /\ g_ptys' = g_ptys
    BY Zenon DEF spawn_shell_files, At, Globals
  <2>2. g_ptys \in 0..PTY_MAX /\ PTY_MAX \in Nat
    BY FilesAssumption, Zenon DEF FilesInv
  <2>3. g_ptys \in g_ptys..PTY_MAX
    BY <2>2
  <2> QED BY <2>1, <2>3, Zenon
<1>2. HoldsPty(q)
  BY <1>1 DEF HoldsPty
<1>3. /\ IsProcess(q) /\ IsTable(q.fds) /\ DOMAIN proc = Pid /\ MasterOk(q, g_ptys)
  BY InvOf
<1>4. /\ q.fd \in Fd \ (0..2) /\ g \in 0..(g_ptys - 1) /\ q.fds[q.fd].node = Node("master", g)
      /\ q.path = <<"dev", "pts", ToString(g)>>
  BY <1>1, <1>2, <1>3 DEF MasterOk
<1> HIDE DEF g
<1>5. vfs_lookup(q.path) = slave
  <2>1. g \in 0..PTY_MAX /\ g < g_ptys /\ g_ptys \in 0..PTY_MAX
    BY <1>4, FilesAssumption DEF FilesInv
  <2> QED BY <1>4, <2>1, LookupPty
<1>6. slave # NoNode
  BY DEF NoNode, Node
<1> HIDE DEF slave
<1>7. IsTable(t) /\ (\A f \in 0..2 : t[f].node = slave) /\ \A f \in Fd \ (0..2) : t[f] = q.fds[f]
  BY <1>3, <1>6, ThreeOpened
<1>8. proc' = [proc EXCEPT ![p].fds = t, ![p].pc = "exec"]
  <2> HIDE DEF closed
  <2>1. proc' = [proc EXCEPT ![p].fds = t,
                   ![p].pc = IF slave # NoNode /\ \A f \in 0..2 : t[f].node = slave THEN "exec" ELSE "exited"]
    BY <1>5 DEF spawn_shell_files, closed
  <2> HIDE DEF t
  <2> QED BY <1>6, <1>7, <2>1
<1> HIDE DEF t
<1>9. IsProcess(r) /\ r.prog = q.prog /\ r.pc = "exec" /\ r.fds = t /\ r.child = q.child /\ r.fd = q.fd
  BY <1>3 DEF IsProcess
<1>10. proc' = [proc EXCEPT ![p] = r]
  BY <1>3, <1>8 DEF IsProcess
<1> HIDE DEF r
<1>11. Mine(r) = g /\ r.fds[r.fd].node = Node("master", g)
  BY <1>4, <1>7, <1>9 DEF Mine, Node
<1>12. OnPty(r, g)
  BY <1>7, <1>9 DEF OnPty, slave
<1>13. MasterOk(r, g_ptys')
  BY <1>1, <1>4, <1>9, <1>11, <1>12 DEF MasterOk
<1>14. r.fds[0] # Unused /\ r.fds[1] # Unused
  <2>1. t[0].node = slave /\ t[1].node = slave
    BY <1>7
  <2> QED BY <1>6, <1>9, <2>1 DEF Unused
<1>15. Steps(q, r, g_ptys')
  BY <1>1, <1>7, <1>9, <1>13, <1>14 DEF Steps
<1>16. HoldsPty(proc[p]) /\ Mine(r) = Mine(proc[p])
  BY <1>2, <1>11 DEF g
<1> QED BY <1>1, <1>10, <1>15, <1>16, TerminalStep

\* A terminal ends.
LEMMA ExitStep ==
    ASSUME FilesInv, NEW p \in Pid, terminal_exit(p)
    PROVE  FilesInv'
<1>1. /\ proc[p].prog = "terminal" /\ next_pid' = next_pid /\ g_ptys' = g_ptys
      /\ proc' = [proc EXCEPT ![p] = Gone]
  BY DEF terminal_exit, At, Globals
<1>2. next_pid \in Nat \ {0} /\ g_ptys' \in g_ptys..PTY_MAX
  BY <1>1, FilesAssumption DEF FilesInv
<1>3. ProcessOk(Gone, next_pid, g_ptys') /\ Gone.prog = "none" /\ ~HoldsPty(Gone)
  BY <1>2, GoneOk
<1>4. proc[p].prog # "none" /\ ~(Gone.prog = "terminal" /\ Gone.pc = "loop") /\ proc[p].prog # "shell"
  BY <1>1, <1>3
<1> QED BY <1>1, <1>2, <1>3, <1>4, OneStep

\* The console's shell has the tty as files 0 and 1.
LEMMA FilesInitial == Init => FilesInv
<1> SUFFICES ASSUME Init PROVE FilesInv
  OBVIOUS
<1> DEFINE r == [Nobody EXCEPT !.prog = "shell", !.pc = "ready", !.fds = proc_init_fd_table]
<1>1. /\ next_pid = 2 /\ g_ptys = 0
      /\ proc = [p \in Pid |-> IF p = 1 THEN r ELSE Nobody]
  BY DEF Init
<1>2. /\ IsProcess(r) /\ r.prog = "shell" /\ r.pc = "ready" /\ r.fds = proc_init_fd_table /\ r.child = 0
  BY DEF Nobody, IsProcess
<1>3. IsTable(proc_init_fd_table) /\ proc_init_fd_table[0] # Unused /\ proc_init_fd_table[1] # Unused
  BY FirstFds DEF proc_init_fd_table, IsTable, IsFile, Unused, tty, NoNode, Node
<1> HIDE DEF r
<1>4. ProcessOk(r, 2, 0) /\ ~HoldsPty(r)
  BY <1>2, <1>3 DEF ProcessOk, TableOk, MasterOk, HoldsPty
<1>5. ProcessOk(Nobody, 2, 0) /\ Nobody.prog = "none" /\ ~HoldsPty(Nobody)
  <2>1. ProcessOk(Nobody, 2, 0)
    BY GoneOk
  <2>2. Nobody.prog = "none"
    BY DEF Nobody
  <2> QED BY <2>1, <2>2 DEF HoldsPty
<1>6. \A p \in Pid : proc[p] = (IF p = 1 THEN r ELSE Nobody)
  BY <1>1
<1>7. \A p \in Pid : ProcessOk(proc[p], next_pid, g_ptys) /\ ~HoldsPty(proc[p])
  BY <1>1, <1>4, <1>5, <1>6
<1>8. \A p \in Pid : p >= next_pid => proc[p].prog = "none"
  BY <1>1, <1>5, <1>6
<1>9. PtysApart /\ ShellOnPty
  BY <1>7 DEF PtysApart, ShellOnPty, At, HoldsPty
<1>10. next_pid \in 2..(MaxProc + 1) /\ g_ptys \in 0..PTY_MAX
  BY <1>1, FilesAssumption
<1>11. proc = [p \in Pid |-> proc[p]]
  BY <1>1
<1> QED BY <1>7, <1>8, <1>9, <1>10, <1>11 DEF FilesInv

\* Every step keeps the invariant.
LEMMA FilesInductive == FilesInv /\ [Next]_vars => FilesInv'
<1> SUFFICES ASSUME FilesInv, [Next]_vars PROVE FilesInv'
  OBVIOUS
<1>1. CASE UNCHANGED vars
  BY <1>1 DEF vars, FilesInv, PtysApart, ShellOnPty, At
<1>2. ASSUME NEW p \in Pid, shell_exec(p) \/ background_click(p) PROVE FilesInv'
  BY <1>2, ShellExec
<1>3. ASSUME NEW p \in Pid, shell_wait(p) PROVE FilesInv'
  BY <1>3, ShellWait
<1>4. ASSUME NEW p \in Pid, syscall_chdir(p) PROVE FilesInv'
  BY <1>4, ChdirStep
<1>5. ASSUME NEW p \in Pid, cat_open(p) \/ cat_read(p) \/ cat_newline(p) \/ cat_close(p) PROVE FilesInv'
  BY <1>5, CatStep
<1>6. ASSUME NEW p \in Pid, ls_start(p) \/ ls_readdir(p) \/ ls_stat(p) PROVE FilesInv'
  BY <1>6, LsStep
<1>7. ASSUME NEW p \in Pid, reserve_stdio_fds(p) PROVE FilesInv'
  BY <1>7, ReserveStep
<1>8. ASSUME NEW p \in Pid, open_window(p) PROVE FilesInv'
  BY <1>8, WindowStep
<1>9. ASSUME NEW p \in Pid, setup_pty(p) PROVE FilesInv'
  BY <1>9, SetupStep
<1>10. ASSUME NEW p \in Pid, spawn_shell_files(p) PROVE FilesInv'
  BY <1>10, SpawnFiles
<1>11. ASSUME NEW p \in Pid, spawn_shell_exec(p) PROVE FilesInv'
  BY <1>11, SpawnExec
<1>12. ASSUME NEW p \in Pid, terminal_exit(p) PROVE FilesInv'
  BY <1>12, ExitStep
<1> QED BY <1>1, <1>2, <1>3, <1>4, <1>5, <1>6, <1>7, <1>8, <1>9, <1>10, <1>11, <1>12 DEF Next

\* The invariant says what the property says.
LEMMA FilesMeans == FilesInv => TerminalConnected
<1> SUFFICES ASSUME FilesInv, NEW p \in Pid, At(p, "terminal", "loop")
             PROVE  LET master == proc[p].fds[proc[p].fd].node
                    IN  /\ master.kind = "master"
                        /\ \A f \in 0..2 : proc[proc[p].child].fds[f].node = Node("slave", master.id)
                        /\ \A o \in Pid \ {p} : At(o, "terminal", "loop") => proc[o].fds[proc[o].fd].node # master
  BY DEF TerminalConnected
<1>1. HoldsPty(proc[p])
  BY DEF HoldsPty, At
<1>2. proc[p].fds[proc[p].fd].node = Node("master", Mine(proc[p]))
  BY <1>1, InvOf DEF MasterOk
<1>3. proc[p].fds[proc[p].fd].node.kind = "master" /\ proc[p].fds[proc[p].fd].node.id = Mine(proc[p])
  BY <1>2 DEF Mine, Node
<1>4. OnPty(proc[proc[p].child], Mine(proc[p]))
  BY DEF FilesInv, ShellOnPty
<1>5. ASSUME NEW o \in Pid \ {p}, At(o, "terminal", "loop")
      PROVE  proc[o].fds[proc[o].fd].node # proc[p].fds[proc[p].fd].node
  <2>1. HoldsPty(proc[o])
    BY <1>5 DEF HoldsPty, At
  <2>2. Mine(proc[o]) # Mine(proc[p])
    BY <1>1, <2>1 DEF FilesInv, PtysApart
  <2> QED BY <2>2 DEF Mine
<1> QED BY <1>3, <1>4, <1>5 DEF OnPty

\* For every size of the file tables, every number of ptys and processes and
\* every image: a terminal in its loop holds the master of a pty of its own and
\* its shell has that pty's slave as files 0, 1 and 2.  The /dev/null that
\* reserve_stdio_fds opens keeps the master above 2, so the three closes of
\* spawn_shell do not take it, whatever files exec copied.
THEOREM TerminalsConnected == Spec => []TerminalConnected
<1>1. Init => FilesInv
  BY FilesInitial
<1>2. FilesInv /\ [Next]_vars => FilesInv'
  BY FilesInductive
<1>3. FilesInv => TerminalConnected
  BY FilesMeans
<1> QED BY <1>1, <1>2, <1>3, PTL DEF Spec

-----------------------------------------------------------------------------
(* Arithmetic of blocks.                                                   *)

\* A product with a natural number is monotonic.
LEMMA TimesMono ==
    ASSUME NEW B \in Nat, NEW a \in Int, NEW b \in Int, a <= b
    PROVE  B * a <= B * b /\ B * a \in Int /\ B * b \in Int
<1> DEFINE d == b - a
<1>1. d \in Nat /\ b = a + d
  OBVIOUS
<1>2. B * d \in Nat
  BY <1>1
<1>3. B * (a + d) = B * a + B * d
  BY <1>1
<1> QED BY <1>1, <1>2, <1>3

\* Division with remainder.
LEMMA DivMod ==
    ASSUME NEW B \in Nat \ {0}, NEW u \in Nat
    PROVE  /\ u \div B \in Nat /\ u % B \in 0..(B - 1)
           /\ u = B * (u \div B) + (u % B)
<1>1. B \in Nat /\ B > 0
  OBVIOUS
<1> DEFINE d == u \div B
           m == u % B
<1>2. d \in Nat /\ m \in 0..(B - 1) /\ u = B * d + m
  BY <1>1
<1> HIDE DEF d, m
<1>3. d \in Nat /\ m \in 0..(B - 1)
  BY <1>2
<1>4. u = B * d + m
  BY <1>2
<1> QED BY <1>3, <1>4, Zenon DEF d, m

\* It is the only one.
LEMMA DivUnique ==
    ASSUME NEW B \in Nat \ {0}, NEW q \in Nat, NEW r \in 0..(B - 1)
    PROVE  (B * q + r) \div B = q /\ (B * q + r) % B = r
<1> DEFINE u == B * q + r
           d == u \div B
           m == u % B
<1>1. u \in Nat
  OBVIOUS
<1>2. d \in Nat /\ m \in 0..(B - 1) /\ B * d + m = B * q + r
  BY <1>1, DivMod
<1> HIDE DEF d, m, u
<1>3. ~(d < q)
  <2> SUFFICES ASSUME d < q PROVE FALSE
    OBVIOUS
  <2>1. d + 1 <= q /\ d + 1 \in Int /\ q \in Int
    BY <1>2
  <2>2. B * (d + 1) <= B * q
    BY <2>1, TimesMono
  <2>3. B * (d + 1) = B * d + B
    BY <1>2
  <2> QED BY <1>2, <2>2, <2>3
<1>4. ~(q < d)
  <2> SUFFICES ASSUME q < d PROVE FALSE
    OBVIOUS
  <2>1. q + 1 <= d /\ q + 1 \in Int /\ d \in Int
    BY <1>2
  <2>2. B * (q + 1) <= B * d
    BY <2>1, TimesMono
  <2>3. B * (q + 1) = B * q + B
    BY <1>2
  <2> QED BY <1>2, <2>2, <2>3
<1>5. d = q
  BY <1>2, <1>3, <1>4
<1>6. m = r
  BY <1>2, <1>5
<1> QED BY <1>5, <1>6 DEF d, m, u

\* A function on 1..n is a sequence.
LEMMA FunSeq ==
    ASSUME NEW n \in Nat, NEW f, f = [i \in 1..n |-> f[i]], NEW S, \A i \in 1..n : f[i] \in S
    PROVE  f \in Seq(S) /\ Len(f) = n
<1>1. f \in [1..n -> S]
  OBVIOUS
<1> QED BY <1>1

\* What is read of a function in two parts.
LEMMA TwoParts ==
    ASSUME NEW m \in Nat, NEW n \in Nat, NEW F
    PROVE  [i \in 1..m |-> F[i]] \o [i \in 1..n |-> F[m + i]] = [i \in 1..(m + n) |-> F[i]]
<1> DEFINE S == {F[i] : i \in 1..(m + n)}
           s == [i \in 1..m |-> F[i]]
           t == [i \in 1..n |-> F[m + i]]
           u == [i \in 1..(m + n) |-> F[i]]
<1>1. s \in Seq(S) /\ Len(s) = m
  <2>1. \A i \in 1..m : s[i] = F[i] /\ i \in 1..(m + n)
    OBVIOUS
  <2>2. \A i \in 1..m : s[i] \in S
    BY <2>1
  <2>3. s = [i \in 1..m |-> s[i]]
    OBVIOUS
  <2> HIDE DEF s, S
  <2> QED BY <2>2, <2>3, FunSeq
<1>2. t \in Seq(S) /\ Len(t) = n
  <2>1. \A i \in 1..n : t[i] = F[m + i] /\ m + i \in 1..(m + n)
    OBVIOUS
  <2>2. \A i \in 1..n : t[i] \in S
    BY <2>1
  <2>3. t = [i \in 1..n |-> t[i]]
    OBVIOUS
  <2> HIDE DEF t, S
  <2> QED BY <2>2, <2>3, FunSeq
<1>3. u \in Seq(S) /\ Len(u) = m + n
  <2>1. \A i \in 1..(m + n) : u[i] \in S
    OBVIOUS
  <2>2. u = [i \in 1..(m + n) |-> u[i]] /\ m + n \in Nat
    OBVIOUS
  <2> HIDE DEF u, S
  <2> QED BY <2>1, <2>2, FunSeq
<1>4. \A i \in 1..m : s[i] = F[i]
  OBVIOUS
<1>5. \A i \in 1..n : t[i] = F[m + i]
  OBVIOUS
<1>6. \A i \in 1..(m + n) : u[i] = F[i]
  OBVIOUS
<1> HIDE DEF s, t, u, S
<1>7. /\ s \o t \in Seq(S)
      /\ Len(s \o t) = m + n
      /\ \A i \in 1..(m + n) : (s \o t)[i] = IF i <= m THEN s[i] ELSE t[i - m]
  BY <1>1, <1>2, ConcatProperties
<1>8. ASSUME NEW i \in 1..(m + n) PROVE (s \o t)[i] = u[i]
  <2>1. CASE i <= m
    BY <1>4, <1>6, <1>7, <2>1
  <2>2. CASE ~(i <= m)
    <3>1. i - m \in 1..n /\ m + (i - m) = i
      BY <2>2
    <3>2. (s \o t)[i] = t[i - m]
      BY <1>7, <2>2
    <3>3. t[i - m] = F[m + (i - m)]
      BY <1>5, <3>1
    <3>4. t[i - m] = F[i]
      BY <3>1, <3>3
    <3> QED BY <1>6, <3>2, <3>4
  <2> QED BY <2>1, <2>2
<1>9. s \o t = u
  BY <1>3, <1>7, <1>8, SeqEqual
<1> QED BY <1>9 DEF s, t, u

-----------------------------------------------------------------------------
(* The ext2 reader.                                                        *)

\* A regular file of the image.
LEMMA FileSound ==
    ASSUME NEW i \in DOMAIN Inode, ~Inode[i].dir
    PROVE  /\ Inode[i].size \in Nat
           /\ Inode[i].block \in Seq(0..(ImageBlocks - 1))
           /\ Len(Inode[i].block) = DIRECT + 1
           /\ Inode[i].size > DIRECT * BLOCK /\ Inode[i].block[DIRECT + 1] # 0 =>
                 /\ Indirect[Inode[i].block[DIRECT + 1]] \in Seq(0..(ImageBlocks - 1))
                 /\ Inode[i].size <= (DIRECT + Len(Indirect[Inode[i].block[DIRECT + 1]])) * BLOCK
  BY Ext2Assumption, ImageAssumption

\* The block a byte of a file is in, and the byte.
LEMMA ByteOfBlock ==
    ASSUME NEW i \in DOMAIN Inode, ~Inode[i].dir, NEW j \in Nat, BLOCK * j < Inode[i].size,
           NEW r \in 0..(BLOCK - 1)
    PROVE  LET blk == ext2_get_data_block(Inode[i], j)
           IN  /\ InImage(blk)
               /\ FileByte(Inode[i], BLOCK * j + r) = IF blk = 0 THEN Zero ELSE <<blk, r>>
<1> DEFINE inode == Inode[i]
           blk == ext2_get_data_block(inode, j)
           indir == inode.block[DIRECT + 1]
           there == IF j < DIRECT THEN inode.block[j + 1]
                    ELSE IF indir = 0 THEN 0 ELSE Indirect[indir][j - DIRECT + 1]
<1>1. BLOCK \in Nat \ {0} /\ DIRECT \in Nat \ {0} /\ ImageBlocks \in Nat
  BY Ext2Assumption, ImageAssumption
<1>2. (BLOCK * j + r) \div BLOCK = j /\ (BLOCK * j + r) % BLOCK = r
  BY <1>1, DivUnique
<1>3. FileByte(inode, BLOCK * j + r) = IF there = 0 THEN Zero ELSE <<there, r>>
  <2> DEFINE pos == BLOCK * j + r
  <2>1. pos \div BLOCK = j /\ pos % BLOCK = r
    BY <1>2
  <2> HIDE DEF pos
  <2>2. FileByte(inode, pos) = IF there = 0 THEN Zero ELSE <<there, r>>
    BY <2>1 DEF FileByte
  <2> QED BY <2>2 DEF pos
<1>4. /\ inode.size \in Nat
      /\ inode.block \in Seq(0..(ImageBlocks - 1))
      /\ Len(inode.block) = DIRECT + 1
      /\ inode.size > DIRECT * BLOCK /\ indir # 0 =>
            /\ Indirect[indir] \in Seq(0..(ImageBlocks - 1))
            /\ inode.size <= (DIRECT + Len(Indirect[indir])) * BLOCK
  BY FileSound
<1> HIDE DEF inode
<1>6. Len(inode.block) = DIRECT + 1
  BY <1>4
<1>5. InImage(there) /\ blk = there
  <2>1. CASE j < DIRECT
    <3>1. j + 1 \in 1..Len(inode.block)
      BY <1>1, <1>6, <2>1
    <3>2. inode.block[j + 1] \in 0..(ImageBlocks - 1)
      BY <1>4, <3>1, ElementOfSeq
    <3>3. there = inode.block[j + 1]
      BY <2>1
    <3>4. blk = inode.block[j + 1]
      BY <1>1, <2>1 DEF ext2_get_data_block
    <3> QED BY <1>1, <3>2, <3>3, <3>4 DEF InImage
  <2>2. CASE ~(j < DIRECT) /\ indir = 0
    <3>1. 0 < ImageBlocks
      <4>1. 1 \in 1..Len(inode.block)
        BY <1>1, <1>4
      <4>2. inode.block[1] \in 0..(ImageBlocks - 1)
        BY <1>4, <4>1, ElementOfSeq
      <4> QED BY <1>1, <4>2
    <3>2. there = 0
      BY <2>2
    <3>3. blk = 0
      BY <1>1, <2>2 DEF ext2_get_data_block
    <3> QED BY <3>1, <3>2, <3>3 DEF InImage
  <2>3. CASE ~(j < DIRECT) /\ indir # 0
    <3> DEFINE list == Indirect[indir]
               idx == j - DIRECT
    <3>1. DIRECT * BLOCK < inode.size
      <4>1. BLOCK * DIRECT <= BLOCK * j
        BY <1>1, <2>3, TimesMono
      <4>2. BLOCK * DIRECT = DIRECT * BLOCK /\ BLOCK * j \in Int /\ DIRECT * BLOCK \in Int
        BY <1>1
      <4>3. BLOCK * j < inode.size
        BY DEF inode
      <4> QED BY <1>4, <4>1, <4>2, <4>3
    <3>2. list \in Seq(0..(ImageBlocks - 1)) /\ inode.size <= (DIRECT + Len(list)) * BLOCK
      BY <1>4, <2>3, <3>1
    <3>3. Len(list) \in Nat
      BY <3>2, LenProperties
    <3> HIDE DEF list
    <3>4. j < DIRECT + Len(list)
      <4> SUFFICES ASSUME ~(j < DIRECT + Len(list)) PROVE FALSE
        OBVIOUS
      <4> DEFINE e == DIRECT + Len(list)
      <4>1. e \in Int /\ e <= j
        BY <1>1, <3>3
      <4> HIDE DEF e
      <4>2. BLOCK * e <= BLOCK * j
        BY <1>1, <4>1, TimesMono
      <4>3. BLOCK * e = e * BLOCK /\ BLOCK * e \in Int /\ BLOCK * j \in Int
        BY <1>1, <4>1
      <4>4. BLOCK * j < inode.size /\ inode.size <= e * BLOCK
        BY <3>2 DEF inode, e
      <4> QED BY <1>4, <4>2, <4>3, <4>4
    <3>5. idx + 1 \in 1..Len(list) /\ idx < Len(list) /\ j >= DIRECT
      BY <1>1, <2>3, <3>3, <3>4
    <3>6. list[idx + 1] \in 0..(ImageBlocks - 1)
      BY <3>2, <3>5, ElementOfSeq
    <3>7. InImage(indir)
      <4>1. DIRECT + 1 \in 1..Len(inode.block)
        BY <1>1, <1>4
      <4>2. indir \in 0..(ImageBlocks - 1)
        BY <1>4, <4>1, ElementOfSeq
      <4> QED BY <1>1, <4>2 DEF InImage
    <3>8. there = list[idx + 1]
      BY <2>3 DEF list
    <3>9. blk = list[idx + 1]
      BY <1>1, <2>3, <3>5, <3>7 DEF ext2_get_data_block, list
    <3> QED BY <1>1, <3>6, <3>8, <3>9 DEF InImage
  <2> QED BY <2>1, <2>2, <2>3
<1> QED BY <1>3, <1>5 DEF inode

\* What the loop of ext2_read_file adds for block b - 1 when it has sofar.
CopyBlock(inode, offset, n, b, sofar) ==
    LET blk == ext2_get_data_block(inode, b - 1)
        from == IF b - 1 = offset \div BLOCK THEN offset % BLOCK ELSE 0
    IN  IF ~InImage(blk) THEN sofar
        ELSE sofar \o Bytes(blk, from, Min({BLOCK - from, n - Len(sofar)}))

\* What it has when it comes to block b.
CopiedTo(inode, offset, n) ==
    LET copied[b \in (offset \div BLOCK)..((offset + n - 1) \div BLOCK + 1)] ==
            IF b = offset \div BLOCK THEN << >> ELSE CopyBlock(inode, offset, n, b, copied[b - 1])
    IN  copied

\* C is what it has at the blocks from first to last + 1.
IsCopied(C, inode, offset, n, first, last) ==
    /\ C[first] = << >>
    /\ \A b \in (first + 1)..(last + 1) : C[b] = CopyBlock(inode, offset, n, b, C[b - 1])

\* The recursive definition has a solution.
LEMMA CopiedDef ==
    ASSUME NEW inode, NEW offset \in Nat, NEW n \in Nat \ {0},
           NEW first \in Nat, NEW last \in Nat, first <= last,
           first = offset \div BLOCK, last = (offset + n - 1) \div BLOCK
    PROVE  IsCopied(CopiedTo(inode, offset, n), inode, offset, n, first, last)
<1> DEFINE Step(x, b) == CopyBlock(inode, offset, n, b, x)
           Solves(g, m) == g = [b \in first..(first + m) |-> IF b = first THEN << >> ELSE Step(g[b - 1], b)]
           T == {m \in Nat : \E g : Solves(g, m)}
           N == last + 1 - first
           C == CopiedTo(inode, offset, n)
<1>0. N \in Nat /\ first + N = last + 1
  OBVIOUS
<1> HIDE DEF N
<1>1. 0 \in T
  <2>1. Solves([b \in first..(first + 0) |-> << >>], 0)
    <3> HIDE DEF Step
    <3> QED OBVIOUS
  <2> HIDE DEF Solves
  <2> QED BY <2>1
<1>2. ASSUME NEW m \in 0..(N - 1), m \in T PROVE m + 1 \in T
  <2>1. PICK g : Solves(g, m)
    BY <1>2
  <2> DEFINE f == [b \in first..(first + (m + 1)) |->
                      IF b = first + (m + 1) THEN Step(g[first + m], first + (m + 1)) ELSE g[b]]
  <2>2. ASSUME NEW b \in first..(first + (m + 1))
        PROVE  f[b] = IF b = first THEN << >> ELSE Step(f[b - 1], b)
    <3> HIDE DEF Step
    <3>0. \A x \in first..(first + m) : g[x] = IF x = first THEN << >> ELSE Step(g[x - 1], x)
      BY <2>1
    <3>1. CASE b = first + (m + 1)
      <4>1. f[b] = Step(g[first + m], first + (m + 1)) /\ b - 1 = first + m /\ b # first
        BY <3>1
      <4>2. f[b - 1] = g[first + m]
        BY <4>1
      <4> QED BY <3>1, <4>1, <4>2
    <3>2. CASE b # first + (m + 1)
      <4>1. b \in first..(first + m) /\ f[b] = g[b] /\ (b # first => f[b - 1] = g[b - 1])
        BY <3>2
      <4> QED BY <3>0, <4>1
    <3> QED BY <3>1, <3>2
  <2>3. Solves(f, m + 1)
    <3> HIDE DEF Step
    <3> QED BY <2>2
  <2> HIDE DEF f, Solves
  <2> QED BY <1>0, <2>3
<1>3. N \in T
  <2> HIDE DEF T
  <2>1. \A m \in 0..N : m \in T
    BY <1>0, <1>1, <1>2, UpTo
  <2> QED BY <1>0, <2>1
<1>4. PICK g : g = [b \in first..(last + 1) |-> IF b = first THEN << >> ELSE Step(g[b - 1], b)]
  BY <1>0, <1>3
<1>5. C = CHOOSE c : c = [b \in first..(last + 1) |-> IF b = first THEN << >> ELSE Step(c[b - 1], b)]
  BY DEF CopiedTo
<1> HIDE DEF T, Step, C
<1>6. C = [b \in first..(last + 1) |-> IF b = first THEN << >> ELSE Step(C[b - 1], b)]
  BY <1>4, <1>5
<1>7. \A b \in first..(last + 1) : C[b] = IF b = first THEN << >> ELSE Step(C[b - 1], b)
  BY <1>6
<1>8. first \in first..(last + 1) /\ \A b \in (first + 1)..(last + 1) : b \in first..(last + 1) /\ b # first
  OBVIOUS
<1> QED BY <1>7, <1>8, Zenon DEF Step, C, IsCopied

\* The file's bytes from a position on.
Slice(inode, offset, c) == [k \in 1..c |-> FileByte(inode, offset + k - 1)]

\* Its length, and that it is a sequence.
LEMMA SliceIs ==
    ASSUME NEW inode, NEW offset \in Nat, NEW c \in Nat
    PROVE  /\ Slice(inode, offset, c) \in Seq({FileByte(inode, x) : x \in Nat})
           /\ Len(Slice(inode, offset, c)) = c
           /\ \A k \in 1..c : Slice(inode, offset, c)[k] = FileByte(inode, offset + k - 1)
<1> DEFINE s == Slice(inode, offset, c)
           S == {FileByte(inode, x) : x \in Nat}
<1>1. \A k \in 1..c : s[k] = FileByte(inode, offset + k - 1) /\ offset + k - 1 \in Nat
  BY DEF Slice
<1>2. \A k \in 1..c : s[k] \in S
  BY <1>1
<1>3. s = [k \in 1..c |-> s[k]]
  BY DEF Slice
<1> HIDE DEF s, S
<1>4. s \in Seq(S) /\ Len(s) = c
  BY <1>2, <1>3, FunSeq
<1> QED BY <1>1, <1>4 DEF s, S

\* Two slices that meet are one.
LEMMA SliceJoin ==
    ASSUME NEW inode, NEW offset \in Nat, NEW c \in Nat, NEW m \in Nat
    PROVE  Slice(inode, offset, c) \o Slice(inode, offset + c, m) = Slice(inode, offset, c + m)
<1> DEFINE F == [k \in 1..(c + m) |-> FileByte(inode, offset + k - 1)]
<1>1. [k \in 1..c |-> F[k]] \o [k \in 1..m |-> F[c + k]] = [k \in 1..(c + m) |-> F[k]]
  <2> HIDE DEF F
  <2> QED BY TwoParts
<1>2. \A k \in 1..c : F[k] = FileByte(inode, offset + k - 1)
  OBVIOUS
<1>3. ASSUME NEW k \in 1..m PROVE F[c + k] = FileByte(inode, offset + c + k - 1)
  <2>1. c + k \in 1..(c + m) /\ offset + (c + k) - 1 = offset + c + k - 1
    OBVIOUS
  <2> QED BY <2>1
<1>4. \A k \in 1..(c + m) : F[k] = FileByte(inode, offset + k - 1)
  OBVIOUS
<1> HIDE DEF F
<1>5. Slice(inode, offset, c) = [k \in 1..c |-> F[k]]
  BY <1>2 DEF Slice
<1>6. Slice(inode, offset + c, m) = [k \in 1..m |-> F[c + k]]
  BY <1>3 DEF Slice
<1>7. Slice(inode, offset, c + m) = [k \in 1..(c + m) |-> F[k]]
  BY <1>4 DEF Slice
<1> QED BY <1>1, <1>5, <1>6, <1>7

\* One block more: it ends with the block or with what was asked for.
LEMMA CopyStep ==
    ASSUME NEW i \in DOMAIN Inode, ~Inode[i].dir, NEW offset \in Nat, NEW n \in Nat,
           offset + n <= Inode[i].size, NEW b \in Nat, BLOCK * b < offset + n,
           NEW c \in 0..n, NEW from \in 0..(BLOCK - 1),
           from = IF b = offset \div BLOCK THEN offset % BLOCK ELSE 0,
           c = n \/ offset + c = BLOCK * b + from
    PROVE  \E e \in 0..n :
              /\ CopyBlock(Inode[i], offset, n, b + 1, Slice(Inode[i], offset, c)) = Slice(Inode[i], offset, e)
              /\ e = n \/ offset + e = BLOCK * (b + 1)
<1> DEFINE inode == Inode[i]
           blk == ext2_get_data_block(inode, b)
           sofar == Slice(inode, offset, c)
           m == IF BLOCK - from <= n - c THEN BLOCK - from ELSE n - c
           e == c + m
<1>1. BLOCK \in Nat \ {0} /\ BLOCK * b \in Nat /\ inode.size \in Nat
  BY SMTT(30), Ext2Assumption, FileSound
<1>2. BLOCK * b < inode.size
  BY <1>1
<1>3. \A r \in 0..(BLOCK - 1) :
         InImage(blk) /\ FileByte(inode, BLOCK * b + r) = IF blk = 0 THEN Zero ELSE <<blk, r>>
  BY <1>2, ByteOfBlock
<1>4. InImage(blk)
  <2>1. 0 \in 0..(BLOCK - 1)
    BY <1>1
  <2> QED BY <1>3, <2>1
<1> HIDE DEF inode, blk
<1>5. m \in Nat /\ c \in Nat /\ e \in 0..n /\ (c = n => m = 0) /\ m <= BLOCK - from
  BY <1>1
<1>6. e = n \/ offset + e = BLOCK * (b + 1)
  <2>1. BLOCK * (b + 1) = BLOCK * b + BLOCK
    BY <1>1
  <2> QED BY <1>1, <1>5, <2>1
<1>7. Min({BLOCK - from, n - c}) = m
  <2>1. BLOCK - from \in Int /\ n - c \in Int
    BY <1>1
  <2> QED BY <2>1, MinOfTwo
<1> HIDE DEF m
<1>8. Bytes(blk, from, m) = Slice(inode, offset + c, m)
  <2>1. ASSUME NEW k \in 1..m
        PROVE  FileByte(inode, offset + c + k - 1) = IF blk = 0 THEN Zero ELSE <<blk, from + k - 1>>
    <3> DEFINE r == from + k - 1
    <3>1. c # n
      BY <1>5, <2>1
    <3>2. r \in 0..(BLOCK - 1) /\ offset + c + k - 1 = BLOCK * b + r
      BY <1>1, <1>5, <3>1
    <3> HIDE DEF r
    <3>3. FileByte(inode, BLOCK * b + r) = IF blk = 0 THEN Zero ELSE <<blk, r>>
      BY <1>3, <3>2
    <3> QED BY <3>2, <3>3 DEF r
  <2> QED BY <2>1 DEF Bytes, Slice
<1>9. Len(sofar) = c
  BY <1>5, SliceIs
<1>10. CopyBlock(inode, offset, n, b + 1, sofar) = sofar \o Bytes(blk, from, m)
  <2>1. (b + 1) - 1 = b
    OBVIOUS
  <2> HIDE DEF sofar
  <2> QED BY <1>4, <1>7, <1>9, <2>1 DEF CopyBlock, blk
<1>11. sofar \o Slice(inode, offset + c, m) = Slice(inode, offset, e)
  BY ZenonT(60), <1>5, SliceJoin
<1> HIDE DEF sofar
<1>12. CopyBlock(inode, offset, n, b + 1, sofar) = Slice(inode, offset, e)
  BY <1>8, <1>10, <1>11
<1> HIDE DEF e
<1> QED BY <1>5, <1>6, <1>12 DEF inode, sofar

\* A read gives what the file holds, as much as was asked for and there is.
LEMMA ReadFile ==
    ASSUME NEW i \in DOMAIN Inode, ~Inode[i].dir, NEW offset \in Nat, offset <= Inode[i].size,
           NEW size \in Nat
    PROVE  ext2_read_file(Inode[i], offset, size) =
              Slice(Inode[i], offset, IF size <= Inode[i].size - offset THEN size ELSE Inode[i].size - offset)
<1> DEFINE inode == Inode[i]
           n == IF size <= inode.size - offset THEN size ELSE inode.size - offset
           first == offset \div BLOCK
           last == (offset + n - 1) \div BLOCK
           C == CopiedTo(inode, offset, n)
<1>1. BLOCK \in Nat \ {0} /\ inode.size \in Nat
  BY Ext2Assumption, FileSound
<1>2. n \in Nat /\ offset + n <= inode.size
  BY <1>1
<1>3. n = IF offset >= inode.size THEN 0 ELSE Min({size, inode.size - offset})
  <2>1. Min({size, inode.size - offset}) = n
    <3>1. size \in Int /\ inode.size - offset \in Int
      BY <1>1
    <3> QED BY <3>1, MinOfTwo
  <2> QED BY <1>1, <2>1
<1> HIDE DEF n
<1>4. ext2_read_file(inode, offset, size) = IF n = 0 THEN << >> ELSE C[last + 1]
  BY <1>3 DEF ext2_read_file, CopiedTo, CopyBlock
<1> HIDE DEF inode
<1>5. CASE n = 0
  BY <1>4, <1>5 DEF Slice, n, inode
<1>6. CASE n # 0
  <2>1. /\ first \in Nat /\ offset % BLOCK \in 0..(BLOCK - 1)
        /\ offset = BLOCK * first + (offset % BLOCK)
    BY <1>1, DivMod
  <2> DEFINE x == offset + n - 1
  <2>2. x \in Nat
    BY <1>2, <1>6
  <2>3. /\ last \in Nat /\ x % BLOCK \in 0..(BLOCK - 1)
        /\ x = BLOCK * last + (x % BLOCK)
    <3> HIDE DEF x
    <3>1. /\ x \div BLOCK \in Nat /\ x % BLOCK \in 0..(BLOCK - 1)
          /\ x = BLOCK * (x \div BLOCK) + (x % BLOCK)
      BY <1>1, <2>2, DivMod
    <3> QED BY <3>1 DEF x
  <2>4. /\ BLOCK * last <= x /\ x < BLOCK * (last + 1) /\ BLOCK * first <= offset
        /\ BLOCK * last \in Nat /\ BLOCK * (last + 1) \in Nat /\ BLOCK * first \in Nat
    <3> DEFINE r == x % BLOCK
               l == last
               o == offset % BLOCK
               f == first
    <3>1. r \in 0..(BLOCK - 1) /\ x = BLOCK * l + r /\ l \in Nat /\ o \in 0..(BLOCK - 1) /\ offset = BLOCK * f + o /\ f \in Nat
      BY <2>1, <2>3
    <3> HIDE DEF r, l, o, f, x
    <3>2. BLOCK * l \in Nat /\ BLOCK * (l + 1) = BLOCK * l + BLOCK /\ BLOCK * (l + 1) \in Nat /\ BLOCK * f \in Nat
      BY <1>1, <3>1
    <3>3. BLOCK * l <= x /\ x < BLOCK * (l + 1) /\ BLOCK * f <= offset
      BY <1>1, <3>1, <3>2
    <3> QED BY <3>2, <3>3 DEF l, f
  <2> DEFINE f == first
             l == last
             o == offset % BLOCK
  <2>5. /\ f \in Nat /\ l \in Nat /\ o \in 0..(BLOCK - 1) /\ offset = BLOCK * f + o
        /\ BLOCK * l <= x /\ x < BLOCK * (l + 1) /\ BLOCK * f <= offset
        /\ BLOCK * l \in Nat /\ BLOCK * (l + 1) \in Nat /\ BLOCK * f \in Nat
    BY <2>1, <2>3, <2>4
  <2>6. f <= l
    <3> HIDE DEF f, l, o
    <3> SUFFICES ASSUME ~(f <= l) PROVE FALSE
      OBVIOUS
    <3>1. l + 1 <= f /\ l + 1 \in Int /\ f \in Int
      BY <2>5
    <3>2. BLOCK * (l + 1) <= BLOCK * f
      BY <1>1, <3>1, TimesMono
    <3> QED BY <1>2, <1>6, <2>5, <3>2
  <2>7. /\ C[f] = << >>
        /\ \A b \in (f + 1)..(l + 1) : C[b] = CopyBlock(inode, offset, n, b, C[b - 1])
    <3>1. f = offset \div BLOCK /\ l = (offset + n - 1) \div BLOCK
      OBVIOUS
    <3>2. n \in Nat \ {0}
      BY <1>2, <1>6
    <3> HIDE DEF f, l
    <3>3. f \in Nat /\ l \in Nat
      BY <2>5
    <3> HIDE DEF C
    <3>4. IsCopied(C, inode, offset, n, f, l)
      BY <2>6, <3>1, <3>2, <3>3, CopiedDef, Zenon DEF C
    <3> QED BY <3>4, Zenon DEF IsCopied
  <2> DEFINE Ok(b) == \E c \in 0..n : /\ C[b] = Slice(inode, offset, c)
                                      /\ b = f => c = 0
                                      /\ b # f => c = n \/ offset + c = BLOCK * b
             N == l + 1 - f
             T == {m \in Nat : Ok(f + m)}
  <2> HIDE DEF C, x, l
  <2>8. N \in Nat /\ f + N = l + 1
    BY <2>5, <2>6
  <2>9. 0 \in T
    <3>1. Slice(inode, offset, 0) = << >> /\ 0 \in 0..n /\ f + 0 = f
      BY <1>2, <2>5 DEF Slice
    <3>2. Ok(f)
      <4> HIDE DEF f
      <4> QED BY <2>7, <3>1
    <3> HIDE DEF Ok, f
    <3> QED BY <3>1, <3>2
  <2> HIDE DEF N
  <2>10. ASSUME NEW m \in 0..(N - 1), m \in T PROVE m + 1 \in T
    <3> DEFINE b == f + m
               from == IF b = first THEN o ELSE 0
    <3>1. PICK c \in 0..n : /\ C[b] = Slice(inode, offset, c)
                            /\ b = f => c = 0
                            /\ b # f => c = n \/ offset + c = BLOCK * b
      BY <2>10
    <3>2. b \in Nat /\ b <= l /\ b + 1 \in (f + 1)..(l + 1) /\ (b + 1) - 1 = b /\ f + (m + 1) = b + 1
      <4> HIDE DEF f
      <4> QED BY <2>5, <2>8, <2>10
    <3>3. from \in 0..(BLOCK - 1) /\ (b = f => from = o) /\ (b # f => from = 0)
      <4>1. 0 \in 0..(BLOCK - 1)
        BY <1>1
      <4> HIDE DEF b, o
      <4> QED BY <2>5, <4>1
    <3>4. BLOCK * b < offset + n /\ BLOCK * b \in Nat
      <4>1. BLOCK * b <= BLOCK * l /\ BLOCK * b \in Nat
        <5> HIDE DEF b
        <5>1. b \in Int /\ l \in Int
          BY <2>5, <3>2
        <5>2. BLOCK * b \in Nat
          BY <1>1, <3>2
        <5> QED BY <1>1, <3>2, <5>1, <5>2, TimesMono
      <4> HIDE DEF b, f
      <4> QED BY <1>2, <2>5, <4>1 DEF x
    <3>5. c = n \/ offset + c = BLOCK * b + from
      <4> HIDE DEF from, o
      <4>1. CASE b = f
        BY <2>5, <3>1, <3>3, <4>1
      <4>2. CASE b # f
        <5> HIDE DEF b, f
        <5> QED BY <3>1, <3>3, <3>4, <4>2
      <4> QED BY <4>1, <4>2
    <3>6. from = IF b = offset \div BLOCK THEN offset % BLOCK ELSE 0
      OBVIOUS
    <3> HIDE DEF b, from, f, o
    <3>7. PICK e \in 0..n :
             /\ CopyBlock(inode, offset, n, b + 1, Slice(inode, offset, c)) = Slice(inode, offset, e)
             /\ e = n \/ offset + e = BLOCK * (b + 1)
      BY <1>2, <3>2, <3>3, <3>4, <3>5, <3>6, CopyStep DEF inode
    <3>8. C[b + 1] = CopyBlock(inode, offset, n, b + 1, C[b])
      BY <2>7, <3>2
    <3>9. C[b + 1] = Slice(inode, offset, e) /\ b + 1 # f
      <4>1. b + 1 # f
        BY <2>5, <3>2
      <4> QED BY <3>1, <3>7, <3>8, <4>1
    <3>10. Ok(b + 1)
      BY <3>7, <3>9
    <3>11. m + 1 \in Nat
      OBVIOUS
    <3> HIDE DEF Ok
    <3> QED BY <3>2, <3>10, <3>11
  <2>11. Ok(l + 1)
    <3>1. \A m \in 0..N : m \in T
      <4> HIDE DEF T
      <4> QED BY <2>8, <2>9, <2>10, UpTo
    <3>2. N \in T
      <4> HIDE DEF T
      <4> QED BY <2>8, <3>1
    <3> HIDE DEF Ok
    <3> QED BY <2>8, <3>2
  <2> HIDE DEF f, o
  <2>12. PICK c \in 0..n : /\ C[l + 1] = Slice(inode, offset, c)
                           /\ c = n \/ offset + c = BLOCK * (l + 1)
    <3>1. l + 1 # f
      BY <2>5, <2>6
    <3> QED BY <2>11, <3>1
  <2>13. c = n
    BY <1>2, <2>5, <2>12 DEF x
  <2> QED BY <1>4, <1>6, <2>12, <2>13 DEF l, n, inode
<1> QED BY <1>5, <1>6

-----------------------------------------------------------------------------
(* Directories.                                                            *)

\* No name twice.
Distinct(s) == \A j, k \in 1..Len(s) : s[j].name = s[k].name => j = k

\* Every element of s is one of t's at the places in I up to n.
From(s, t, I, n) == \A k \in 1..Len(s) : \E m \in 1..n : m \in I /\ s[k] = t[m]

\* One element more.
LEMMA DistinctAppend ==
    ASSUME NEW S, NEW s \in Seq(S), NEW x \in S, Distinct(s),
           \A k \in 1..Len(s) : s[k].name # x.name
    PROVE  Distinct(Append(s, x))
<1> DEFINE t == Append(s, x)
<1>1. /\ Len(s) \in Nat /\ Len(t) = Len(s) + 1 /\ t[Len(s) + 1] = x
      /\ \A k \in 1..Len(s) : t[k] = s[k]
  BY AppendProperties, LenProperties
<1> HIDE DEF t
<1>2. \A k \in 1..Len(t) : k \in 1..Len(s) \/ k = Len(s) + 1
  BY <1>1
<1>3. Distinct(t)
  BY <1>1, <1>2 DEF Distinct
<1> QED BY <1>3 DEF t

\* Two sequences without a common name.
LEMMA DistinctConcat ==
    ASSUME NEW S, NEW s \in Seq(S), NEW t \in Seq(S), Distinct(s), Distinct(t),
           \A j \in 1..Len(s), k \in 1..Len(t) : s[j].name # t[k].name
    PROVE  Distinct(s \o t)
<1> DEFINE u == s \o t
<1>1. /\ Len(s) \in Nat /\ Len(t) \in Nat /\ Len(u) = Len(s) + Len(t)
      /\ \A k \in 1..(Len(s) + Len(t)) : u[k] = IF k <= Len(s) THEN s[k] ELSE t[k - Len(s)]
  BY ConcatProperties, LenProperties
<1> HIDE DEF u
<1>2. ASSUME NEW k \in 1..Len(u)
      PROVE  \/ k \in 1..Len(s) /\ u[k] = s[k]
             \/ ~(k <= Len(s)) /\ k - Len(s) \in 1..Len(t) /\ u[k] = t[k - Len(s)]
  BY <1>1
<1>3. ASSUME NEW j \in 1..Len(u), NEW k \in 1..Len(u), u[j].name = u[k].name
      PROVE  j = k
  <2>1. CASE j \in 1..Len(s) /\ u[j] = s[j] /\ k \in 1..Len(s) /\ u[k] = s[k]
    BY <1>3, <2>1 DEF Distinct
  <2>2. CASE j - Len(s) \in 1..Len(t) /\ u[j] = t[j - Len(s)] /\ k - Len(s) \in 1..Len(t) /\ u[k] = t[k - Len(s)]
    <3>1. j - Len(s) = k - Len(s)
      BY <1>3, <2>2 DEF Distinct
    <3> QED BY <1>1, <3>1
  <2>3. CASE j \in 1..Len(s) /\ u[j] = s[j] /\ k - Len(s) \in 1..Len(t) /\ u[k] = t[k - Len(s)]
    BY <1>3, <2>3
  <2>4. CASE j - Len(s) \in 1..Len(t) /\ u[j] = t[j - Len(s)] /\ k \in 1..Len(s) /\ u[k] = s[k]
    BY <1>3, <2>4
  <2> QED BY <1>2, <2>1, <2>2, <2>3, <2>4
<1>4. Distinct(u)
  BY <1>3 DEF Distinct
<1> QED BY <1>4 DEF u

\* What is picked comes from the chosen places, and from each once.
LEMMA PickFrom ==
    ASSUME NEW S, NEW s \in Seq(S), NEW I,
           \A j, k \in 1..Len(s) : j \in I /\ k \in I /\ s[j].name = s[k].name => j = k
    PROVE  From(Pick(s, I), s, I, Len(s)) /\ Distinct(Pick(s, I))
<1> DEFINE f == PickTo(s, I)
           Ok(n) == From(f[n], s, I, n) /\ Distinct(f[n])
           T == {n \in Nat : Ok(n)}
<1>0. Len(s) \in Nat
  BY LenProperties
<1>1. /\ f[0] = << >>
      /\ \A n \in 1..Len(s) : f[n] = IF n \in I THEN Append(f[n - 1], s[n]) ELSE f[n - 1]
      /\ Pick(s, I) = f[Len(s)]
  BY <1>0, PickDef
<1>2. \A n \in 0..Len(s) : f[n] \in Seq(S)
  BY PickType
<1> HIDE DEF f
<1>3. 0 \in T
  <2>1. From(<< >>, s, I, 0) /\ Distinct(<< >>)
    BY DEF From, Distinct
  <2> QED BY <1>1, <2>1
<1>4. ASSUME NEW n \in 0..(Len(s) - 1), n \in T PROVE n + 1 \in T
  <2>1. n \in Nat /\ n + 1 \in Nat /\ n + 1 \in 1..Len(s) /\ (n + 1) - 1 = n /\ n \in 0..Len(s)
    BY <1>0
  <2>2. f[n + 1] = IF n + 1 \in I THEN Append(f[n], s[n + 1]) ELSE f[n]
    BY <1>1, <2>1
  <2> DEFINE g == f[n]
             x == s[n + 1]
  <2>3. g \in Seq(S) /\ x \in S
    BY <1>2, <2>1, ElementOfSeq
  <2>4. From(g, s, I, n) /\ Distinct(g)
    BY <1>4
  <2> HIDE DEF g, x
  <2>5. CASE n + 1 \notin I
    <3>1. From(g, s, I, n + 1)
      <4>1. \A m \in 1..n : m \in 1..(n + 1)
        BY <2>1
      <4> QED BY <2>4, <4>1 DEF From
    <3>2. f[n + 1] = g
      BY <2>2, <2>5 DEF g
    <3> QED BY <2>1, <2>4, <3>1, <3>2
  <2>6. CASE n + 1 \in I
    <3>1. f[n + 1] = Append(g, x)
      BY <2>2, <2>6 DEF g, x
    <3>2. /\ Len(g) \in Nat /\ Len(Append(g, x)) = Len(g) + 1 /\ Append(g, x)[Len(g) + 1] = x
          /\ \A k \in 1..Len(g) : Append(g, x)[k] = g[k]
      BY <2>3, AppendProperties, LenProperties
    <3>3. ASSUME NEW k \in 1..Len(g) PROVE g[k].name # x.name
      <4>1. PICK m \in 1..n : m \in I /\ g[k] = s[m]
        BY <2>4 DEF From
      <4>2. m \in 1..Len(s) /\ m # n + 1
        BY <1>0, <2>1
      <4> QED BY <2>1, <2>6, <4>1, <4>2 DEF x
    <3>4. Distinct(Append(g, x))
      BY <2>3, <2>4, <3>3, DistinctAppend
    <3> DEFINE h == Append(g, x)
    <3> HIDE DEF h
    <3>5. From(h, s, I, n + 1)
      <4> SUFFICES ASSUME NEW k \in 1..Len(h) PROVE \E m \in 1..(n + 1) : m \in I /\ h[k] = s[m]
        BY DEF From
      <4>1. CASE k = Len(g) + 1
        BY <2>1, <2>6, <3>2, <4>1 DEF x, h
      <4>2. CASE k # Len(g) + 1
        <5>1. k \in 1..Len(g) /\ h[k] = g[k]
          BY <3>2, <4>2 DEF h
        <5>2. PICK m \in 1..n : m \in I /\ g[k] = s[m]
          BY <2>4, <5>1 DEF From
        <5> QED BY <2>1, <5>1, <5>2
      <4> QED BY <4>1, <4>2
    <3> QED BY <2>1, <3>1, <3>4, <3>5 DEF h
  <2> QED BY <2>5, <2>6
<1>5. \A n \in 0..Len(s) : n \in T
  <2> HIDE DEF T
  <2> QED BY <1>0, <1>3, <1>4, UpTo
<1> QED BY <1>0, <1>1, <1>5

\* The entries in use of the first blocks of a directory.
EntriesTo(i) ==
    LET upto[b \in 0..DIRECT] == IF b = 0 THEN << >> ELSE upto[b - 1] \o InUse(Inode[i].block[b])
    IN  upto

\* The recursive definition has a solution.
LEMMA EntriesDef ==
    ASSUME NEW i
    PROVE  /\ EntriesTo(i)[0] = << >>
           /\ \A b \in 1..DIRECT : EntriesTo(i)[b] = EntriesTo(i)[b - 1] \o InUse(Inode[i].block[b])
           /\ Entries(i) = EntriesTo(i)[DIRECT]
<1> DEFINE Step(x, n) == x \o InUse(Inode[i].block[n])
           Solves(g, m) == g = [n \in 0..m |-> IF n = 0 THEN << >> ELSE Step(g[n - 1], n)]
           T == {m \in Nat : \E g : Solves(g, m)}
<1>0. DIRECT \in Nat
  BY Ext2Assumption
<1>1. 0 \in T
  <2>1. Solves([n \in 0..0 |-> << >>], 0)
    <3> HIDE DEF Step
    <3> QED OBVIOUS
  <2> HIDE DEF Solves
  <2> QED BY <2>1
<1>2. ASSUME NEW m \in 0..(DIRECT - 1), m \in T PROVE m + 1 \in T
  <2>0. m \in Nat
    BY <1>0
  <2>1. PICK g : Solves(g, m)
    BY <1>2
  <2> DEFINE f == [n \in 0..(m + 1) |-> IF n = m + 1 THEN Step(g[m], m + 1) ELSE g[n]]
  <2>2. ASSUME NEW n \in 0..(m + 1)
        PROVE  f[n] = IF n = 0 THEN << >> ELSE Step(f[n - 1], n)
    <3> HIDE DEF Step
    <3> QED BY <2>0, <2>1
  <2>3. Solves(f, m + 1)
    <3> HIDE DEF Step
    <3> QED BY <2>2
  <2> HIDE DEF f, Solves
  <2> QED BY <2>0, <2>3
<1>3. DIRECT \in T
  <2> HIDE DEF T
  <2>1. \A n \in 0..DIRECT : n \in T
    BY <1>0, <1>1, <1>2, UpTo
  <2> QED BY <1>0, <2>1
<1>4. PICK g : Solves(g, DIRECT)
  BY <1>3
<1>5. Solves(EntriesTo(i), DIRECT)
  BY <1>4 DEF EntriesTo
<1> HIDE DEF T
<1>6. \A n \in 0..DIRECT : EntriesTo(i)[n] = IF n = 0 THEN << >> ELSE Step(EntriesTo(i)[n - 1], n)
  <2> HIDE DEF Step
  <2> QED BY <1>5
<1>7. Entries(i) = EntriesTo(i)[DIRECT]
  BY DEF Entries, EntriesTo
<1>8. (\A n \in 1..DIRECT : n \in 0..DIRECT /\ n # 0) /\ 0 \in 0..DIRECT
  BY <1>0
<1> QED BY <1>6, <1>7, <1>8, Zenon

\* An entry of a directory that is in use.
Entry == [inode : DOMAIN Inode, name : STRING]

\* The places of a block's entries that are in use.
UsedAt(blk) == {k \in DOMAIN DirBlock[blk] : DirBlock[blk][k].inode # 0}

\* What the image says of a block of a directory.
LEMMA DirSound ==
    ASSUME NEW i \in DOMAIN Inode, Inode[i].dir, NEW b \in 1..DIRECT, Inode[i].block[b] # 0
    PROVE  LET blk == Inode[i].block[b]
           IN  /\ DirBlock[blk] \in Seq([inode : DOMAIN Inode \cup {0}, name : STRING])
               /\ blk < ImageBlocks
               /\ \A j, k \in 1..Len(DirBlock[blk]) :
                     j \in UsedAt(blk) /\ k \in UsedAt(blk) /\ DirBlock[blk][j].name = DirBlock[blk][k].name => j = k
               /\ i = ROOT => \A j \in UsedAt(blk) : DirBlock[blk][j].name # "dev"
<1> DEFINE blk == Inode[i].block[b]
           s == DirBlock[blk]
<1>1. s \in Seq([inode : DOMAIN Inode \cup {0}, name : STRING])
  BY ImageAssumption
<1>2. blk \in 0..(ImageBlocks - 1) /\ ImageBlocks \in Nat
  <2>1. /\ ImageBlocks \in Nat
        /\ Inode[i].block \in Seq(0..(ImageBlocks - 1))
        /\ DIRECT \in Nat /\ Len(Inode[i].block) = DIRECT + 1
    BY ImageAssumption, Ext2Assumption
  <2>2. b \in 1..Len(Inode[i].block)
    BY <2>1
  <2> QED BY <2>1, <2>2, ElementOfSeq
<1>3. DOMAIN s = 1..Len(s)
  BY <1>1, LenProperties
<1>4. \A j, k \in DOMAIN s : /\ s[j].inode # 0 /\ s[k].inode # 0 /\ s[j].name = s[k].name => j = k
                             /\ i = ROOT /\ s[j].inode # 0 => s[j].name # "dev"
  BY ImageAssumption
<1> HIDE DEF s, blk
<1>5. blk < ImageBlocks
  BY <1>2
<1>6. UsedAt(blk) = {k \in DOMAIN s : s[k].inode # 0}
  BY DEF UsedAt, s
<1> HIDE DEF UsedAt
<1>7. \A j, k \in 1..Len(s) :
         j \in UsedAt(blk) /\ k \in UsedAt(blk) /\ s[j].name = s[k].name => j = k
  BY <1>3, <1>4, <1>6
<1>8. i = ROOT => \A j \in UsedAt(blk) : s[j].name # "dev"
  BY <1>4, <1>6
<1> QED BY <1>1, <1>5, <1>7, <1>8 DEF s, blk

\* s holds entries in use, each from one of the first n blocks of i.
Gathered(s, i, n) ==
    /\ s \in Seq(Entry)
    /\ Distinct(s)
    /\ \A k \in 1..Len(s) : \E b \in 1..n : /\ Inode[i].block[b] # 0
                                            /\ \E j \in UsedAt(Inode[i].block[b]) : s[k] = DirBlock[Inode[i].block[b]][j]

\* One block.
LEMMA InUseIs ==
    ASSUME NEW i \in DOMAIN Inode, Inode[i].dir, NEW b \in 1..DIRECT
    PROVE  LET blk == Inode[i].block[b]
           IN  /\ InUse(blk) \in Seq(Entry)
               /\ Distinct(InUse(blk))
               /\ \A k \in 1..Len(InUse(blk)) : /\ blk # 0
                                                /\ \E j \in UsedAt(blk) : InUse(blk)[k] = DirBlock[blk][j]
<1> DEFINE blk == Inode[i].block[b]
           s == DirBlock[blk]
           u == InUse(blk)
<1>1. CASE blk = 0
  <2>1. u = << >>
    BY <1>1 DEF InUse
  <2>2. << >> \in Seq(Entry) /\ Len(<< >>) = 0 /\ 1..0 = {} /\ Distinct(<< >>)
    BY DEF Distinct
  <2> HIDE DEF u, blk
  <2>3. /\ u \in Seq(Entry) /\ Distinct(u) /\ 1..Len(u) = {}
    BY <2>1, <2>2
  <2> QED BY <2>3 DEF u, blk
<1>2. CASE blk # 0
  <2>1. /\ s \in Seq([inode : DOMAIN Inode \cup {0}, name : STRING])
        /\ blk < ImageBlocks
        /\ \A j, k \in 1..Len(s) : j \in UsedAt(blk) /\ k \in UsedAt(blk) /\ s[j].name = s[k].name => j = k
    BY <1>2, DirSound
  <2>2. u = Pick(s, UsedAt(blk))
    BY <1>2, <2>1 DEF InUse, InImage, UsedAt
  <2> HIDE DEF u
  <2>3. From(u, s, UsedAt(blk), Len(s)) /\ Distinct(u)
    <3> HIDE DEF s, blk
    <3> QED BY <2>1, <2>2, PickFrom
  <2>4. u \in Seq([inode : DOMAIN Inode \cup {0}, name : STRING])
    <3> HIDE DEF s, blk
    <3> QED BY <2>1, <2>2, PickType
  <2>5. \A k \in 1..Len(u) : \E j \in UsedAt(blk) : u[k] = s[j]
    BY <2>3 DEF From
  <2>6. \A k \in 1..Len(u) : u[k] \in Entry
    <3> SUFFICES ASSUME NEW k \in 1..Len(u) PROVE u[k] \in Entry
      OBVIOUS
    <3>1. u[k] \in [inode : DOMAIN Inode \cup {0}, name : STRING]
      BY <2>4, ElementOfSeq
    <3>2. u[k].inode # 0
      BY <2>5 DEF UsedAt
    <3> HIDE DEF u
    <3> QED BY <3>1, <3>2 DEF Entry
  <2>7. u \in Seq(Entry)
    BY <2>4, <2>6, FunSeq, LenProperties
  <2> QED BY <1>2, <2>3, <2>5, <2>7 DEF u
<1> QED BY <1>1, <1>2

\* All blocks.
LEMMA EntriesAre ==
    ASSUME NEW i \in DOMAIN Inode, Inode[i].dir
    PROVE  Gathered(Entries(i), i, DIRECT)
<1> DEFINE E == EntriesTo(i)
           T == {n \in Nat : Gathered(E[n], i, n)}
<1>0. DIRECT \in Nat
  BY Ext2Assumption
<1>1. /\ E[0] = << >>
      /\ \A b \in 1..DIRECT : E[b] = E[b - 1] \o InUse(Inode[i].block[b])
      /\ Entries(i) = E[DIRECT]
  BY EntriesDef
<1> HIDE DEF E
<1>2. 0 \in T
  <2>1. << >> \in Seq(Entry) /\ Distinct(<< >>) /\ Len(<< >>) = 0
    BY DEF Distinct
  <2>2. Gathered(<< >>, i, 0)
    BY <2>1 DEF Gathered
  <2> QED BY <1>1, <2>2
<1>3. ASSUME NEW n \in 0..(DIRECT - 1), n \in T PROVE n + 1 \in T
  <2>1. n \in Nat /\ n + 1 \in Nat /\ n + 1 \in 1..DIRECT /\ (n + 1) - 1 = n
    BY <1>0
  <2> DEFINE blk == Inode[i].block[n + 1]
             s == E[n]
             t == InUse(blk)
             u == s \o t
  <2>2. E[n + 1] = u
    BY <1>1, <2>1
  <2>3. /\ s \in Seq(Entry)
        /\ Distinct(s)
        /\ \A k \in 1..Len(s) : \E b \in 1..n : /\ Inode[i].block[b] # 0
                                                /\ \E j \in UsedAt(Inode[i].block[b]) : s[k] = DirBlock[Inode[i].block[b]][j]
    BY <1>3 DEF Gathered
  <2>4. /\ t \in Seq(Entry) /\ Distinct(t)
        /\ \A k \in 1..Len(t) : blk # 0 /\ \E j \in UsedAt(blk) : t[k] = DirBlock[blk][j]
    BY <2>1, InUseIs
  <2>5. ASSUME NEW j \in 1..Len(s), NEW k \in 1..Len(t) PROVE s[j].name # t[k].name
    <3>1. PICK b \in 1..n : Inode[i].block[b] # 0 /\ \E m \in UsedAt(Inode[i].block[b]) : s[j] = DirBlock[Inode[i].block[b]][m]
      BY <2>3
    <3>2. PICK m \in UsedAt(Inode[i].block[b]) : s[j] = DirBlock[Inode[i].block[b]][m]
      BY <3>1
    <3>3. PICK l \in UsedAt(blk) : blk # 0 /\ t[k] = DirBlock[blk][l]
      BY <2>4
    <3>4. b \in 1..DIRECT /\ b # n + 1
      BY <1>0, <2>1
    <3>5. /\ m \in DOMAIN DirBlock[Inode[i].block[b]] /\ DirBlock[Inode[i].block[b]][m].inode # 0
          /\ l \in DOMAIN DirBlock[Inode[i].block[n + 1]] /\ DirBlock[Inode[i].block[n + 1]][l].inode # 0
      BY <3>2, <3>3 DEF UsedAt
    <3>6. LET inode == Inode[i] IN
          \A c, d \in 1..DIRECT : inode.block[c] # 0 /\ inode.block[d] # 0 =>
             \A x \in DOMAIN DirBlock[inode.block[c]], y \in DOMAIN DirBlock[inode.block[d]] :
                LET e == DirBlock[inode.block[c]][x]
                    f == DirBlock[inode.block[d]][y]
                IN  /\ e.inode # 0 /\ f.inode # 0 /\ e.name = f.name => c = d /\ x = y
                    /\ i = ROOT /\ e.inode # 0 => e.name # "dev"
      BY ImageAssumption, Zenon
    <3>7. DirBlock[Inode[i].block[b]][m].name # DirBlock[Inode[i].block[n + 1]][l].name
      <4> DEFINE c == Inode[i].block[b]
                 d == Inode[i].block[n + 1]
      <4>1. c # 0 /\ d # 0
        BY <3>1, <3>3
      <4>2. /\ DirBlock[c][m].inode # 0 /\ DirBlock[d][l].inode # 0
            /\ DirBlock[c][m].name = DirBlock[d][l].name => b = n + 1
        BY <2>1, <3>4, <3>5, <3>6, <4>1
      <4> QED BY <3>4, <4>2
    <3> QED BY <3>2, <3>3, <3>7
  <2> HIDE DEF s, t, blk
  <2>6. Distinct(u)
    BY <2>3, <2>4, <2>5, DistinctConcat
  <2>7. /\ u \in Seq(Entry) /\ Len(s) \in Nat /\ Len(t) \in Nat /\ Len(u) = Len(s) + Len(t)
        /\ \A k \in 1..(Len(s) + Len(t)) : u[k] = IF k <= Len(s) THEN s[k] ELSE t[k - Len(s)]
    BY <2>3, <2>4, ConcatProperties, LenProperties
  <2> HIDE DEF u
  <2>8. ASSUME NEW k \in 1..Len(u)
        PROVE  \E b \in 1..(n + 1) : /\ Inode[i].block[b] # 0
                                     /\ \E j \in UsedAt(Inode[i].block[b]) : u[k] = DirBlock[Inode[i].block[b]][j]
    <3>1. CASE k <= Len(s)
      <4>1. k \in 1..Len(s) /\ u[k] = s[k]
        BY <2>7, <3>1
      <4>2. \A b \in 1..n : b \in 1..(n + 1)
        BY <2>1
      <4> QED BY SMTT(30), <2>3, <4>1, <4>2
    <3>2. CASE ~(k <= Len(s))
      <4>1. k - Len(s) \in 1..Len(t) /\ u[k] = t[k - Len(s)]
        BY <2>7, <3>2
      <4>2. blk # 0 /\ \E j \in UsedAt(blk) : u[k] = DirBlock[blk][j]
        BY <2>4, <4>1
      <4>3. n + 1 \in 1..(n + 1)
        BY <2>1
      <4> QED BY <4>2, <4>3 DEF blk
    <3> QED BY <3>1, <3>2
  <2>9. Gathered(u, i, n + 1)
    BY <2>6, <2>7, <2>8 DEF Gathered
  <2> QED BY <2>1, <2>2, <2>9
<1>4. \A n \in 0..DIRECT : n \in T
  <2> HIDE DEF T
  <2> QED BY <1>0, <1>2, <1>3, UpTo
<1> QED BY <1>0, <1>1, <1>4

\* What a directory holds: entries with names of their own, and no "dev" in the root.
LEMMA DirEntries ==
    ASSUME NEW i \in DOMAIN Inode, Inode[i].dir
    PROVE  /\ Entries(i) \in Seq(Entry)
           /\ Distinct(Entries(i))
           /\ i = ROOT => \A k \in 1..Len(Entries(i)) : Entries(i)[k].name # "dev"
<1>1. Gathered(Entries(i), i, DIRECT)
  BY EntriesAre
<1> DEFINE s == Entries(i)
<1> HIDE DEF s
<1>2. ASSUME i = ROOT, NEW k \in 1..Len(s) PROVE s[k].name # "dev"
  <2>1. PICK b \in 1..DIRECT : Inode[i].block[b] # 0 /\ \E j \in UsedAt(Inode[i].block[b]) : s[k] = DirBlock[Inode[i].block[b]][j]
    BY <1>1, <1>2 DEF Gathered, s
  <2>2. \A j \in UsedAt(Inode[i].block[b]) : DirBlock[Inode[i].block[b]][j].name # "dev"
    BY <1>2, <2>1, DirSound
  <2> QED BY <2>1, <2>2
<1>3. s \in Seq(Entry) /\ Distinct(s)
  BY <1>1 DEF Gathered, s
<1> QED BY <1>2, <1>3 DEF s

\* ext2_finddir finds exactly the names of the directory's entries.
LEMMA FindIs ==
    ASSUME NEW i \in DOMAIN Inode, Inode[i].dir, NEW name
    PROVE  /\ ext2_finddir(i, name) \in DOMAIN Inode \cup {0}
           /\ (\E k \in 1..Len(Entries(i)) : Entries(i)[k].name = name) => ext2_finddir(i, name) # 0
<1> DEFINE s == Entries(i)
           hits == {k \in DOMAIN s : s[k].name = name}
           x == ext2_finddir(i, name)
<1>0. 0 \notin DOMAIN Inode
  BY ImageAssumption
<1>1. s \in Seq(Entry)
  BY DirEntries
<1>2. DOMAIN s = 1..Len(s) /\ Len(s) \in Nat
  BY <1>1, LenProperties
<1>3. x = IF hits = {} THEN 0 ELSE s[Min(hits)].inode
  BY DEF ext2_finddir
<1> HIDE DEF s, x
<1>4. CASE hits = {}
  BY <1>2, <1>3, <1>4 DEF s, x
<1>5. CASE hits # {}
  <2>1. hits \in SUBSET Nat /\ hits \subseteq 1..Len(s)
    BY <1>2
  <2> HIDE DEF hits
  <2>2. \E m \in hits : \A y \in hits : m <= y
    BY <1>5, <2>1, LeastElement
  <2>3. Min(hits) \in hits
    BY <2>2 DEF Min
  <2>4. s[Min(hits)] \in Entry
    BY <1>1, <2>1, <2>3, ElementOfSeq
  <2>5. x \in DOMAIN Inode
    BY <1>3, <1>5, <2>4 DEF Entry
  <2> QED BY <1>0, <2>5 DEF s, x
<1> QED BY <1>4, <1>5

-----------------------------------------------------------------------------
(* Looking up a path, now and after other processes have gone on.          *)

\* What finddir does with each kind of node.
FinddirIs ==
    \A n, name : /\ n.kind = "ext2" => finddir(n, name) = DirFind(n.id, name)
                 /\ n = Devfs => finddir(n, name) = dev_root_finddir(name)
                 /\ n = Pts => finddir(n, name) = pts_finddir(name)
                 /\ n.kind # "ext2" /\ n # Devfs /\ n # Pts => finddir(n, name) = NoNode

\* vfs_walk asks the node's own finddir, of which only directories have one.
LEMMA Finddir == FinddirIs
<1> SUFFICES ASSUME NEW n, NEW name
             PROVE  /\ n.kind = "ext2" => finddir(n, name) = DirFind(n.id, name)
                    /\ n = Devfs => finddir(n, name) = dev_root_finddir(name)
                    /\ n = Pts => finddir(n, name) = pts_finddir(name)
                    /\ n.kind # "ext2" /\ n # Devfs /\ n # Pts => finddir(n, name) = NoNode
  BY DEF FinddirIs
<1>1. Devfs.kind = "devfs" /\ Pts.kind = "pts" /\ Devfs # Pts
  BY DEF Devfs, Pts, Node
<1> QED BY <1>1 DEF finddir

\* The same for the nodes of a walk.
WalkIs ==
    \A start, path : Len(path) \in Nat =>
        /\ WalkTo(start, path)[0] = start
        /\ \A k \in 1..Len(path) : WalkTo(start, path)[k] = finddir(WalkTo(start, path)[k - 1], path[k])
        /\ vfs_walk(start, path) = WalkTo(start, path)[Len(path)]

\* The loop of vfs_walk takes one name at a time.
LEMMA Walks == WalkIs
  BY WalkDef, Zenon DEF WalkIs

\* A node of the image has an inode.
NodeOk(n) == n.kind = "ext2" => n.id \in DOMAIN Inode /\ n = Node("ext2", n.id)

\* The registry: kernel_main's devices, all of them visible, and those of the ptys.
Kind == Range(BootDevices) \cup {"master", "slave"}
Device == [kind : Kind, id : Nat]
DevicesOk == /\ g_devices \in Seq(Device)
             /\ VisibleDevices = BootDevices
             /\ \A k \in 1..Len(BootDevices) : Node(BootDevices[k], 0) \in Range(g_devices)

\* No device has the kind of a directory.
LEMMA Kinds == \A x \in Kind : x \notin {"ext2", "devfs", "pts", "none"}
<1>1. BootDevices \in Seq(STRING \ {"ext2", "devfs", "pts", "none", "master", "slave", ".", ".."})
  BY NamesAssumption
<1>2. DOMAIN BootDevices = 1..Len(BootDevices)
  BY <1>1, LenProperties
<1>3. \A k \in 1..Len(BootDevices) :
         BootDevices[k] \in STRING \ {"ext2", "devfs", "pts", "none", "master", "slave", ".", ".."}
  BY <1>1, ElementOfSeq
<1> QED BY <1>2, <1>3 DEF Kind, Range

\* A device of the registry is none of the directories.
LEMMA DeviceKind ==
    ASSUME DevicesOk, NEW name
    PROVE  device_lookup(name) = NoNode \/ device_lookup(name).kind \notin {"ext2", "devfs", "pts", "none"}
<1> DEFINE d == Node(name, 0)
<1>1. CASE d \notin Range(g_devices)
  BY <1>1 DEF device_lookup
<1>2. CASE d \in Range(g_devices)
  <2>1. device_lookup(name) = d
    BY <1>2 DEF device_lookup
  <2> HIDE DEF d
  <2>2. PICK k \in DOMAIN g_devices : d = g_devices[k]
    BY <1>2 DEF Range
  <2>3. g_devices \in Seq(Device)
    BY DEF DevicesOk
  <2>4. k \in 1..Len(g_devices)
    BY <2>3, LenProperties
  <2>5. d \in Device
    BY <2>2, <2>3, <2>4, ElementOfSeq
  <2> QED BY <2>1, <2>5, Kinds DEF Device
<1> QED BY <1>1, <1>2

\* An entry of a directory of the image.
LEMMA DirFindOk ==
    ASSUME NEW i \in DOMAIN Inode, NEW name
    PROVE  NodeOk(DirFind(i, name))
<1> DEFINE n == DirFind(i, name)
           j == ext2_finddir(i, name)
<1>1. CASE n = Devfs \/ n = NoNode
  BY <1>1 DEF NodeOk, Devfs, NoNode, Node
<1>2. CASE ~(n = Devfs \/ n = NoNode)
  <2>1. Inode[i].dir /\ j # 0 /\ n = Node("ext2", j)
    BY <1>2 DEF DirFind
  <2>2. j \in DOMAIN Inode
    BY <2>1, FindIs
  <2>3. n.kind = "ext2" /\ n.id = j
    BY <2>1 DEF Node
  <2> HIDE DEF n, j
  <2>4. NodeOk(n)
    BY <2>1, <2>2, <2>3 DEF NodeOk
  <2> QED BY <2>4 DEF n
<1> QED BY <1>1, <1>2

\* One name further.
LEMMA FindOk ==
    ASSUME DevicesOk, NEW n, NodeOk(n), NEW name
    PROVE  NodeOk(finddir(n, name))
<1>1. /\ n.kind = "ext2" => finddir(n, name) = DirFind(n.id, name)
      /\ n = Devfs => finddir(n, name) = dev_root_finddir(name)
      /\ n = Pts => finddir(n, name) = pts_finddir(name)
      /\ n.kind # "ext2" /\ n # Devfs /\ n # Pts => finddir(n, name) = NoNode
  BY Finddir, Zenon DEF FinddirIs
<1>2. CASE n.kind = "ext2"
  <2>1. n.id \in DOMAIN Inode
    BY <1>2 DEF NodeOk
  <2> QED BY <1>1, <1>2, <2>1, DirFindOk
<1>3. NodeOk(Pts) /\ NodeOk(NoNode)
  BY DEF NodeOk, Pts, NoNode, Node
<1>4. NodeOk(device_lookup(name))
  <2> DEFINE d == device_lookup(name)
  <2>1. d = NoNode \/ d.kind \notin {"ext2", "devfs", "pts", "none"}
    BY DeviceKind
  <2> HIDE DEF d
  <2>2. NodeOk(d)
    BY <1>3, <2>1 DEF NodeOk
  <2> QED BY <2>2 DEF d
<1>5. CASE n = Devfs
  BY <1>1, <1>3, <1>4, <1>5 DEF dev_root_finddir
<1>6. CASE n = Pts
  <2>1. pts_finddir(name) = NoNode \/ pts_finddir(name).kind = "slave"
    BY DEF pts_finddir, Node
  <2> QED BY <1>1, <1>3, <1>6, <2>1 DEF NodeOk
<1>7. CASE n.kind # "ext2" /\ n # Devfs /\ n # Pts
  BY <1>1, <1>3, <1>7
<1> QED BY <1>2, <1>5, <1>6, <1>7

Root == Node("ext2", ROOT)

\* Every node vfs_walk meets on its way from the root is one that exists.
LEMMA WalkOk ==
    ASSUME DevicesOk, NEW path, Len(path) \in Nat
    PROVE  \A k \in 0..Len(path) : NodeOk(WalkTo(Root, path)[k])
<1> DEFINE W == WalkTo(Root, path)
           T == {k \in Nat : NodeOk(W[k])}
<1>1. /\ W[0] = Root
      /\ \A k \in 1..Len(path) : W[k] = finddir(W[k - 1], path[k])
  BY Walks DEF WalkIs
<1>2. NodeOk(Root)
  <2>1. ROOT \in DOMAIN Inode
    BY Ext2Assumption
  <2> QED BY <2>1 DEF NodeOk, Root, Node
<1> HIDE DEF W
<1>3. 0 \in T
  BY <1>1, <1>2
<1>4. ASSUME NEW k \in 0..(Len(path) - 1), k \in T PROVE k + 1 \in T
  <2>1. k \in Nat /\ k + 1 \in Nat /\ k + 1 \in 1..Len(path) /\ (k + 1) - 1 = k /\ NodeOk(W[k])
    BY <1>4
  <2>2. W[k + 1] = finddir(W[k], path[k + 1])
    BY <1>1, <2>1
  <2>3. NodeOk(W[k + 1])
    BY <2>1, <2>2, FindOk
  <2> QED BY <2>1, <2>3
<1>5. \A k \in 0..Len(path) : k \in T
  <2> HIDE DEF T
  <2> QED BY <1>3, <1>4, UpTo
<1> QED BY <1>5 DEF W

\* A path of the image leads to an inode.
LookupIs == \A path : Len(path) \in Nat => NodeOk(vfs_lookup(path))

\* vfs_lookup never gives an ext2 node without an inode behind it.
LEMMA LookupOk == DevicesOk => LookupIs
<1> SUFFICES ASSUME DevicesOk, NEW path, Len(path) \in Nat PROVE NodeOk(vfs_lookup(path))
  BY DEF LookupIs
<1>1. vfs_lookup(path) = WalkTo(Root, path)[Len(path)]
  BY Walks, Zenon DEF WalkIs, vfs_lookup, Root
<1>2. Len(path) \in 0..Len(path)
  OBVIOUS
<1> QED BY <1>1, <1>2, WalkOk

\* A node stays what it is, but what was not there may be a pty's device now.
Change(n, m) == m = n \/ (n = NoNode /\ m.kind \in {"master", "slave"})
Grown == \A name : /\ Change(device_lookup(name), device_lookup(name)')
                   /\ Change(pts_finddir(name), pts_finddir(name)')

\* One name further.
LEMMA FindChange ==
    ASSUME Grown, NEW n, NEW m, Change(n, m), NEW name
    PROVE  Change(finddir(n, name), finddir(m, name)')
<1>1. /\ n.kind = "ext2" => finddir(n, name) = DirFind(n.id, name)
      /\ n = Devfs => finddir(n, name) = dev_root_finddir(name)
      /\ n = Pts => finddir(n, name) = pts_finddir(name)
      /\ n.kind # "ext2" /\ n # Devfs /\ n # Pts => finddir(n, name) = NoNode
  BY Finddir, Zenon DEF FinddirIs
<1>2. FinddirIs'
  BY Finddir, PTL
<1>3. /\ m.kind = "ext2" => finddir(m, name)' = DirFind(m.id, name)
      /\ m = Devfs => finddir(m, name)' = dev_root_finddir(name)'
      /\ m = Pts => finddir(m, name)' = pts_finddir(name)'
      /\ m.kind # "ext2" /\ m # Devfs /\ m # Pts => finddir(m, name)' = NoNode
  BY <1>2 DEF FinddirIs, DirFind, ext2_finddir, Entries, InUse, Devfs, Pts, NoNode, Node
<1>4. CASE m = n
  <2>1. Change(dev_root_finddir(name), dev_root_finddir(name)')
    BY DEF Grown, Change, dev_root_finddir, Pts, Node
  <2>2. Change(pts_finddir(name), pts_finddir(name)')
    BY DEF Grown
  <2> QED BY <1>1, <1>3, <1>4, <2>1, <2>2 DEF Change
<1>5. CASE m # n
  <2>1. n = NoNode /\ m.kind \in {"master", "slave"}
    BY <1>5 DEF Change
  <2>2. m.kind # "ext2" /\ m # Devfs /\ m # Pts /\ n.kind # "ext2" /\ n # Devfs /\ n # Pts
    BY <2>1 DEF Devfs, Pts, NoNode, Node
  <2>3. finddir(n, name) = NoNode /\ finddir(m, name)' = NoNode
    BY <1>1, <1>3, <2>2
  <2> QED BY <2>3 DEF Change
<1> QED BY <1>4, <1>5

\* A whole path.
LEMMA LookupChange ==
    ASSUME Grown
    PROVE  \A path : Len(path) \in Nat => Change(vfs_lookup(path), vfs_lookup(path)')
<1> SUFFICES ASSUME NEW path, Len(path) \in Nat PROVE Change(vfs_lookup(path), vfs_lookup(path)')
  OBVIOUS
<1> DEFINE W == WalkTo(Root, path)
           T == {k \in Nat : Change(W[k], W[k]')}
<1>1. /\ W[0] = Root
      /\ \A k \in 1..Len(path) : W[k] = finddir(W[k - 1], path[k])
      /\ vfs_lookup(path) = W[Len(path)]
  BY Walks, Zenon DEF WalkIs, vfs_lookup, Root
<1>2. WalkIs'
  BY Walks, PTL
<1>3. /\ W[0]' = Root
      /\ \A k \in 1..Len(path) : W[k]' = finddir(W[k - 1], path[k])'
      /\ vfs_lookup(path)' = W[Len(path)]'
  BY <1>2 DEF WalkIs, vfs_lookup, Root, Node
<1> HIDE DEF W
<1>4. 0 \in T
  BY <1>1, <1>3 DEF Change
<1>5. ASSUME NEW k \in 0..(Len(path) - 1), k \in T PROVE k + 1 \in T
  <2>1. k \in Nat /\ k + 1 \in Nat /\ k + 1 \in 1..Len(path) /\ (k + 1) - 1 = k /\ Change(W[k], W[k]')
    BY <1>5
  <2>2. W[k + 1] = finddir(W[k], path[k + 1]) /\ W[k + 1]' = finddir(W[k], path[k + 1])'
    BY <1>1, <1>3, <2>1
  <2>3. Change(W[k + 1], W[k + 1]')
    BY <2>1, <2>2, FindChange
  <2> QED BY <2>1, <2>3
<1>6. \A k \in 0..Len(path) : k \in T
  <2> HIDE DEF T
  <2> QED BY <1>4, <1>5, UpTo
<1>7. Len(path) \in 0..Len(path)
  OBVIOUS
<1> QED BY <1>1, <1>3, <1>6, <1>7

-----------------------------------------------------------------------------
(* The registry.                                                           *)

\* Picking every place gives the sequence.
LEMMA PickAll ==
    ASSUME NEW S, NEW s \in Seq(S), NEW I, \A k \in 1..Len(s) : k \in I
    PROVE  Pick(s, I) = s
<1> DEFINE f == PickTo(s, I)
           part(n) == [k \in 1..n |-> s[k]]
           T == {n \in Nat : f[n] = part(n)}
<1>0. Len(s) \in Nat /\ s = [k \in 1..Len(s) |-> s[k]] /\ \A k \in 1..Len(s) : s[k] \in S
  BY LenProperties, ElementOfSeq
<1>1. /\ f[0] = << >>
      /\ \A n \in 1..Len(s) : f[n] = IF n \in I THEN Append(f[n - 1], s[n]) ELSE f[n - 1]
      /\ Pick(s, I) = f[Len(s)]
  BY <1>0, PickDef
<1> HIDE DEF f
<1>2. 0 \in T
  <2>1. part(0) = << >>
    OBVIOUS
  <2> QED BY <1>1, <2>1
<1>3. ASSUME NEW n \in 0..(Len(s) - 1), n \in T PROVE n + 1 \in T
  <2>1. n \in Nat /\ n + 1 \in Nat /\ n + 1 \in 1..Len(s) /\ (n + 1) - 1 = n /\ 1..n \subseteq 1..Len(s)
    BY <1>0
  <2>2. f[n + 1] = Append(part(n), s[n + 1])
    BY <1>1, <1>3, <2>1
  <2>3. part(n) \in Seq(S) /\ Len(part(n)) = n
    <3> DEFINE g == part(n)
    <3>1. g = [k \in 1..n |-> g[k]] /\ \A k \in 1..n : g[k] \in S
      BY <1>0, <2>1
    <3> HIDE DEF g
    <3>2. g \in Seq(S) /\ Len(g) = n
      BY <2>1, <3>1, FunSeq
    <3> QED BY <3>2 DEF g
  <2>4. Append(part(n), s[n + 1]) = part(n + 1)
    <3> DEFINE g == part(n)
               h == Append(g, s[n + 1])
    <3>1. \A k \in 1..n : g[k] = s[k]
      OBVIOUS
    <3> HIDE DEF g
    <3>2. h \in Seq(S) /\ Len(h) = n + 1 /\ h[n + 1] = s[n + 1] /\ \A k \in 1..n : h[k] = g[k]
      BY <1>0, <2>1, <2>3, AppendProperties DEF g
    <3> HIDE DEF h
    <3>3. h = [k \in 1..(n + 1) |-> h[k]]
      BY <3>2, LenProperties
    <3>4. \A k \in 1..(n + 1) : h[k] = s[k]
      BY <2>1, <3>1, <3>2
    <3>5. h = [k \in 1..(n + 1) |-> s[k]]
      BY <3>3, <3>4
    <3> QED BY <3>5 DEF h, g
  <2> QED BY <2>1, <2>2, <2>4
<1>4. \A n \in 0..Len(s) : n \in T
  <2> HIDE DEF T
  <2> QED BY <1>0, <1>2, <1>3, UpTo
<1> QED BY <1>0, <1>1, <1>4

\* The devices that readdir shows.
Visible(s) == Pick(s, {k \in DOMAIN s : ~Hidden(s[k])})

\* A hidden one is not.
LEMMA HiddenAppend ==
    ASSUME NEW s \in Seq(Device), NEW x \in Device, Hidden(x)
    PROVE  Visible(Append(s, x)) = Visible(s) /\ Append(s, x) \in Seq(Device)
           /\ Range(Append(s, x)) = Range(s) \cup {x}
<1> DEFINE t == Append(s, x)
           I == {k \in DOMAIN s : ~Hidden(s[k])}
           J == {k \in DOMAIN t : ~Hidden(t[k])}
<1>1. /\ Len(s) \in Nat /\ DOMAIN s = 1..Len(s) /\ t \in Seq(Device)
      /\ Len(t) = Len(s) + 1 /\ DOMAIN t = 1..(Len(s) + 1) /\ t[Len(s) + 1] = x
      /\ \A k \in 1..Len(s) : t[k] = s[k]
  BY AppendProperties, LenProperties
<1>2. Len(s) + 1 \notin J
  <2> HIDE DEF t
  <2> QED BY <1>1
<1>3. \A n \in 1..Len(s) : n \in I <=> n \in J
  <2> HIDE DEF t
  <2> QED BY <1>1
<1>4. Range(t) = Range(s) \cup {x}
  <2> HIDE DEF t
  <2>1. 1..(Len(s) + 1) = (1..Len(s)) \cup {Len(s) + 1}
    BY <1>1
  <2> QED BY <1>1, <2>1 DEF Range
<1> HIDE DEF I, J
<1>5. Pick(Append(s, x), J) = Pick(s, I)
  BY <1>2, <1>3, PickAppend
<1> QED BY <1>1, <1>4, <1>5 DEF Visible, I, J

\* What a step may do to the registry.
Registers == \/ UNCHANGED <<g_devices, g_ptys>>
             \/ pty_create /\ g_ptys < PTY_MAX

\* Only opening /dev/ptmx registers devices, and it creates one pty.
LEMMA StepRegisters == [Next]_vars => Registers
<1> SUFFICES ASSUME [Next]_vars PROVE Registers
  OBVIOUS
<1>1. CASE UNCHANGED vars
  BY <1>1 DEF vars, Registers
<1>2. CASE \E p \in Pid : setup_pty(p)
  BY <1>2 DEF setup_pty, Registers
<1>3. CASE Next /\ ~\E p \in Pid : setup_pty(p)
  BY ZenonT(60), <1>3 DEF Next, Registers, Globals, shell_exec, shell_wait, syscall_chdir, background_click, cat_open,
              cat_read, cat_newline, cat_close, ls_start, ls_readdir, ls_stat, reserve_stdio_fds, open_window,
              spawn_shell_files, spawn_shell_exec, terminal_exit
<1> QED BY <1>1, <1>2, <1>3

\* VisibleDevices, by its parts.
LEMMA VisibleIs == VisibleDevices = [k \in DOMAIN Visible(g_devices) |-> Visible(g_devices)[k].kind]
  BY DEF VisibleDevices, Visible

\* The same after the step.
LEMMA VisibleIsNext == VisibleDevices' = [k \in DOMAIN Visible(g_devices') |-> Visible(g_devices')[k].kind]
  BY DEF VisibleDevices, Visible, Hidden

\* The registry only grows, by hidden devices.
LEMMA DevicesStep ==
    ASSUME DevicesOk, g_ptys \in 0..PTY_MAX, Registers
    PROVE  DevicesOk' /\ Grown
<1>0. PTY_MAX \in Nat
  BY FilesAssumption
<1>1. CASE UNCHANGED <<g_devices, g_ptys>>
  <2>1. DevicesOk'
    BY <1>1, VisibleIs, VisibleIsNext DEF DevicesOk, Device
  <2>2. \A name : /\ device_lookup(name)' = device_lookup(name)
                  /\ pts_finddir(name)' = pts_finddir(name)
    BY <1>1 DEF device_lookup, pts_finddir
  <2> QED BY <2>1, <2>2 DEF Grown, Change
<1>2. CASE pty_create /\ g_ptys < PTY_MAX
  <2> DEFINE m == Node("master", g_ptys)
             v == Node("slave", g_ptys)
             d == Append(g_devices, m)
  <2>1. g_devices' = Append(d, v) /\ g_ptys' = g_ptys + 1
    BY <1>2 DEF pty_create, device_register
  <2>2. m \in Device /\ v \in Device /\ Hidden(m) /\ Hidden(v) /\ m.kind = "master" /\ v.kind = "slave"
    <3>1. g_ptys \in Nat
      BY <1>0
    <3>2. "master" \in Kind /\ "slave" \in Kind
      BY DEF Kind
    <3>3. m \in Device /\ v \in Device
      BY <3>1, <3>2 DEF Device, Node
    <3>4. m.kind = "master" /\ v.kind = "slave"
      BY DEF Node
    <3> QED BY <3>3, <3>4 DEF Hidden
  <2>3. g_devices \in Seq(Device)
    BY DEF DevicesOk
  <2> HIDE DEF m, v
  <2>4. Visible(d) = Visible(g_devices) /\ d \in Seq(Device) /\ Range(d) = Range(g_devices) \cup {m}
    BY <2>2, <2>3, HiddenAppend
  <2> HIDE DEF d
  <2>5. /\ Visible(g_devices') = Visible(g_devices) /\ g_devices' \in Seq(Device)
        /\ Range(g_devices') = Range(d) \cup {v}
    BY <2>1, <2>2, <2>4, HiddenAppend
  <2>6. DevicesOk'
    BY <2>4, <2>5, VisibleIs, VisibleIsNext DEF DevicesOk
  <2>7. ASSUME NEW name PROVE Change(device_lookup(name), device_lookup(name)')
    <3> DEFINE n == Node(name, 0)
    <3>1. device_lookup(name) = IF n \in Range(g_devices) THEN n ELSE NoNode
      BY DEF device_lookup
    <3>2. device_lookup(name)' = IF n \in Range(g_devices') THEN n ELSE NoNode
      BY DEF device_lookup, Node, NoNode
    <3> HIDE DEF n
    <3>3. CASE n \in Range(g_devices) \/ n \notin Range(g_devices')
      BY <2>4, <2>5, <3>1, <3>2, <3>3 DEF Change
    <3>4. CASE n \notin Range(g_devices) /\ n \in Range(g_devices')
      <4>1. n = m \/ n = v
        BY <2>4, <2>5, <3>4
      <4> QED BY <2>2, <3>1, <3>2, <3>4, <4>1 DEF Change
    <3> QED BY <3>3, <3>4
  <2>8. ASSUME NEW name PROVE Change(pts_finddir(name), pts_finddir(name)')
    <3> DEFINE A == {i \in 0..(g_ptys - 1) : name = ToString(i)}
               B == {i \in 0..g_ptys : name = ToString(i)}
    <3>1. pts_finddir(name) = IF A = {} THEN NoNode ELSE Node("slave", Min(A))
      BY DEF pts_finddir
    <3>2. pts_finddir(name)' = IF B = {} THEN NoNode ELSE Node("slave", Min(B))
      <4>1. pts_finddir(name)' = IF {i \in 0..(g_ptys' - 1) : name = ToString(i)} = {} THEN NoNode
                                 ELSE Node("slave", Min({i \in 0..(g_ptys' - 1) : name = ToString(i)}))
        BY DEF pts_finddir, Node, NoNode
      <4>2. g_ptys' - 1 = g_ptys
        BY <1>0, <2>1
      <4> QED BY <4>1, <4>2
    <3>3. A # {} => A = B
      <4>1. 0..(g_ptys - 1) \subseteq 0..PTY_MAX /\ 0..g_ptys \subseteq 0..PTY_MAX /\ 0..(g_ptys - 1) \subseteq 0..g_ptys
        BY <1>0, <1>2
      <4> QED BY <4>1, DecimalAssumption
    <3> HIDE DEF A, B
    <3>4. \A x : Node("slave", x).kind \in {"master", "slave"}
      BY DEF Node
    <3> QED BY <3>1, <3>2, <3>3, <3>4 DEF Change
  <2> QED BY <2>6, <2>7, <2>8 DEF Grown
<1> QED BY <1>1, <1>2 DEF Registers

\* kernel_main's devices are all visible.
LEMMA DevicesInitial == Init => DevicesOk
<1> SUFFICES ASSUME Init PROVE DevicesOk
  OBVIOUS
<1> DEFINE s == g_devices
           B == BootDevices
           N == Len(B)
<1>1. /\ B \in Seq(STRING) /\ N \in Nat /\ DOMAIN B = 1..N
      /\ \A k \in 1..N : B[k] \in Kind /\ B[k] \notin {"master", "slave"}
  <2>1. B \in Seq(STRING \ {"ext2", "devfs", "pts", "none", "master", "slave", ".", ".."})
    BY NamesAssumption
  <2>2. N \in Nat /\ DOMAIN B = 1..N
    BY <2>1, LenProperties
  <2>3. \A k \in 1..N : B[k] \in STRING \ {"ext2", "devfs", "pts", "none", "master", "slave", ".", ".."}
    BY <2>1, ElementOfSeq
  <2>4. B \in Seq(STRING)
    BY <2>1
  <2>5. \A k \in 1..N : B[k] \in Kind
    BY <2>2 DEF Kind, Range
  <2> QED BY <2>2, <2>3, <2>4, <2>5
<1>2. s = [k \in 1..N |-> Node(B[k], 0)]
  BY <1>1 DEF Init
<1> HIDE DEF s, N, B
<1>3. \A k \in 1..N : s[k] \in Device /\ ~Hidden(s[k]) /\ s[k].kind = B[k] /\ s[k] = Node(B[k], 0)
  BY <1>1, <1>2 DEF Device, Node, Hidden
<1>4. s = [k \in 1..N |-> s[k]] /\ DOMAIN s = 1..N
  BY <1>2
<1>5. s \in Seq(Device) /\ Len(s) = N
  BY <1>1, <1>3, <1>4, FunSeq
<1>6. Visible(s) = s
  <2>1. \A k \in 1..Len(s) : k \in {j \in DOMAIN s : ~Hidden(s[j])}
    BY <1>3, <1>4, <1>5
  <2> DEFINE I == {j \in DOMAIN s : ~Hidden(s[j])}
  <2> HIDE DEF I
  <2>2. Pick(s, I) = s
    BY <1>5, <2>1, PickAll DEF I
  <2> QED BY <2>2 DEF Visible, I
<1>7. VisibleDevices = [k \in 1..N |-> B[k]]
  <2>1. VisibleDevices = [k \in DOMAIN s |-> s[k].kind]
    BY <1>6, VisibleIs DEF s
  <2> QED BY <1>3, <1>4, <2>1
<1>8. B = [k \in 1..N |-> B[k]]
  BY <1>1, LenProperties DEF N
<1>9. \A k \in 1..N : Node(B[k], 0) \in Range(s)
  BY <1>3, <1>4 DEF Range
<1> QED BY <1>5, <1>7, <1>8, <1>9 DEF DevicesOk, s, B, N

-----------------------------------------------------------------------------
(* Normalising a path.                                                     *)

\* One name of normalize_path, and its stack after each name.
Pushed(top, s) == CASE s = "." -> top
                    [] s = ".." -> IF top = << >> THEN top ELSE Front(top)
                    [] OTHER -> Append(top, s)
NormTo(segs) ==
    LET top[k \in 0..Len(segs)] == IF k = 0 THEN << >> ELSE Pushed(top[k - 1], segs[k])
    IN  top

\* The recursive definition has a solution.
LEMMA NormDef ==
    ASSUME NEW segs, Len(segs) \in Nat
    PROVE  /\ NormTo(segs)[0] = << >>
           /\ \A k \in 1..Len(segs) : NormTo(segs)[k] = Pushed(NormTo(segs)[k - 1], segs[k])
           /\ normalize_path(segs) = NormTo(segs)[Len(segs)]
<1> DEFINE Step(x, n) == Pushed(x, segs[n])
           Solves(g, m) == g = [n \in 0..m |-> IF n = 0 THEN << >> ELSE Step(g[n - 1], n)]
           T == {m \in Nat : \E g : Solves(g, m)}
<1>1. 0 \in T
  <2>1. Solves([n \in 0..0 |-> << >>], 0)
    <3> HIDE DEF Step
    <3> QED OBVIOUS
  <2> HIDE DEF Solves
  <2> QED BY <2>1
<1>2. ASSUME NEW m \in 0..(Len(segs) - 1), m \in T PROVE m + 1 \in T
  <2>1. PICK g : Solves(g, m)
    BY <1>2
  <2> DEFINE f == [n \in 0..(m + 1) |-> IF n = m + 1 THEN Step(g[m], m + 1) ELSE g[n]]
  <2>2. ASSUME NEW n \in 0..(m + 1)
        PROVE  f[n] = IF n = 0 THEN << >> ELSE Step(f[n - 1], n)
    <3> HIDE DEF Step
    <3> QED BY <2>1
  <2>3. Solves(f, m + 1)
    <3> HIDE DEF Step
    <3> QED BY <2>2
  <2> HIDE DEF f, Solves
  <2> QED BY <2>3
<1>3. Len(segs) \in T
  <2> HIDE DEF T
  <2>1. \A n \in 0..Len(segs) : n \in T
    BY <1>1, <1>2, UpTo
  <2> QED BY <2>1
<1>4. PICK g : Solves(g, Len(segs))
  BY <1>3
<1>5. Solves(NormTo(segs), Len(segs))
  BY <1>4 DEF NormTo
<1> HIDE DEF T
<1>6. \A n \in 0..Len(segs) : NormTo(segs)[n] = IF n = 0 THEN << >> ELSE Step(NormTo(segs)[n - 1], n)
  <2> HIDE DEF Step
  <2> QED BY <1>5
<1>7. normalize_path(segs) = NormTo(segs)[Len(segs)]
  BY DEF normalize_path, NormTo, Pushed
<1>8. (\A n \in 1..Len(segs) : n \in 0..Len(segs) /\ n # 0) /\ 0 \in 0..Len(segs)
  OBVIOUS
<1> QED BY <1>6, <1>7, <1>8, Zenon

\* The names "." and ".." stand for other directories.
Dots == {".", ".."}
Plain(path) == path \in Seq(STRING \ Dots)

\* A name more on the stack.
LEMMA PushedIs ==
    ASSUME NEW top, NEW s
    PROVE  /\ s = "." => Pushed(top, s) = top
           /\ s = ".." => Pushed(top, s) = IF top = << >> THEN top ELSE Front(top)
           /\ s \notin Dots => Pushed(top, s) = Append(top, s)
  BY DEF Pushed, Dots

\* The result has no dots.
LEMMA NormPlain ==
    ASSUME NEW S, NEW segs \in Seq(S)
    PROVE  normalize_path(segs) \in Seq(S \ Dots)
<1> DEFINE N == NormTo(segs)
           T == {k \in Nat : N[k] \in Seq(S \ Dots)}
<1>0. Len(segs) \in Nat
  BY LenProperties
<1>1. /\ N[0] = << >>
      /\ \A k \in 1..Len(segs) : N[k] = Pushed(N[k - 1], segs[k])
      /\ normalize_path(segs) = N[Len(segs)]
  BY <1>0, NormDef
<1> HIDE DEF N
<1>2. 0 \in T
  <2>1. << >> \in Seq(S \ Dots)
    BY EmptySeq
  <2> QED BY <1>1, <2>1
<1>3. ASSUME NEW k \in 0..(Len(segs) - 1), k \in T PROVE k + 1 \in T
  <2>1. k \in Nat /\ k + 1 \in Nat /\ k + 1 \in 1..Len(segs) /\ (k + 1) - 1 = k
    BY <1>0
  <2> DEFINE t == N[k]
             s == segs[k + 1]
  <2>2. N[k + 1] = Pushed(t, s) /\ t \in Seq(S \ Dots) /\ s \in S
    BY <1>1, <1>3, <2>1, ElementOfSeq
  <2> HIDE DEF t, s
  <2>3. CASE s = "." \/ (s = ".." /\ t = << >>)
    <3>1. Pushed(t, s) = t
      BY <2>3, PushedIs
    <3> QED BY <2>1, <2>2, <3>1
  <2>4. CASE s = ".." /\ t # << >>
    <3>1. Pushed(t, s) = Front(t)
      BY <2>4, PushedIs
    <3>2. Front(t) \in Seq(S \ Dots)
      BY <2>2, <2>4, FrontLast DEF Front
    <3> QED BY <2>1, <2>2, <3>1, <3>2
  <2>5. CASE s \notin Dots
    <3>1. Pushed(t, s) = Append(t, s)
      BY <2>5, PushedIs
    <3>2. Append(t, s) \in Seq(S \ Dots)
      BY <2>2, <2>5, AppendProperties
    <3> QED BY <2>1, <2>2, <3>1, <3>2
  <2> QED BY <2>3, <2>4, <2>5 DEF Dots
<1>4. \A k \in 0..Len(segs) : k \in T
  <2> HIDE DEF T
  <2> QED BY <1>0, <1>2, <1>3, UpTo
<1> QED BY <1>0, <1>1, <1>4
\* Names without dots are kept.
LEMMA NormKeeps ==
    ASSUME NEW S, NEW segs \in Seq(S), NEW n \in Nat, n <= Len(segs), \A k \in 1..n : segs[k] \notin Dots
    PROVE  NormTo(segs)[n] = [j \in 1..n |-> segs[j]]
<1> DEFINE N == NormTo(segs)
           part(k) == [j \in 1..k |-> segs[j]]
           T == {k \in Nat : N[k] = part(k)}
<1>0. Len(segs) \in Nat
  BY LenProperties
<1>1. /\ N[0] = << >>
      /\ \A k \in 1..Len(segs) : N[k] = Pushed(N[k - 1], segs[k])
  BY <1>0, NormDef
<1> HIDE DEF N
<1>2. 0 \in T
  <2>1. part(0) = << >>
    OBVIOUS
  <2> QED BY <1>1, <2>1
<1>3. ASSUME NEW k \in 0..(n - 1), k \in T PROVE k + 1 \in T
  <2>1. k \in Nat /\ k + 1 \in Nat /\ k + 1 \in 1..Len(segs) /\ k + 1 \in 1..n /\ (k + 1) - 1 = k
    BY <1>0
  <2> DEFINE x == segs[k + 1]
             g == part(k)
             h == Append(g, x)
  <2>2. N[k + 1] = Pushed(g, x) /\ x \notin Dots
    BY <1>1, <1>3, <2>1
  <2>3. N[k + 1] = h
    <3> HIDE DEF g, x
    <3> QED BY <2>2, PushedIs
  <2>4. \A j \in 1..k : segs[j] \in S
    <3>1. \A j \in 1..k : j \in 1..Len(segs)
      BY <1>0, <2>1
    <3> QED BY <3>1, ElementOfSeq
  <2>5. g = [j \in 1..k |-> g[j]] /\ \A j \in 1..k : g[j] = segs[j]
    OBVIOUS
  <2>6. x \in S
    BY <2>1, ElementOfSeq
  <2> HIDE DEF g, x
  <2>7. g \in Seq(S) /\ Len(g) = k
    BY <2>1, <2>4, <2>5, FunSeq
  <2>8. h \in Seq(S) /\ Len(h) = k + 1 /\ h[k + 1] = x /\ \A j \in 1..k : h[j] = g[j]
    BY <2>1, <2>6, <2>7, AppendProperties
  <2> HIDE DEF h
  <2>9. h = [j \in 1..(k + 1) |-> h[j]]
    BY <2>8, LenProperties
  <2>10. \A j \in 1..(k + 1) : h[j] = segs[j]
    <3>1. \A j \in 1..(k + 1) : j \in 1..k \/ j = k + 1
      BY <2>1
    <3>2. \A j \in 1..k : h[j] = segs[j]
      BY <2>5, <2>8, Zenon
    <3>3. h[k + 1] = segs[k + 1]
      BY <2>8, Zenon DEF x
    <3> QED BY <3>1, <3>2, <3>3, Zenon
  <2>11. h = part(k + 1)
    BY <2>9, <2>10
  <2> QED BY <2>1, <2>3, <2>11
<1>4. \A k \in 0..n : k \in T
  <2> HIDE DEF T
  <2> QED BY <1>2, <1>3, UpTo
<1>5. n \in 0..n
  OBVIOUS
<1> QED BY <1>4, <1>5 DEF N

\* A name behind a path without dots.
LEMMA NormName ==
    ASSUME NEW path, Plain(path), NEW name
    PROVE  normalize_path(path \o <<name>>) = Pushed(path, name)
<1> DEFINE S == STRING \cup {name}
           segs == path \o <<name>>
           n == Len(path)
<1>1. path \in Seq(S) /\ <<name>> \in Seq(S) /\ Len(<<name>>) = 1 /\ <<name>>[1] = name
  BY DEF Plain
<1>2. path \in Seq(STRING \ Dots) /\ n \in Nat /\ path = [k \in 1..n |-> path[k]]
  BY LenProperties DEF Plain
<1>3. \A k \in 1..n : path[k] \notin Dots
  BY <1>2, ElementOfSeq
<1>4. /\ segs \in Seq(S) /\ Len(segs) = n + 1
      /\ \A k \in 1..(n + 1) : segs[k] = IF k <= n THEN path[k] ELSE <<name>>[k - n]
  <2> HIDE DEF S
  <2> QED BY <1>1, ConcatProperties
<1> HIDE DEF segs, S
<1>5. (\A k \in 1..n : segs[k] = path[k]) /\ segs[n + 1] = name
  BY <1>1, <1>2, <1>4
<1>6. NormTo(segs)[n] = [j \in 1..n |-> segs[j]]
  <2>1. n <= Len(segs) /\ \A k \in 1..n : segs[k] \notin Dots
    BY <1>2, <1>3, <1>4, <1>5
  <2> QED BY <1>2, <1>4, <2>1, NormKeeps
<1>7. NormTo(segs)[n] = path
  BY <1>2, <1>5, <1>6
<1>8. /\ \A k \in 1..Len(segs) : NormTo(segs)[k] = Pushed(NormTo(segs)[k - 1], segs[k])
      /\ normalize_path(segs) = NormTo(segs)[Len(segs)]
  BY <1>2, <1>4, NormDef
<1>9. n + 1 \in 1..Len(segs) /\ (n + 1) - 1 = n
  BY <1>2, <1>4
<1>10. normalize_path(segs) = Pushed(path, name)
  BY <1>4, <1>5, <1>7, <1>8, <1>9
<1> QED BY <1>10 DEF segs

\* A walk depends on the names it has passed.
LEMMA WalkSame ==
    ASSUME NEW s, NEW t, Len(s) \in Nat, Len(t) \in Nat, NEW n \in Nat, n <= Len(s), n <= Len(t),
           \A k \in 1..n : s[k] = t[k]
    PROVE  WalkTo(Root, s)[n] = WalkTo(Root, t)[n]
<1> DEFINE V == WalkTo(Root, s)
           W == WalkTo(Root, t)
           T == {k \in Nat : V[k] = W[k]}
<1>1. /\ V[0] = Root
      /\ \A k \in 1..Len(s) : V[k] = finddir(V[k - 1], s[k])
  BY Walks DEF WalkIs
<1>2. /\ W[0] = Root
      /\ \A k \in 1..Len(t) : W[k] = finddir(W[k - 1], t[k])
  BY Walks DEF WalkIs
<1> HIDE DEF V, W
<1>3. 0 \in T
  BY <1>1, <1>2
<1>4. ASSUME NEW k \in 0..(n - 1), k \in T PROVE k + 1 \in T
  <2>1. /\ k \in Nat /\ k + 1 \in Nat /\ k + 1 \in 1..Len(s) /\ k + 1 \in 1..Len(t) /\ k + 1 \in 1..n
        /\ (k + 1) - 1 = k
    OBVIOUS
  <2>2. V[k + 1] = finddir(V[k], s[k + 1]) /\ W[k + 1] = finddir(W[k], t[k + 1])
    BY <1>1, <1>2, <2>1
  <2> QED BY <1>4, <2>1, <2>2
<1>5. \A k \in 0..n : k \in T
  <2> HIDE DEF T
  <2> QED BY <1>3, <1>4, UpTo
<1>6. V[n] = W[n]
  BY <1>5
<1> QED BY <1>6 DEF V, W

\* Looking up one name more.
LEMMA LookupAppend ==
    ASSUME NEW S, NEW path \in Seq(S), NEW name \in S
    PROVE  vfs_lookup(Append(path, name)) = finddir(vfs_lookup(path), name)
<1> DEFINE t == Append(path, name)
           n == Len(path)
<1>1. /\ n \in Nat /\ t \in Seq(S) /\ Len(t) = n + 1 /\ t[n + 1] = name
      /\ \A k \in 1..n : t[k] = path[k]
  BY AppendProperties, LenProperties
<1> HIDE DEF t
<1>2. vfs_lookup(path) = WalkTo(Root, path)[n]
  BY <1>1, Walks DEF WalkIs, vfs_lookup, Root
<1>3. /\ vfs_lookup(t) = WalkTo(Root, t)[n + 1]
      /\ WalkTo(Root, t)[n + 1] = finddir(WalkTo(Root, t)[n], name)
  <2>1. Len(t) \in Nat /\ n + 1 \in 1..Len(t) /\ (n + 1) - 1 = n
    BY <1>1
  <2>2. /\ \A k \in 1..Len(t) : WalkTo(Root, t)[k] = finddir(WalkTo(Root, t)[k - 1], t[k])
        /\ vfs_walk(Root, t) = WalkTo(Root, t)[Len(t)]
    BY <2>1, Walks DEF WalkIs
  <2> QED BY <1>1, <2>1, <2>2 DEF vfs_lookup, Root
<1>4. WalkTo(Root, path)[n] = WalkTo(Root, t)[n]
  <2>1. Len(t) \in Nat /\ n <= n /\ n <= Len(t) /\ \A k \in 1..n : path[k] = t[k]
    BY <1>1
  <2> QED BY <1>1, <2>1, WalkSame
<1> QED BY <1>2, <1>3, <1>4 DEF t

\* What can be looked up has a parent, which can be looked up.
LEMMA LookupFront ==
    ASSUME NEW S, NEW path \in Seq(S), path # << >>, vfs_lookup(path) # NoNode
    PROVE  vfs_lookup(Front(path)) # NoNode
<1> DEFINE u == Front(path)
           x == path[Len(path)]
<1>1. u \in Seq(S) /\ x \in S /\ path = Append(u, x)
  BY FrontLast DEF Front
<1> HIDE DEF u, x
<1>2. vfs_lookup(path) = finddir(vfs_lookup(u), x)
  BY <1>1, LookupAppend
<1>3. finddir(NoNode, x) = NoNode
  <2>1. NoNode.kind # "ext2" /\ NoNode # Devfs /\ NoNode # Pts
    BY DEF NoNode, Devfs, Pts, Node
  <2> QED BY <2>1, Finddir DEF FinddirIs
<1> QED BY <1>2, <1>3 DEF u

-----------------------------------------------------------------------------
(* Reading a directory.                                                    *)

\* The cases of readdir.
ReaddirIs ==
    \A n : /\ n = Devfs => readdir(n) = dev_root_readdir
           /\ n = Pts => readdir(n) = pts_readdir
           /\ n.kind = "ext2" /\ Inode[n.id].dir => readdir(n) = ext2_readdir(n.id)
           /\ n # Devfs /\ n # Pts /\ ~(n.kind = "ext2" /\ Inode[n.id].dir) => readdir(n) = << >>

\* SYS_READDIR asks the node's own readdir, of which only directories have one.
LEMMA Readdir == ReaddirIs
<1> SUFFICES ASSUME NEW n
             PROVE  /\ n = Devfs => readdir(n) = dev_root_readdir
                    /\ n = Pts => readdir(n) = pts_readdir
                    /\ n.kind = "ext2" /\ Inode[n.id].dir => readdir(n) = ext2_readdir(n.id)
                    /\ n # Devfs /\ n # Pts /\ ~(n.kind = "ext2" /\ Inode[n.id].dir) => readdir(n) = << >>
  BY DEF ReaddirIs
<1>1. Devfs.kind = "devfs" /\ Pts.kind = "pts" /\ Devfs # Pts
  BY DEF Devfs, Pts, Node
<1> QED BY <1>1 DEF readdir

\* A sequence.
IsSeq(s) == Len(s) \in Nat /\ s = [k \in 1..Len(s) |-> s[k]]

\* A sequence of different names, all of them in the directory n.
NamesOk(n, s) == /\ IsSeq(s)
                 /\ \A j, k \in 1..Len(s) : s[j] = s[k] => j = k
                 /\ \A k \in 1..Len(s) : finddir(n, s[k]) # NoNode

\* devfs.
LEMMA DevfsNames ==
    ASSUME DevicesOk
    PROVE  NamesOk(Devfs, dev_root_readdir)
<1> DEFINE B == BootDevices
           N == Len(B)
           S == STRING \cup {"pts"}
           s == <<"pts">> \o B
           one == <<"pts">>
<1>1. dev_root_readdir = s
  BY DEF dev_root_readdir, DevicesOk
<1>2. B \in Seq(STRING \ {"ext2", "devfs", "pts", "none", "master", "slave", ".", ".."})
  BY NamesAssumption
<1>3. /\ B \in Seq(S) /\ N \in Nat /\ DOMAIN B = 1..N
      /\ \A k \in 1..N : B[k] \notin {"pts", "none"}
  BY <1>2, ElementOfSeq, LenProperties
<1>4. \A j, k \in 1..N : B[j] = B[k] => j = k
  BY <1>3, NamesAssumption
<1>5. one \in Seq(S) /\ Len(one) = 1 /\ one[1] = "pts"
  OBVIOUS
<1> HIDE DEF S, one, B, N
<1>6. /\ s \in Seq(S) /\ Len(s) = 1 + N
      /\ \A k \in 1..(1 + N) : s[k] = IF k <= 1 THEN one[k] ELSE B[k - 1]
  BY <1>3, <1>5, ConcatProperties DEF one, N
<1> HIDE DEF s
<1>7. ASSUME NEW k \in 1..Len(s)
      PROVE  (k = 1 /\ s[k] = "pts") \/ (k # 1 /\ k - 1 \in 1..N /\ s[k] = B[k - 1])
  BY <1>3, <1>5, <1>6
<1>8. Len(s) \in Nat /\ s = [k \in 1..Len(s) |-> s[k]]
  BY <1>6, LenProperties
<1>9. ASSUME NEW j \in 1..Len(s), NEW k \in 1..Len(s), s[j] = s[k] PROVE j = k
  <2>1. CASE j = 1 \/ k = 1
    BY <1>3, <1>7, <1>9, <2>1
  <2>2. CASE j # 1 /\ k # 1
    <3>1. j - 1 = k - 1
      BY <1>4, <1>7, <1>9, <2>2
    <3> QED BY <1>8, <3>1
  <2> QED BY <2>1, <2>2
<1>10. ASSUME NEW k \in 1..Len(s) PROVE finddir(Devfs, s[k]) # NoNode
  <2>1. finddir(Devfs, s[k]) = dev_root_finddir(s[k])
    BY Finddir DEF FinddirIs
  <2>2. CASE s[k] = "pts"
    <3>1. dev_root_finddir(s[k]) = Pts
      BY <2>2 DEF dev_root_finddir
    <3> QED BY <2>1, <3>1 DEF Pts, NoNode, Node
  <2>3. CASE k - 1 \in 1..N /\ s[k] = B[k - 1]
    <3>1. s[k] # "pts" /\ s[k] # "none"
      BY <1>3, <2>3
    <3>2. Node(s[k], 0) \in Range(g_devices)
      BY <2>3 DEF DevicesOk, B, N
    <3>3. dev_root_finddir(s[k]) = Node(s[k], 0)
      BY <3>1, <3>2 DEF dev_root_finddir, device_lookup
    <3> QED BY <2>1, <3>1, <3>3 DEF NoNode, Node
  <2> QED BY <1>7, <2>2, <2>3
<1>11. NamesOk(Devfs, s)
  BY <1>8, <1>9, <1>10 DEF NamesOk, IsSeq
<1> QED BY <1>1, <1>11

\* /dev/pts.
LEMMA PtsNames ==
    ASSUME g_ptys \in 0..PTY_MAX
    PROVE  NamesOk(Pts, pts_readdir)
<1> DEFINE s == pts_readdir
<1>0. PTY_MAX \in Nat /\ g_ptys \in Nat
  BY FilesAssumption
<1>1. s = [k \in 1..g_ptys |-> ToString(k - 1)]
  BY DEF pts_readdir
<1> HIDE DEF s
<1>2. s = [k \in 1..g_ptys |-> s[k]] /\ \A k \in 1..g_ptys : s[k] = ToString(k - 1)
  BY <1>1
<1>3. Len(s) = g_ptys
  <2>1. \A k \in 1..g_ptys : s[k] \in {ToString(x) : x \in Nat}
    BY <1>0, <1>2
  <2> QED BY <1>0, <1>2, <2>1, FunSeq
<1>4. \A k \in 1..g_ptys : k - 1 \in 0..PTY_MAX /\ k - 1 \in 0..(g_ptys - 1)
  BY <1>0
<1>5. ASSUME NEW j \in 1..g_ptys, NEW k \in 1..g_ptys, s[j] = s[k] PROVE j = k
  <2>1. j - 1 = k - 1
    BY <1>2, <1>4, <1>5, DecimalAssumption
  <2> QED BY <1>0, <2>1
<1>6. ASSUME NEW k \in 1..g_ptys PROVE finddir(Pts, s[k]) # NoNode
  <2>1. finddir(Pts, s[k]) = pts_finddir(s[k])
    BY Finddir DEF FinddirIs
  <2>2. {i \in 0..(g_ptys - 1) : s[k] = ToString(i)} # {}
    BY <1>2, <1>4
  <2>3. \E x : pts_finddir(s[k]) = Node("slave", x)
    BY <2>2 DEF pts_finddir
  <2> QED BY <2>1, <2>3 DEF NoNode, Node
<1>7. NamesOk(Pts, s)
  BY <1>0, <1>2, <1>3, <1>5, <1>6 DEF NamesOk, IsSeq
<1> QED BY <1>7 DEF s

\* A directory of the image; the root shows devfs behind its entries.
LEMMA Ext2Names ==
    ASSUME NEW n, NodeOk(n), n.kind = "ext2", Inode[n.id].dir
    PROVE  NamesOk(n, ext2_readdir(n.id))
<1> DEFINE i == n.id
           E == Entries(i)
           N == Len(E)
           a == [k \in DOMAIN E |-> E[k].name]
           b == IF i = ROOT THEN <<"dev">> ELSE << >>
           S == STRING \cup {"dev"}
           s == a \o b
<1>0. i \in DOMAIN Inode /\ Inode[i].dir
  BY DEF NodeOk
<1> HIDE DEF i
<1>1. /\ E \in Seq(Entry) /\ Distinct(E) /\ N \in Nat /\ DOMAIN E = 1..N
      /\ i = ROOT => \A k \in 1..N : E[k].name # "dev"
  BY <1>0, DirEntries, LenProperties
<1>2. ext2_readdir(i) = s
  BY DEF ext2_readdir
<1> HIDE DEF E
<1>3. \A k \in 1..N : E[k].name \in STRING
  <2>1. \A k \in 1..N : E[k] \in Entry
    BY <1>1, ElementOfSeq
  <2> QED BY <2>1 DEF Entry
<1>4. a = [k \in 1..N |-> a[k]] /\ \A k \in 1..N : a[k] = E[k].name
  BY <1>1
<1> HIDE DEF a, N
<1>5. a \in Seq(S) /\ Len(a) = N
  <2>1. \A k \in 1..N : a[k] \in S
    BY <1>3, <1>4
  <2> HIDE DEF S
  <2> QED BY <1>1, <1>4, <2>1, FunSeq
<1>6. b \in Seq(S) /\ Len(b) \in {0, 1} /\ (Len(b) = 1 => i = ROOT /\ b[1] = "dev")
  <2>1. CASE i = ROOT
    <3>1. b = <<"dev">>
      BY <2>1
    <3>2. <<"dev">> \in Seq(S) /\ Len(<<"dev">>) = 1 /\ <<"dev">>[1] = "dev"
      OBVIOUS
    <3> HIDE DEF b, S
    <3> QED BY <2>1, <3>1, <3>2
  <2>2. CASE i # ROOT
    <3>1. b = << >>
      BY <2>2
    <3>2. << >> \in Seq(S) /\ Len(<< >>) = 0
      BY EmptySeq
    <3> HIDE DEF b, S
    <3> QED BY <3>1, <3>2
  <2> QED BY <2>1, <2>2
<1> HIDE DEF b, S
<1>7. /\ s \in Seq(S) /\ Len(s) = N + Len(b)
      /\ \A k \in 1..(N + Len(b)) : s[k] = IF k <= N THEN a[k] ELSE b[k - N]
  <2>1. s \in Seq(S) /\ Len(s) = Len(a) + Len(b)
    BY <1>5, <1>6, ConcatProperties
  <2>2. \A k \in 1..(Len(a) + Len(b)) : s[k] = IF k <= Len(a) THEN a[k] ELSE b[k - Len(a)]
    BY <1>5, <1>6, ConcatProperties
  <2> HIDE DEF s
  <2> QED BY <1>5, <2>1, <2>2
<1> HIDE DEF s
<1>8. ASSUME NEW k \in 1..Len(s)
      PROVE  \/ k \in 1..N /\ s[k] = E[k].name
             \/ k = N + 1 /\ i = ROOT /\ s[k] = "dev"
  <2>1. CASE k <= N
    BY <1>1, <1>4, <1>7, <2>1
  <2>2. CASE ~(k <= N)
    <3>1. Len(b) = 1 /\ k = N + 1 /\ k - N = 1
      BY <1>1, <1>6, <1>7, <2>2
    <3> QED BY <1>1, <1>6, <1>7, <2>2, <3>1
  <2> QED BY <2>1, <2>2
<1>9. Len(s) \in Nat /\ s = [k \in 1..Len(s) |-> s[k]]
  BY <1>7, LenProperties
<1>10. ASSUME NEW j \in 1..Len(s), NEW k \in 1..Len(s), s[j] = s[k] PROVE j = k
  <2>1. CASE j \in 1..N /\ k \in 1..N /\ s[j] = E[j].name /\ s[k] = E[k].name
    BY <1>1, <1>10, <2>1 DEF Distinct, N
  <2>2. CASE j = N + 1 /\ k = N + 1
    BY <2>2
  <2>3. CASE j \in 1..N /\ s[j] = E[j].name /\ i = ROOT /\ s[k] = "dev"
    BY <1>1, <1>10, <2>3
  <2>4. CASE k \in 1..N /\ s[k] = E[k].name /\ i = ROOT /\ s[j] = "dev"
    BY <1>1, <1>10, <2>4
  <2> QED BY <1>8, <2>1, <2>2, <2>3, <2>4
<1>11. ASSUME NEW k \in 1..Len(s) PROVE finddir(n, s[k]) # NoNode
  <2>1. finddir(n, s[k]) = DirFind(i, s[k])
    BY Finddir DEF FinddirIs, i
  <2>2. CASE i = ROOT /\ s[k] = "dev"
    <3>1. DirFind(i, s[k]) = Devfs
      BY <2>2 DEF DirFind
    <3> QED BY <2>1, <3>1 DEF Devfs, NoNode, Node
  <2>3. CASE ~(i = ROOT /\ s[k] = "dev")
    <3>1. k \in 1..N /\ s[k] = E[k].name
      BY <1>8, <2>3
    <3>2. ext2_finddir(i, s[k]) # 0
      BY <1>0, <3>1, FindIs DEF E, N
    <3>3. DirFind(i, s[k]) = Node("ext2", ext2_finddir(i, s[k]))
      BY <1>0, <2>3, <3>2 DEF DirFind
    <3> QED BY <2>1, <3>3 DEF NoNode, Node
  <2> QED BY <2>2, <2>3
<1>12. NamesOk(n, s)
  BY <1>9, <1>10, <1>11 DEF NamesOk, IsSeq
<1> QED BY <1>2, <1>12 DEF i

\* Whatever the node.
LEMMA ReaddirNames ==
    ASSUME DevicesOk, g_ptys \in 0..PTY_MAX, NEW n, NodeOk(n)
    PROVE  NamesOk(n, readdir(n)) /\ (n = NoNode => readdir(n) = << >>)
<1>1. CASE n = Devfs
  <2>1. readdir(n) = dev_root_readdir /\ n # NoNode
    BY <1>1, Readdir DEF ReaddirIs, Devfs, NoNode, Node
  <2> QED BY <1>1, <2>1, DevfsNames
<1>2. CASE n = Pts
  <2>1. readdir(n) = pts_readdir /\ n # NoNode
    BY <1>2, Readdir DEF ReaddirIs, Pts, NoNode, Node
  <2> QED BY <1>2, <2>1, PtsNames
<1>3. CASE n.kind = "ext2" /\ Inode[n.id].dir
  <2>1. readdir(n) = ext2_readdir(n.id)
    BY <1>3, Readdir DEF ReaddirIs
  <2>2. n # NoNode
    BY <1>3 DEF NoNode, Node
  <2> QED BY <1>3, <2>1, <2>2, Ext2Names
<1>4. CASE n # Devfs /\ n # Pts /\ ~(n.kind = "ext2" /\ Inode[n.id].dir)
  <2>1. readdir(n) = << >>
    BY <1>4, Readdir DEF ReaddirIs
  <2>2. Len(<< >>) = 0 /\ << >> = [k \in 1..0 |-> << >>[k]] /\ 1..0 = {}
    OBVIOUS
  <2>3. NamesOk(n, << >>)
    BY <2>2 DEF NamesOk, IsSeq
  <2> QED BY <2>1, <2>3
<1> QED BY <1>1, <1>2, <1>3, <1>4

\* The sequence t begins with s.
Extends(s, t) == Len(s) \in Nat /\ Len(t) \in Nat /\ Len(s) <= Len(t) /\ \A k \in 1..Len(s) : t[k] = s[k]

\* What a directory holds stays, in its place.
LEMMA ReaddirGrows ==
    ASSUME DevicesOk, DevicesOk', g_ptys \in 0..PTY_MAX, g_ptys' \in 0..PTY_MAX, g_ptys <= g_ptys',
           NEW n, NodeOk(n), NEW m, Change(n, m)
    PROVE  Extends(readdir(n), readdir(m)')
<1>0. ReaddirIs
  BY Readdir
<1>1. ReaddirIs'
  BY Readdir, PTL
<1>2. /\ m = Devfs => readdir(m)' = dev_root_readdir'
      /\ m = Pts => readdir(m)' = pts_readdir'
      /\ m.kind = "ext2" /\ Inode[m.id].dir => readdir(m)' = ext2_readdir(m.id)
      /\ m # Devfs /\ m # Pts /\ ~(m.kind = "ext2" /\ Inode[m.id].dir) => readdir(m)' = << >>
  BY <1>1 DEF ReaddirIs, ext2_readdir, Entries, InUse, Devfs, Pts, NoNode, Node
<1>3. CASE m # n
  <2>1. n = NoNode
    BY <1>3 DEF Change
  <2>2. n # Devfs /\ n # Pts /\ n.kind # "ext2"
    BY <2>1 DEF Devfs, Pts, NoNode, Node
  <2>3. readdir(n) = << >>
    BY <1>0, <2>2 DEF ReaddirIs
  <2>4. m # Devfs /\ m # Pts /\ m.kind # "ext2"
    BY <1>3 DEF Change, Devfs, Pts, Node
  <2>5. readdir(m)' = << >>
    BY <1>2, <2>4
  <2> QED BY <2>3, <2>5 DEF Extends
<1>4. CASE m = n /\ m = Devfs
  <2>1. dev_root_readdir' = dev_root_readdir
    BY DEF dev_root_readdir, DevicesOk
  <2>2. readdir(n) = readdir(m)'
    BY <1>0, <1>2, <1>4, <2>1 DEF ReaddirIs
  <2>3. Len(readdir(n)) \in Nat
    BY <1>0, <1>4, DevfsNames DEF NamesOk, IsSeq, ReaddirIs
  <2> QED BY <2>2, <2>3 DEF Extends
<1>5. CASE m = n /\ m = Pts
  <2> DEFINE s == pts_readdir
             t == pts_readdir'
  <2>1. readdir(n) = s /\ readdir(m)' = t
    BY <1>0, <1>2, <1>5 DEF ReaddirIs
  <2>2. s = [k \in 1..g_ptys |-> ToString(k - 1)] /\ t = [k \in 1..g_ptys' |-> ToString(k - 1)]
    BY DEF pts_readdir
  <2>3. g_ptys \in Nat /\ g_ptys' \in Nat
    BY FilesAssumption
  <2> HIDE DEF s, t
  <2>4. Len(s) = g_ptys /\ Len(t) = g_ptys'
    <3>1. ASSUME NEW g \in Nat, NEW u, u = [k \in 1..g |-> ToString(k - 1)] PROVE Len(u) = g
      <4>1. u = [k \in 1..g |-> u[k]] /\ \A k \in 1..g : u[k] \in {ToString(x) : x \in Nat}
        BY <3>1
      <4> QED BY <4>1, FunSeq
    <3> QED BY <2>2, <2>3, <3>1
  <2>5. Extends(s, t)
    BY <2>2, <2>3, <2>4 DEF Extends
  <2> QED BY <2>1, <2>5
<1>6. CASE m = n /\ n # Devfs /\ n # Pts
  <2>1. readdir(n) = readdir(m)'
    BY <1>0, <1>2, <1>6 DEF ReaddirIs
  <2>2. Len(readdir(n)) \in Nat
    BY ReaddirNames DEF NamesOk, IsSeq
  <2> QED BY <2>1, <2>2 DEF Extends
<1> QED BY <1>3, <1>4, <1>5, <1>6

-----------------------------------------------------------------------------
(* The inductive invariant of cat and ls.                                  *)

\* Directories and arguments are normalised.
PathsOk(r) == Plain(r.cwd) /\ (r.prog \in {"cat", "ls"} => Plain(r.path))

\* cat has read the beginning of the file i, and its file's offset is where it
\* is; the newline follows when all is read.
Reads(r, i) == /\ r.pc \in {"read", "newline", "close", "exited"}
               /\ r.pc \in {"read", "newline"} => /\ Len(r.out) \in 0..Inode[i].size
                                               /\ r.out = Slice(Inode[i], 0, Len(r.out))
               /\ r.pc = "read" => r.fds[r.fd].node = Node("ext2", i) /\ r.fds[r.fd].offset = Len(r.out)
               /\ r.pc = "newline" => Len(r.out) = Inode[i].size
               /\ r.pc \in {"close", "exited"} => r.out = Printed(Inode[i])
CatOk(r, n) == r.prog = "cat" =>
                  /\ r.pc = "start" => r.fd = -1 /\ r.out = << >>
                  /\ r.fd # -1 /\ n.kind = "ext2" /\ ~Inode[n.id].dir => Reads(r, n.id)

\* ls has listed the first of the names and found each of them; what was there
\* when it began is among the names, and among the listed ones when it is done.
Members(s) == {s[k] : k \in 1..Len(s)}
Listed(r, names) == /\ IsSeq(r.out)
                    /\ Len(r.out) <= Len(names)
                    /\ \A i \in 1..Len(r.out) : DOMAIN r.out[i] = {"name", "node"} /\ r.out[i].name = names[i]
                    /\ \A i \in 1..Len(r.out) : r.out[i].node = NoNode => i = Len(r.out) /\ r.pc = "stat"
                    /\ r.pc = "stat" => Len(r.out) > 0
                    /\ r.was \subseteq Members(names)
                    /\ r.pc = "exited" => r.was \subseteq {r.out[i].name : i \in 1..Len(r.out)}
LsOk(r, names) == r.prog = "ls" => /\ r.pc \in {"start", "readdir", "stat", "exited"}
                                   /\ r.pc = "start" => r.out = << >>
                                   /\ r.pc # "start" => Listed(r, names)

ProgramOk(r, n, names) == PathsOk(r) /\ CatOk(r, n) /\ LsOk(r, names)
Holds(r) == ProgramOk(r, vfs_lookup(r.path), readdir(vfs_lookup(r.path)))

ProgramsInv == /\ FilesInv
               /\ DevicesOk
               /\ \A p \in Pid : Holds(proc[p])

\* Other processes' steps do not matter to cat and ls.
LEMMA CatStays ==
    ASSUME NEW r, NEW n, NEW m, Change(n, m), CatOk(r, n)
    PROVE  CatOk(r, m)
<1>1. m.kind = "ext2" => m = n
  BY DEF Change
<1> QED BY <1>1, Zenon DEF CatOk

\* What ls has listed stays right when names are added behind those there are.
LEMMA LsStays ==
    ASSUME NEW r, NEW s, NEW t, Extends(s, t), LsOk(r, s)
    PROVE  LsOk(r, t)
<1>1. ASSUME Listed(r, s) PROVE Listed(r, t)
  <2>1. Len(r.out) \in Nat /\ Len(r.out) <= Len(s)
    BY <1>1 DEF Listed, IsSeq
  <2>2. Len(r.out) <= Len(t) /\ \A i \in 1..Len(r.out) : i \in 1..Len(s)
    BY <2>1 DEF Extends
  <2>3. \A i \in 1..Len(r.out) : DOMAIN r.out[i] = {"name", "node"} /\ r.out[i].name = t[i]
    BY <1>1, <2>2 DEF Listed, Extends
  <2>4. \A k \in 1..Len(s) : k \in 1..Len(t) /\ t[k] = s[k]
    BY DEF Extends
  <2>5. Members(s) \subseteq Members(t)
    BY <2>4 DEF Members
  <2> QED BY <1>1, <2>2, <2>3, <2>5 DEF Listed
<1> QED BY <1>1 DEF LsOk

\* What a step of others does to what holds of a process.
LEMMA Stays ==
    ASSUME DevicesOk, DevicesOk', Grown, g_ptys \in 0..PTY_MAX, g_ptys' \in 0..PTY_MAX, g_ptys <= g_ptys',
           NEW r, Holds(r)
    PROVE  Holds(r)'
<1> DEFINE n == vfs_lookup(r.path)
           m == vfs_lookup(r.path)'
           s == readdir(n)
           t == readdir(vfs_lookup(r.path))'
<1>1. PathsOk(r) /\ CatOk(r, n) /\ LsOk(r, s)
  BY DEF Holds, ProgramOk
<1>2. CASE r.prog \notin {"cat", "ls"}
  <2>1. CatOk(r, m) /\ LsOk(r, t)
    BY <1>2 DEF CatOk, LsOk
  <2>2. ProgramOk(r, m, t)
    BY <1>1, <2>1 DEF ProgramOk
  <2> QED BY <2>2 DEF Holds
<1>3. CASE r.prog \in {"cat", "ls"}
  <2>1. Len(r.path) \in Nat
    BY <1>1, <1>3, LenProperties DEF PathsOk, Plain
  <2>2. Change(n, m)
    BY <2>1, LookupChange
  <2>3. NodeOk(n)
    BY <2>1, LookupOk DEF LookupIs
  <2>5. Extends(s, t)
    BY <2>2, <2>3, ReaddirGrows
  <2> HIDE DEF n, m, s, t
  <2>8. CatOk(r, m) /\ LsOk(r, t)
    BY <1>1, <2>2, <2>5, CatStays, LsStays
  <2>9. ProgramOk(r, m, t)
    BY <1>1, <2>8 DEF ProgramOk
  <2> QED BY <2>9 DEF Holds, m, t
<1> QED BY <1>2, <1>3

\* What every process becomes satisfies what holds of it.
After == \A q \in Pid : \E r : proc'[q] = r /\ Holds(r)

\* A process that is neither cat nor ls.
LEMMA Idle ==
    ASSUME NEW r, Plain(r.cwd), r.prog \notin {"cat", "ls"}
    PROVE  Holds(r)
  BY DEF Holds, ProgramOk, PathsOk, CatOk, LsOk

\* cat and ls when they start.
LEMMA Starts ==
    ASSUME NEW r, Plain(r.cwd), Plain(r.path), r.pc = "start", r.fd = -1, r.out = << >>
    PROVE  Holds(r)
<1>1. PathsOk(r) /\ \A n : CatOk(r, n) /\ \A s : LsOk(r, s)
  BY DEF PathsOk, CatOk, LsOk
<1> QED BY <1>1 DEF Holds, ProgramOk

\* One process changes.
LEMMA OneAfter ==
    ASSUME ProgramsInv, NEW p \in Pid, NEW r, proc' = [proc EXCEPT ![p] = r], Holds(r)
    PROVE  After
<1>1. DOMAIN proc = Pid /\ \A q \in Pid : Holds(proc[q])
  BY DEF ProgramsInv, FilesInv
<1>2. proc'[p] = r /\ \A q \in Pid : q # p => proc'[q] = proc[q]
  BY <1>1
<1> QED BY <1>1, <1>2 DEF After

\* What a process begins with.
LEMMA ChildIs ==
    ASSUME NEW me, NEW prog, NEW path
    PROVE  LET c == Child(me, prog, path)
           IN  /\ c.prog = prog /\ c.cwd = me.cwd /\ c.path = path /\ c.fd = -1 /\ c.out = << >>
               /\ prog \in {"cat", "ls"} => c.pc = "start"
  BY DEF Child, Nobody

\* A process starts another.
LEMMA ExecAfter ==
    ASSUME ProgramsInv, NEW p \in Pid, NEW me, NEW prog, NEW path, exec(p, me, prog, path),
           IsProcess(me), me.prog \notin {"cat", "ls"}, Plain(me.cwd), prog \in {"cat", "ls"} => Plain(path)
    PROVE  After
<1> DEFINE c == Child(me, prog, path)
           r(x) == [me EXCEPT !.child = x]
<1>1. DOMAIN proc = Pid /\ \A q \in Pid : Holds(proc[q])
  BY DEF ProgramsInv, FilesInv
<1>2. \A x : Holds(r(x))
  <2> SUFFICES ASSUME NEW x PROVE Holds(r(x))
    OBVIOUS
  <2>1. r(x).prog = me.prog /\ r(x).cwd = me.cwd
    BY DEF IsProcess
  <2> HIDE DEF r
  <2> QED BY <2>1, Idle
<1>3. Holds(c)
  <2>1. /\ c.prog = prog /\ c.cwd = me.cwd /\ c.path = path /\ c.fd = -1 /\ c.out = << >>
        /\ prog \in {"cat", "ls"} => c.pc = "start"
    BY ChildIs
  <2> HIDE DEF c
  <2>2. CASE prog \in {"cat", "ls"}
    BY <2>1, <2>2, Starts
  <2>3. CASE prog \notin {"cat", "ls"}
    BY <2>1, <2>3, Idle
  <2> QED BY <2>2, <2>3
<1>4. \/ proc' = [proc EXCEPT ![p] = r(next_pid), ![next_pid] = c]
      \/ proc' = [proc EXCEPT ![p] = r(0)]
  BY DEF exec
<1> HIDE DEF r, c
<1>5. CASE proc' = [proc EXCEPT ![p] = r(next_pid), ![next_pid] = c]
  <2>1. \A q \in Pid : proc'[q] = c \/ proc'[q] = r(next_pid) \/ proc'[q] = proc[q]
    BY <1>1, <1>5
  <2> QED BY <1>1, <1>2, <1>3, <2>1 DEF After
<1>6. CASE proc' = [proc EXCEPT ![p] = r(0)]
  BY <1>2, <1>6, OneAfter
<1> QED BY <1>4, <1>5, <1>6

\* What holds of one process.
LEMMA HoldsOf ==
    ASSUME ProgramsInv, NEW p \in Pid
    PROVE  /\ IsProcess(proc[p]) /\ IsTable(proc[p].fds) /\ DOMAIN proc = Pid /\ TableOk(proc[p])
           /\ Plain(proc[p].cwd)
           /\ proc[p].prog \in {"cat", "ls"} => Plain(proc[p].path)
           /\ CatOk(proc[p], vfs_lookup(proc[p].path))
           /\ LsOk(proc[p], readdir(vfs_lookup(proc[p].path)))
<1>1. FilesInv /\ Holds(proc[p])
  BY DEF ProgramsInv
<1> QED BY <1>1, InvOf DEF Holds, ProgramOk, PathsOk

\* Arguments are made absolute without dots.
LEMMA AbsPlain ==
    ASSUME NEW cwd, Plain(cwd), NEW a \in FileArg \cup DirArg
    PROVE  Plain(make_abs_path(cwd, a))
<1>1. a.segs \in Seq(STRING)
  BY NamesAssumption
<1>2. cwd \in Seq(STRING)
  BY DEF Plain, Dots
<1>3. cwd \o a.segs \in Seq(STRING)
  BY <1>1, <1>2, ConcatProperties
<1> DEFINE s == IF a.abs THEN a.segs ELSE cwd \o a.segs
<1>4. s \in Seq(STRING) /\ make_abs_path(cwd, a) = normalize_path(s)
  BY <1>1, <1>3 DEF make_abs_path
<1> HIDE DEF s
<1> QED BY <1>4, NormPlain DEF Plain

\* The shell and the background start programs.
LEMMA ShellAfter ==
    ASSUME ProgramsInv, NEW p \in Pid, shell_exec(p) \/ background_click(p)
    PROVE  After
<1> DEFINE q == proc[p]
<1>1. IsProcess(q) /\ q.prog \notin {"cat", "ls"} /\ Plain(q.cwd)
  BY HoldsOf DEF shell_exec, background_click, At
<1>2. \E prog, path : exec(p, q, prog, path) /\ (prog \in {"cat", "ls"} => Plain(path))
  <2>1. Plain(<< >>)
    BY EmptySeq DEF Plain
  <2>2. CASE background_click(p)
    BY <2>2 DEF background_click
  <2>3. CASE \E a \in FileArg : exec(p, q, "cat", make_abs_path(<< >>, a))
    <3>1. PICK a \in FileArg : exec(p, q, "cat", make_abs_path(<< >>, a))
      BY <2>3
    <3>2. Plain(make_abs_path(<< >>, a))
      BY <2>1, AbsPlain
    <3> HIDE DEF q
    <3> QED BY <3>1, <3>2
  <2>4. CASE \E a \in DirArg : exec(p, q, "ls", make_abs_path(q.cwd, a))
    <3>1. PICK a \in DirArg : exec(p, q, "ls", make_abs_path(q.cwd, a))
      BY <2>4
    <3>2. Plain(make_abs_path(q.cwd, a))
      BY <1>1, AbsPlain
    <3> HIDE DEF q
    <3> QED BY <3>1, <3>2
  <2>5. CASE \E prog \in {"terminal", "background"} : exec(p, q, prog, << >>)
    BY <2>5
  <2> QED BY <2>2, <2>3, <2>4, <2>5 DEF shell_exec
<1> HIDE DEF q
<1> QED BY <1>1, <1>2, ExecAfter

\* The terminal starts its shell.
LEMMA SpawnAfter ==
    ASSUME ProgramsInv, NEW p \in Pid, spawn_shell_exec(p)
    PROVE  After
<1> DEFINE q == proc[p]
           me == [q EXCEPT !.pc = IF next_pid <= MaxProc THEN "loop" ELSE "exited"]
<1>1. IsProcess(q) /\ q.prog = "terminal" /\ Plain(q.cwd)
  BY HoldsOf DEF spawn_shell_exec, At
<1>2. exec(p, me, "shell", << >>)
  BY DEF spawn_shell_exec
<1>3. IsProcess(me) /\ me.prog = "terminal" /\ me.cwd = q.cwd
  BY <1>1 DEF IsProcess
<1> HIDE DEF me, q
<1> QED BY <1>1, <1>2, <1>3, ExecAfter

\* waitpid.
LEMMA WaitAfter ==
    ASSUME ProgramsInv, NEW p \in Pid, shell_wait(p)
    PROVE  After
<1> DEFINE q == proc[p]
<1>1. IsProcess(q) /\ q.prog = "shell" /\ Plain(q.cwd) /\ DOMAIN proc = Pid
  BY HoldsOf DEF shell_wait, At
<1>2. proc' = [proc EXCEPT ![q.child] = Gone, ![p].child = 0]
  BY DEF shell_wait
<1>3. Gone.prog = "none" /\ Gone.cwd = << >> /\ IsProcess(Gone)
  BY DEF Gone, Nobody, IsProcess
<1>4. Holds(Gone)
  BY <1>3, Idle, EmptySeq DEF Plain
<1>5. ASSUME NEW o \in Pid PROVE \E r : proc'[o] = r /\ Holds(r)
  <2>1. CASE o # p
    <3>1. proc'[o] = Gone \/ proc'[o] = proc[o]
      BY <1>1, <1>2, <2>1
    <3>2. Holds(proc[o])
      BY DEF ProgramsInv
    <3> QED BY <1>4, <3>1, <3>2
  <2>2. CASE o = p /\ q.child # p
    <3> DEFINE r == [q EXCEPT !.child = 0]
    <3>1. proc'[o] = r
      BY <1>1, <1>2, <2>2
    <3>2. r.prog = "shell" /\ r.cwd = q.cwd
      BY <1>1 DEF IsProcess
    <3> HIDE DEF r
    <3>3. Holds(r)
      BY <1>1, <3>2, Idle
    <3> QED BY <3>1, <3>3
  <2>3. CASE o = p /\ q.child = p
    <3> DEFINE r == [Gone EXCEPT !.child = 0]
    <3>1. proc'[o] = r
      BY <1>1, <1>2, <2>3
    <3>2. r.prog = "none" /\ r.cwd = << >>
      BY <1>3 DEF IsProcess
    <3> HIDE DEF r
    <3>3. Holds(r)
      BY <3>2, Idle, EmptySeq DEF Plain
    <3> QED BY <3>1, <3>3
  <2> QED BY <2>1, <2>2, <2>3
<1> QED BY <1>5 DEF After

\* cd.
LEMMA ChdirAfter ==
    ASSUME ProgramsInv, NEW p \in Pid, syscall_chdir(p)
    PROVE  After
<1> DEFINE q == proc[p]
<1>1. IsProcess(q) /\ q.prog = "shell" /\ Plain(q.cwd) /\ DOMAIN proc = Pid
  BY HoldsOf DEF syscall_chdir, At
<1>2. PICK a \in DirArg : proc' = [proc EXCEPT ![p].cwd = make_abs_path(q.cwd, a)]
  BY DEF syscall_chdir
<1> DEFINE cwd == make_abs_path(q.cwd, a)
           r == [q EXCEPT !.cwd = cwd]
<1>3. Plain(cwd)
  BY <1>1, AbsPlain
<1> HIDE DEF cwd
<1>4. proc' = [proc EXCEPT ![p] = r]
  BY <1>1, <1>2 DEF cwd
<1>5. r.prog = "shell" /\ r.cwd = cwd
  BY <1>1 DEF IsProcess
<1> HIDE DEF r
<1> QED BY <1>3, <1>4, <1>5, Idle, OneAfter

\* A terminal on its way.
LEMMA TerminalAfter ==
    ASSUME ProgramsInv, NEW p \in Pid,
           \/ reserve_stdio_fds(p) \/ open_window(p) \/ setup_pty(p)
           \/ spawn_shell_files(p) \/ terminal_exit(p)
    PROVE  After
<1> DEFINE q == proc[p]
<1>1. IsProcess(q) /\ q.prog = "terminal" /\ Plain(q.cwd) /\ DOMAIN proc = Pid
  BY HoldsOf DEF reserve_stdio_fds, open_window, setup_pty, spawn_shell_files, terminal_exit, At
<1>2. CASE terminal_exit(p)
  <2>1. proc' = [proc EXCEPT ![p] = Gone]
    BY <1>2 DEF terminal_exit
  <2>2. Gone.prog = "none" /\ Gone.cwd = << >>
    BY DEF Gone, Nobody
  <2>3. Holds(Gone)
    BY <2>2, Idle, EmptySeq DEF Plain
  <2> QED BY <2>1, <2>3, OneAfter
<1>3. CASE setup_pty(p)
  <2> DEFINE f == FreeFd(proc[p].fds)
             t == alloc_fd(q.fds, Node("master", g_ptys), RDWR)
             path == <<"dev", "pts", ToString(g_ptys)>>
             pc == IF f = -1 THEN "exited" ELSE "stdio"
             r == [q EXCEPT !.fds = t, !.fd = f, !.path = path, !.pc = pc]
             e == [q EXCEPT !.pc = "exited"]
  <2>1. \/ proc' = [proc EXCEPT ![p].fds = t, ![p].fd = f, ![p].path = path, ![p].pc = pc]
        \/ proc' = [proc EXCEPT ![p].pc = "exited"]
    BY <1>3 DEF setup_pty, Goes
  <2> HIDE DEF t, f, path, pc
  <2>2. /\ proc' = [proc EXCEPT ![p] = r] \/ proc' = [proc EXCEPT ![p] = e]
        /\ r.prog = "terminal" /\ r.cwd = q.cwd /\ e.prog = "terminal" /\ e.cwd = q.cwd
    BY <1>1, <2>1 DEF IsProcess
  <2> HIDE DEF r, e
  <2>3. Holds(r) /\ Holds(e)
    BY <1>1, <2>2, Idle
  <2> QED BY <2>2, <2>3, OneAfter
<1>4. CASE ~terminal_exit(p) /\ ~setup_pty(p)
  <2>1. \/ \E t, pc : proc' = [proc EXCEPT ![p].fds = t, ![p].pc = pc]
        \/ \E pc : proc' = [proc EXCEPT ![p].pc = pc]
    <3>1. CASE reserve_stdio_fds(p)
      BY <3>1 DEF reserve_stdio_fds
    <3>2. CASE open_window(p)
      BY <3>2 DEF open_window, Goes
    <3>3. CASE spawn_shell_files(p)
      BY <3>3 DEF spawn_shell_files
    <3> QED BY <1>4, <3>1, <3>2, <3>3, Zenon
  <2>2. CASE \E t, pc : proc' = [proc EXCEPT ![p].fds = t, ![p].pc = pc]
    <3>1. PICK t, pc : proc' = [proc EXCEPT ![p].fds = t, ![p].pc = pc]
      BY <2>2
    <3> DEFINE r == [q EXCEPT !.fds = t, !.pc = pc]
    <3>2. proc' = [proc EXCEPT ![p] = r] /\ r.prog = "terminal" /\ r.cwd = q.cwd
      BY <1>1, <3>1 DEF IsProcess
    <3> HIDE DEF r
    <3> QED BY <1>1, <3>2, Idle, OneAfter
  <2>3. CASE \E pc : proc' = [proc EXCEPT ![p].pc = pc]
    <3>1. PICK pc : proc' = [proc EXCEPT ![p].pc = pc]
      BY <2>3
    <3> DEFINE r == [q EXCEPT !.pc = pc]
    <3>2. proc' = [proc EXCEPT ![p] = r] /\ r.prog = "terminal" /\ r.cwd = q.cwd
      BY <1>1, <3>1 DEF IsProcess
    <3> HIDE DEF r
    <3> QED BY <1>1, <3>2, Idle, OneAfter
  <2> QED BY <2>1, <2>2, <2>3
<1> QED BY <1>2, <1>3, <1>4

\* What has to be shown of cat.
LEMMA CatHolds ==
    ASSUME ProgramsInv, NEW p \in Pid, proc[p].prog = "cat", NEW r,
           proc' = [proc EXCEPT ![p] = r],
           r.prog = "cat", r.cwd = proc[p].cwd, r.path = proc[p].path, r.pc # "start",
           \A i : vfs_lookup(proc[p].path) = Node("ext2", i) /\ i \in DOMAIN Inode /\ ~Inode[i].dir /\ r.fd # -1
                     => Reads(r, i)
    PROVE  After
<1> DEFINE n == vfs_lookup(proc[p].path)
<1>1. Plain(r.cwd) /\ Plain(r.path) /\ DevicesOk
  BY HoldsOf DEF ProgramsInv
<1>2. NodeOk(n)
  <2>1. Len(proc[p].path) \in Nat
    BY <1>1, LenProperties DEF Plain
  <2> QED BY <1>1, <2>1, LookupOk DEF LookupIs
<1> HIDE DEF n
<1>3. CatOk(r, n)
  BY <1>2 DEF CatOk, NodeOk, n
<1>4. CatOk(r, vfs_lookup(r.path))
  BY <1>3 DEF n
<1>5. Holds(r)
  BY <1>1, <1>4 DEF Holds, ProgramOk, PathsOk, LsOk
<1> QED BY <1>5, OneAfter

\* Nothing has been read yet.
LEMMA SliceEmpty ==
    ASSUME NEW inode
    PROVE  Slice(inode, 0, 0) = << >> /\ Len(<< >>) = 0
  BY DEF Slice

\* A file's contents are one slice of it, and its beginning is a prefix of what
\* cat prints of it.
LEMMA ContentIs ==
    ASSUME NEW i \in DOMAIN Inode, NEW c \in 0..Inode[i].size
    PROVE  /\ Content(Inode[i]) = Slice(Inode[i], 0, Inode[i].size)
           /\ IsPrefix(Slice(Inode[i], 0, c), Printed(Inode[i]))
<1> DEFINE f == Inode[i]
           n == f.size
           s == Slice(f, 0, c)
           t == Slice(f, 0, n)
           u == Append(t, Newline)
<1>1. n \in Nat /\ c \in Nat /\ c <= n
  BY ImageAssumption
<1> HIDE DEF n
<1>2. Content(f) = t
  <2>1. \A k \in 1..n : 0 + k - 1 = k - 1
    BY <1>1
  <2> QED BY <2>1 DEF Content, Slice, n
<1>3. /\ Len(s) = c /\ \A k \in 1..c : s[k] = FileByte(f, 0 + k - 1)
      /\ Len(t) = n /\ \A k \in 1..n : t[k] = FileByte(f, 0 + k - 1)
  BY ZenonT(60), <1>1, SliceIs
<1>4. t = [k \in 1..n |-> t[k]]
  BY DEF Slice
<1> HIDE DEF s, t, f
<1>5. Len(u) = n + 1 /\ \A k \in 1..n : u[k] = t[k]
  <2>1. t \in Seq({t[k] : k \in 1..n} \cup {Newline})
    BY <1>1, <1>4
  <2> QED BY <1>1, <1>3, <2>1, AppendProperties
<1> HIDE DEF u
<1>6. SubSeq(s, 1, c) = [k \in 1..c |-> s[k]] /\ SubSeq(u, 1, c) = [k \in 1..c |-> u[k]]
  BY <1>1
<1>7. \A k \in 1..c : s[k] = u[k]
  BY <1>1, <1>3, <1>5
<1>8. IsPrefix(s, u)
  BY <1>1, <1>3, <1>5, <1>6, <1>7 DEF IsPrefix
<1>9. u = Printed(f)
  BY <1>2 DEF Printed, u
<1> QED BY <1>2, <1>8, <1>9 DEF s, t, f, n

\* All of it is a prefix of itself.
LEMMA PrintedWhole ==
    ASSUME NEW i \in DOMAIN Inode
    PROVE  IsPrefix(Printed(Inode[i]), Printed(Inode[i]))
<1> DEFINE c == Content(Inode[i])
           u == Printed(Inode[i])
<1>1. Inode[i].size \in Nat
  BY ImageAssumption
<1>2. c = [k \in 1..Inode[i].size |-> c[k]]
  BY Zenon DEF Content
<1> DEFINE n == Inode[i].size
<1> HIDE DEF c, n
<1>3. c \in Seq({c[k] : k \in 1..n} \cup {Newline})
  <2>1. n \in Nat /\ c = [k \in 1..n |-> c[k]]
    BY <1>1, <1>2 DEF n
  <2>2. \A k \in 1..n : c[k] \in {c[x] : x \in 1..n} \cup {Newline}
    OBVIOUS
  <2> DEFINE S == {c[x] : x \in 1..n} \cup {Newline}
  <2>3. \A k \in 1..n : c[k] \in S
    BY <2>2
  <2> HIDE DEF S
  <2>4. c \in [1..n -> S]
    BY <2>1, <2>3
  <2>5. c \in Seq(S)
    BY <2>1, <2>4
  <2> QED BY <2>5 DEF S
<1>4. u = Append(c, Newline)
  BY DEF Printed, c
<1> HIDE DEF u
<1>5. Len(u) \in Nat
  BY <1>3, <1>4, AppendProperties, LenProperties
<1>6. IsPrefix(u, u)
  BY <1>5 DEF IsPrefix
<1> QED BY <1>6 DEF u

\* cat opens the file.
LEMMA OpenAfter ==
    ASSUME ProgramsInv, NEW p \in Pid, cat_open(p)
    PROVE  After
<1> DEFINE q == proc[p]
           f == FreeFd(q.fds)
           node == vfs_lookup(q.path)
           t == alloc_fd(q.fds, node, {"r"})
           r == [q EXCEPT !.fds = t, !.fd = f, !.pc = "read"]
           e == [q EXCEPT !.pc = "exited"]
<1>1. q.prog = "cat" /\ q.pc = "start" /\ IsProcess(q) /\ IsTable(q.fds) /\ DOMAIN proc = Pid
  BY HoldsOf DEF cat_open, At
<1>2. q.fd = -1 /\ q.out = << >>
  BY <1>1, HoldsOf DEF CatOk
<1>3. \/ proc' = [proc EXCEPT ![p].pc = "exited"]
      \/ f # -1 /\ proc' = [proc EXCEPT ![p].fds = t, ![p].fd = f, ![p].pc = "read"]
  <2> HIDE DEF f
  <2> QED BY DEF cat_open, Goes, f
<1>4. CASE proc' = [proc EXCEPT ![p].pc = "exited"]
  <2>1. /\ proc' = [proc EXCEPT ![p] = e] /\ e.prog = "cat" /\ e.cwd = q.cwd /\ e.path = q.path
        /\ e.pc # "start" /\ e.fd = -1
    BY <1>1, <1>2, <1>4 DEF IsProcess
  <2> HIDE DEF e
  <2> QED BY <1>1, <2>1, CatHolds
<1>5. CASE f # -1 /\ proc' = [proc EXCEPT ![p].fds = t, ![p].fd = f, ![p].pc = "read"]
  <2> HIDE DEF node
  <2>1. Opened(q.fds, t, f, node)
    BY <1>1, <1>5, AllocIs, Zenon
  <2> HIDE DEF t, f
  <2>2. t[f].node = node /\ t[f].offset = 0
    BY <2>1 DEF Opened
  <2>3. /\ proc' = [proc EXCEPT ![p] = r] /\ r.prog = "cat" /\ r.cwd = q.cwd /\ r.path = q.path
        /\ r.pc = "read" /\ r.fds = t /\ r.fd = f /\ r.out = << >>
    BY <1>1, <1>2, <1>5 DEF IsProcess
  <2> HIDE DEF r
  <2>4. ASSUME NEW i, node = Node("ext2", i), i \in DOMAIN Inode, ~Inode[i].dir PROVE Reads(r, i)
    <3>1. Inode[i].size \in Nat
      BY <2>4, FileSound
    <3>2. Len(r.out) = 0 /\ r.out = Slice(Inode[i], 0, Len(r.out))
      BY <2>3, SliceEmpty
    <3>3. Len(r.out) \in 0..Inode[i].size
      BY <3>1, <3>2
    <3> QED BY <2>2, <2>3, <2>4, <3>2, <3>3 DEF Reads
  <2> QED BY <1>1, <2>3, <2>4, CatHolds DEF node
<1> QED BY <1>3, <1>4, <1>5

\* The bytes data continue what has been read of the file i.
Continues(i, out, data) ==
    /\ Len(data) \in Nat
    /\ Len(out \o data) = Len(out) + Len(data)
    /\ Len(out \o data) \in 0..Inode[i].size
    /\ out \o data = Slice(Inode[i], 0, Len(out \o data))
    /\ Len(data) < CATBUF => Len(out \o data) = Inode[i].size

\* What one read adds.
LEMMA ReadMore ==
    ASSUME NEW i \in DOMAIN Inode, ~Inode[i].dir, NEW out,
           Len(out) \in 0..Inode[i].size, out = Slice(Inode[i], 0, Len(out))
    PROVE  Continues(i, out, ext2_read_file(Inode[i], Len(out), CATBUF))
<1> DEFINE L == Len(out)
           size == Inode[i].size
           m == IF CATBUF <= size - L THEN CATBUF ELSE size - L
           data == ext2_read_file(Inode[i], Len(out), CATBUF)
<1>1. size \in Nat /\ CATBUF \in Nat
  BY FileSound, FilesAssumption
<1> HIDE DEF L, data
<1>2. L \in Nat /\ L <= size /\ m \in Nat /\ L + m \in 0..size /\ (m < CATBUF => L + m = size)
  BY <1>1 DEF L
<1>3. data = Slice(Inode[i], L, m)
  <2>1. L \in Nat /\ L <= Inode[i].size /\ CATBUF \in Nat
    BY <1>1, <1>2
  <2>2. ext2_read_file(Inode[i], L, CATBUF) = Slice(Inode[i], L, m)
    BY <2>1, ReadFile
  <2> QED BY <2>2 DEF L, data
<1> HIDE DEF m, size
<1>4. Len(data) = m
  <2>1. Len(Slice(Inode[i], L, m)) = m
    BY <1>2, SliceIs, Zenon
  <2> QED BY <1>3, <2>1
<1>5. out = Slice(Inode[i], 0, L)
  BY DEF L
<1>6. out \o data = Slice(Inode[i], 0, L + m)
  <2>1. 0 \in Nat /\ 0 + L = L
    BY <1>2
  <2>2. Slice(Inode[i], 0, L) \o Slice(Inode[i], 0 + L, m) = Slice(Inode[i], 0, L + m)
    BY <1>2, <2>1, SliceJoin
  <2> QED BY <1>3, <1>5, <2>1, <2>2
<1>7. Len(out \o data) = L + m
  <2>1. L + m \in Nat
    BY <1>2
  <2>2. Len(Slice(Inode[i], 0, L + m)) = L + m
    <3>1. 0 \in Nat
      OBVIOUS
    <3> QED BY <2>1, <3>1, SliceIs, Zenon
  <2> QED BY <1>6, <2>2
<1>8. /\ Len(data) \in Nat /\ Len(out \o data) = L + Len(data) /\ Len(out \o data) \in 0..size
      /\ Len(data) < CATBUF => Len(out \o data) = size
  BY <1>2, <1>4, <1>7
<1>9. out \o data = Slice(Inode[i], 0, Len(out \o data))
  BY <1>6, <1>7
<1>10. Continues(i, out, data)
  BY <1>8, <1>9 DEF Continues, L, size
<1> QED BY <1>10 DEF data

\* cat reads on.
LEMMA ReadAfter ==
    ASSUME ProgramsInv, NEW p \in Pid, cat_read(p)
    PROVE  After
<1> DEFINE q == proc[p]
           f == q.fd
           node == q.fds[f].node
           file == node.kind = "ext2" /\ ~Inode[node.id].dir
<1>1. q.prog = "cat" /\ q.pc = "read" /\ IsProcess(q) /\ IsTable(q.fds) /\ DOMAIN proc = Pid /\ f \in Fd /\ f # -1
  BY HoldsOf, FirstFds DEF cat_read, At, TableOk
<1>2. PICK data :
         /\ file => data = ext2_read_file(Inode[node.id], q.fds[f].offset, CATBUF)
         /\ proc' = [proc EXCEPT ![p].out = @ \o data, ![p].fds = syscall_read(@, f, data),
                                 ![p].pc = IF Len(data) < CATBUF THEN "newline" ELSE "read"]
  BY Zenon DEF cat_read
<1> DEFINE t == syscall_read(q.fds, f, data)
           o == q.out \o data
           pc == IF Len(data) < CATBUF THEN "newline" ELSE "read"
           r == [q EXCEPT !.out = o, !.fds = t, !.pc = pc]
<1>3. proc' = [proc EXCEPT ![p] = r]
  <2> HIDE DEF pc
  <2>1. proc' = [proc EXCEPT ![p].out = @ \o data, ![p].fds = syscall_read(@, f, data), ![p].pc = pc]
    BY <1>2 DEF pc
  <2> QED BY <1>1, <2>1 DEF IsProcess
<1>4. file => t[f].node = node /\ t[f].offset = q.fds[f].offset + Len(data)
  <2>1. q.fds = [k \in Fd |-> q.fds[k]] /\ DOMAIN q.fds[f] = {"node", "flags", "offset"}
    BY <1>1 DEF IsTable, IsFile
  <2>2. DOMAIN q.fds = Fd
    BY <2>1
  <2> QED BY <1>1, <2>1, <2>2 DEF syscall_read
<1> HIDE DEF t, o
<1>5. pc \in {"newline", "read"}
  OBVIOUS
<1>6. /\ r.prog = "cat" /\ r.cwd = q.cwd /\ r.path = q.path /\ r.pc = pc /\ r.out = o /\ r.fds = t /\ r.fd = f
  <2> HIDE DEF pc
  <2> QED BY <1>1 DEF IsProcess
<1> HIDE DEF r
<1>7. ASSUME NEW i, vfs_lookup(q.path) = Node("ext2", i), i \in DOMAIN Inode, ~Inode[i].dir PROVE Reads(r, i)
  <2>1. Node("ext2", i).kind = "ext2" /\ Node("ext2", i).id = i
    BY DEF Node
  <2>2. Reads(q, i)
    <3>1. CatOk(q, Node("ext2", i))
      BY <1>7, HoldsOf
    <3> QED BY <1>1, <1>7, <2>1, <3>1 DEF CatOk
  <2>3. node = Node("ext2", i) /\ q.fds[f].offset = Len(q.out) /\ Len(q.out) \in 0..Inode[i].size
        /\ q.out = Slice(Inode[i], 0, Len(q.out))
    BY <1>1, <2>2 DEF Reads
  <2>4. file /\ node.id = i
    BY <1>7, <2>1, <2>3
  <2>5. data = ext2_read_file(Inode[i], Len(q.out), CATBUF)
    BY <1>2, <2>3, <2>4
  <2>6. /\ Len(data) \in Nat /\ Len(o) = Len(q.out) + Len(data)
        /\ Len(o) \in 0..Inode[i].size
        /\ o = Slice(Inode[i], 0, Len(o))
        /\ Len(data) < CATBUF => Len(o) = Inode[i].size
    <3> DEFINE u == q.out
    <3>1. /\ i \in DOMAIN Inode /\ ~Inode[i].dir /\ Len(u) \in 0..Inode[i].size
          /\ u = Slice(Inode[i], 0, Len(u)) /\ data = ext2_read_file(Inode[i], Len(u), CATBUF)
      BY <1>7, <2>3, <2>5
    <3> HIDE DEF u
    <3>2. Continues(i, u, data)
      BY <3>1, ReadMore
    <3> QED BY <3>2 DEF Continues, o, u
  <2>7. t[f].node = Node("ext2", i) /\ t[f].offset = Len(o)
    BY <1>4, <2>3, <2>4, <2>6
  <2>8. pc = "newline" => Len(o) = Inode[i].size
    BY <2>6, FilesAssumption
  <2> HIDE DEF pc
  <2> QED BY <1>5, <1>6, <2>6, <2>7, <2>8 DEF Reads
<1>8. r.pc # "start"
  BY <1>5, <1>6
<1> HIDE DEF pc
<1> QED BY <1>1, <1>3, <1>6, <1>7, <1>8, CatHolds

\* cat prints its newline.
LEMMA NewlineAfter ==
    ASSUME ProgramsInv, NEW p \in Pid, cat_newline(p)
    PROVE  After
<1> DEFINE q == proc[p]
           o == Append(q.out, Newline)
           r == [q EXCEPT !.out = o, !.pc = "close"]
<1>1. q.prog = "cat" /\ q.pc = "newline" /\ IsProcess(q) /\ DOMAIN proc = Pid /\ q.fd # -1
  BY HoldsOf, FirstFds DEF cat_newline, At, TableOk
<1>2. proc' = [proc EXCEPT ![p].out = o, ![p].pc = "close"]
  BY <1>1 DEF cat_newline, IsProcess
<1> HIDE DEF o
<1>3. /\ proc' = [proc EXCEPT ![p] = r] /\ r.prog = "cat" /\ r.cwd = q.cwd /\ r.path = q.path
      /\ r.pc = "close" /\ r.out = o
  BY <1>1, <1>2 DEF IsProcess
<1> HIDE DEF r
<1>4. ASSUME NEW i, vfs_lookup(q.path) = Node("ext2", i), i \in DOMAIN Inode, ~Inode[i].dir PROVE Reads(r, i)
  <2>1. CatOk(q, Node("ext2", i)) /\ Node("ext2", i).kind = "ext2" /\ Node("ext2", i).id = i
    BY <1>4, HoldsOf DEF Node
  <2>2. Reads(q, i)
    BY <1>1, <1>4, <2>1 DEF CatOk
  <2>3. Inode[i].size \in 0..Inode[i].size /\ q.out = Slice(Inode[i], 0, Inode[i].size)
    BY <1>1, <2>2 DEF Reads
  <2>4. q.out = Content(Inode[i])
    BY <1>4, <2>3, ContentIs, Zenon
  <2>5. o = Printed(Inode[i])
    BY <2>4 DEF Printed, o
  <2> QED BY <1>3, <2>5 DEF Reads
<1> QED BY <1>1, <1>3, <1>4, CatHolds

\* cat closes the file.
LEMMA CloseAfter ==
    ASSUME ProgramsInv, NEW p \in Pid, cat_close(p)
    PROVE  After
<1> DEFINE q == proc[p]
           t == Close(q.fds, q.fd)
           r == [q EXCEPT !.fds = t, !.pc = "exited"]
<1>1. q.prog = "cat" /\ q.pc = "close" /\ IsProcess(q) /\ DOMAIN proc = Pid /\ q.fd # -1
  BY HoldsOf, FirstFds DEF cat_close, At, TableOk
<1>2. proc' = [proc EXCEPT ![p].fds = t, ![p].pc = "exited"]
  BY <1>1 DEF cat_close, IsProcess
<1> HIDE DEF t
<1>3. /\ proc' = [proc EXCEPT ![p] = r] /\ r.prog = "cat" /\ r.cwd = q.cwd /\ r.path = q.path
      /\ r.pc = "exited" /\ r.out = q.out
  BY <1>1, <1>2 DEF IsProcess
<1> HIDE DEF r
<1>4. ASSUME NEW i, vfs_lookup(q.path) = Node("ext2", i), i \in DOMAIN Inode, ~Inode[i].dir PROVE Reads(r, i)
  <2>1. CatOk(q, Node("ext2", i)) /\ Node("ext2", i).kind = "ext2" /\ Node("ext2", i).id = i
    BY <1>4, HoldsOf DEF Node
  <2>2. Reads(q, i)
    BY <1>1, <1>4, <2>1 DEF CatOk
  <2> QED BY <1>1, <1>3, <2>2 DEF Reads
<1> QED BY <1>1, <1>3, <1>4, CatHolds

\* ls stats a name by a path that leads somewhere.
LEMMA NameFound ==
    ASSUME NEW path, Plain(path), NEW name, finddir(vfs_lookup(path), name) # NoNode
    PROVE  vfs_lookup(normalize_path(path \o <<name>>)) # NoNode
<1> DEFINE S == STRING \cup {name}
<1>1. path \in Seq(S) /\ name \in S
  BY DEF Plain, Dots
<1>2. normalize_path(path \o <<name>>) = Pushed(path, name)
  BY NormName
<1>3. vfs_lookup(path) # NoNode
  <2>1. NoNode.kind # "ext2" /\ NoNode # Devfs /\ NoNode # Pts
    BY DEF NoNode, Devfs, Pts, Node
  <2>2. finddir(NoNode, name) = NoNode
    BY <2>1, Finddir DEF FinddirIs
  <2> QED BY <2>2
<1> HIDE DEF S
<1>4. CASE name = "." \/ (name = ".." /\ path = << >>)
  <2>1. Pushed(path, name) = path
    BY <1>4, PushedIs
  <2> QED BY <1>2, <1>3, <2>1
<1>5. CASE name = ".." /\ path # << >>
  <2>1. Pushed(path, name) = Front(path)
    BY <1>5, PushedIs
  <2>2. vfs_lookup(Front(path)) # NoNode
    BY <1>1, <1>3, <1>5, LookupFront
  <2> QED BY <1>2, <2>1, <2>2
<1>6. CASE name \notin Dots
  <2>1. Pushed(path, name) = Append(path, name)
    BY <1>6, PushedIs
  <2>2. vfs_lookup(Append(path, name)) = finddir(vfs_lookup(path), name)
    BY <1>1, LookupAppend
  <2> QED BY <1>2, <2>1, <2>2
<1> QED BY <1>4, <1>5, <1>6 DEF Dots

\* What has to be shown of ls.
LEMMA LsHolds ==
    ASSUME ProgramsInv, NEW p \in Pid, proc[p].prog = "ls", NEW r,
           proc' = [proc EXCEPT ![p] = r],
           r.prog = "ls", r.cwd = proc[p].cwd, r.path = proc[p].path, r.pc \in {"readdir", "stat", "exited"},
           Listed(r, readdir(vfs_lookup(proc[p].path)))
    PROVE  After
<1> DEFINE s == readdir(vfs_lookup(proc[p].path))
<1>1. Plain(r.cwd) /\ Plain(r.path)
  BY HoldsOf
<1>2. LsOk(r, readdir(vfs_lookup(r.path)))
  BY DEF LsOk
<1>3. Holds(r)
  BY <1>1, <1>2 DEF Holds, ProgramOk, PathsOk, CatOk
<1> QED BY <1>3, OneAfter

\* The directory ls reads.
LEMMA LsDir ==
    ASSUME ProgramsInv, NEW p \in Pid, proc[p].prog = "ls"
    PROVE  NamesOk(vfs_lookup(proc[p].path), readdir(vfs_lookup(proc[p].path)))
<1>1. Plain(proc[p].path) /\ DevicesOk /\ g_ptys \in 0..PTY_MAX
  BY HoldsOf DEF ProgramsInv, FilesInv
<1>2. Len(proc[p].path) \in Nat
  BY <1>1, LenProperties DEF Plain
<1>3. NodeOk(vfs_lookup(proc[p].path))
  BY <1>1, <1>2, LookupOk DEF LookupIs
<1> QED BY <1>1, <1>3, ReaddirNames

\* ls begins.
LEMMA StartAfter ==
    ASSUME ProgramsInv, NEW p \in Pid, ls_start(p)
    PROVE  After
<1> DEFINE q == proc[p]
           s == readdir(vfs_lookup(q.path))
           r == [q EXCEPT !.was = Range(s), !.pc = "readdir"]
<1>1. q.prog = "ls" /\ q.pc = "start" /\ IsProcess(q) /\ DOMAIN proc = Pid
  BY HoldsOf DEF ls_start, At
<1>2. q.out = << >>
  BY <1>1, HoldsOf DEF LsOk
<1>3. proc' = [proc EXCEPT ![p].was = Range(s), ![p].pc = "readdir"]
  BY DEF ls_start
<1>4. IsSeq(s)
  BY <1>1, LsDir DEF NamesOk
<1> HIDE DEF s
<1>5. Range(s) = Members(s)
  <2>1. DOMAIN s = 1..Len(s)
    BY <1>4 DEF IsSeq
  <2> QED BY <2>1 DEF Range, Members
<1>6. /\ proc' = [proc EXCEPT ![p] = r] /\ r.prog = "ls" /\ r.cwd = q.cwd /\ r.path = q.path
      /\ r.pc = "readdir" /\ r.out = << >> /\ r.was = Range(s)
  BY <1>1, <1>2, <1>3 DEF IsProcess
<1> HIDE DEF r
<1>7. Listed(r, s)
  <2>1. Len(<< >>) = 0 /\ << >> = [k \in 1..0 |-> << >>[k]] /\ 1..0 = {}
    OBVIOUS
  <2>2. IsSeq(r.out) /\ Len(r.out) <= Len(s) /\ 1..Len(r.out) = {}
    BY <1>4, <1>6, <2>1 DEF IsSeq
  <2> QED BY <1>5, <1>6, <2>2 DEF Listed
<1> QED BY <1>1, <1>6, <1>7, LsHolds DEF s

\* One more element.
LEMMA IsSeqAppend ==
    ASSUME NEW s, IsSeq(s), NEW x
    PROVE  /\ IsSeq(Append(s, x)) /\ Len(Append(s, x)) = Len(s) + 1
           /\ Append(s, x)[Len(s) + 1] = x
           /\ \A k \in 1..Len(s) : Append(s, x)[k] = s[k]
<1> DEFINE S == Members(s) \cup {x}
           t == Append(s, x)
<1>1. s \in Seq(S)
  <2>1. \A k \in 1..Len(s) : s[k] \in S
    BY DEF Members
  <2> HIDE DEF S
  <2> QED BY <2>1, FunSeq DEF IsSeq
<1>2. x \in S
  OBVIOUS
<1> HIDE DEF S
<1>3. /\ t \in Seq(S) /\ Len(t) = Len(s) + 1 /\ t[Len(s) + 1] = x
      /\ \A k \in 1..Len(s) : t[k] = s[k]
  BY <1>1, <1>2, AppendProperties
<1> HIDE DEF t
<1>4. IsSeq(t)
  BY <1>3, LenProperties DEF IsSeq
<1> QED BY <1>3, <1>4 DEF t

\* ls asks for the next name.
LEMMA ReaddirAfter ==
    ASSUME ProgramsInv, NEW p \in Pid, ls_readdir(p)
    PROVE  After
<1> DEFINE q == proc[p]
           s == readdir(vfs_lookup(q.path))
           i == Len(q.out) + 1
           x == [name |-> s[i], node |-> NoNode]
           o == Append(q.out, x)
           r == [q EXCEPT !.out = o, !.pc = "stat"]
           e == [q EXCEPT !.pc = "exited"]
<1>1. q.prog = "ls" /\ q.pc = "readdir" /\ IsProcess(q) /\ DOMAIN proc = Pid
  BY HoldsOf DEF ls_readdir, At
<1>2. Listed(q, s)
  BY <1>1, HoldsOf DEF LsOk
<1>3. \/ i > Len(s) /\ proc' = [proc EXCEPT ![p].pc = "exited"]
      \/ i <= Len(s) /\ proc' = [proc EXCEPT ![p].out = o, ![p].pc = "stat"]
  BY DEF ls_readdir, Goes
<1>4. IsSeq(s) /\ Len(s) \in Nat /\ Len(q.out) \in Nat /\ IsSeq(q.out) /\ Len(q.out) <= Len(s)
  BY <1>1, <1>2, LsDir DEF NamesOk, IsSeq, Listed
<1> HIDE DEF s
<1>5. CASE i > Len(s) /\ proc' = [proc EXCEPT ![p].pc = "exited"]
  <2>1. /\ proc' = [proc EXCEPT ![p] = e] /\ e.prog = "ls" /\ e.cwd = q.cwd /\ e.path = q.path
        /\ e.pc = "exited" /\ e.out = q.out /\ e.was = q.was
    BY <1>1, <1>5 DEF IsProcess
  <2> HIDE DEF e
  <2>2. Len(q.out) = Len(s)
    BY <1>4, <1>5
  <2>3. Members(s) = {e.out[k].name : k \in 1..Len(e.out)}
    <3>1. \A k \in 1..Len(s) : e.out[k].name = s[k]
      BY <1>2, <2>1, <2>2 DEF Listed
    <3> QED BY <2>1, <2>2, <3>1 DEF Members
  <2>4. Listed(e, s)
    BY <1>1, <1>2, <2>1, <2>3 DEF Listed
  <2> QED BY <1>1, <2>1, <2>4, LsHolds DEF s
<1>6. CASE i <= Len(s) /\ proc' = [proc EXCEPT ![p].out = o, ![p].pc = "stat"]
  <2>0. x.name = s[i] /\ DOMAIN x = {"name", "node"}
    OBVIOUS
  <2> HIDE DEF x
  <2>1. /\ IsSeq(o) /\ Len(o) = i /\ o[i] = x
        /\ \A k \in 1..Len(q.out) : o[k] = q.out[k]
    BY <1>4, IsSeqAppend
  <2> HIDE DEF o
  <2>2. /\ proc' = [proc EXCEPT ![p] = r] /\ r.prog = "ls" /\ r.cwd = q.cwd /\ r.path = q.path
        /\ r.pc = "stat" /\ r.out = o /\ r.was = q.was
    BY <1>1, <1>6 DEF IsProcess
  <2> HIDE DEF r
  <2>3. \A k \in 1..i : k = i \/ k \in 1..Len(q.out)
    BY <1>4
  <2>4. \A k \in 1..Len(o) : DOMAIN o[k] = {"name", "node"} /\ o[k].name = s[k]
    BY <1>2, <2>0, <2>1, <2>3 DEF Listed
  <2>5. \A k \in 1..Len(o) : o[k].node = NoNode => k = Len(o)
    BY <1>1, <1>2, <2>1, <2>3 DEF Listed
  <2>6. Len(o) <= Len(s) /\ Len(o) > 0
    BY <1>4, <1>6, <2>1
  <2>7. q.was \subseteq Members(s)
    BY <1>2 DEF Listed
  <2> HIDE DEF i
  <2>8. Listed(r, s)
    BY <2>1, <2>2, <2>4, <2>5, <2>6, <2>7 DEF Listed
  <2> QED BY <1>1, <2>2, <2>8, LsHolds DEF s
<1> QED BY <1>3, <1>5, <1>6

\* ls stats the name.
LEMMA StatAfter ==
    ASSUME ProgramsInv, NEW p \in Pid, ls_stat(p)
    PROVE  After
<1> DEFINE q == proc[p]
           n == vfs_lookup(q.path)
           s == readdir(n)
           L == Len(q.out)
           name == q.out[L].name
           full == normalize_path(q.path \o <<name>>)
           o == [q.out EXCEPT ![L].node = vfs_lookup(full)]
           r == [q EXCEPT !.out = o, !.pc = "readdir"]
<1>1. q.prog = "ls" /\ q.pc = "stat" /\ IsProcess(q) /\ DOMAIN proc = Pid /\ Plain(q.path)
  BY HoldsOf DEF ls_stat, At
<1>2. Listed(q, s)
  BY <1>1, HoldsOf DEF LsOk
<1>3. NamesOk(n, s)
  BY <1>1, LsDir
<1>4. proc' = [proc EXCEPT ![p].out[L].node = vfs_lookup(full), ![p].pc = "readdir"]
  BY DEF ls_stat, make_abs_path, Last
<1> HIDE DEF n, s
<1>5. L \in Nat /\ L > 0 /\ Len(s) \in Nat /\ L <= Len(s) /\ L \in 1..Len(s) /\ L \in 1..L
      /\ q.out = [k \in 1..L |-> q.out[k]]
  BY <1>1, <1>2, <1>3 DEF Listed, NamesOk, IsSeq
<1>6. name = s[L]
  BY <1>2, <1>5 DEF Listed
<1>7. vfs_lookup(full) # NoNode
  <2>1. finddir(n, name) # NoNode
    BY <1>3, <1>5, <1>6 DEF NamesOk
  <2> HIDE DEF name
  <2> QED BY <1>1, <2>1, NameFound DEF n
<1> DEFINE v == vfs_lookup(full)
<1>8. proc' = [proc EXCEPT ![p].out[L].node = v, ![p].pc = "readdir"] /\ v # NoNode
      /\ o = [q.out EXCEPT ![L].node = v]
  BY <1>4, <1>7
<1> HIDE DEF full, v
<1>9. proc' = [proc EXCEPT ![p] = r]
  BY <1>1, <1>8 DEF IsProcess
<1>10. /\ o = [k \in 1..L |-> o[k]]
       /\ \A k \in 1..L : k # L => o[k] = q.out[k]
       /\ DOMAIN o[L] = {"name", "node"} /\ o[L].name = name /\ o[L].node = v
  <2>1. DOMAIN q.out[L] = {"name", "node"}
    BY <1>2, <1>5 DEF Listed
  <2>2. DOMAIN q.out = 1..L
    BY <1>5
  <2>3. o[L] = [q.out[L] EXCEPT !.node = v] /\ DOMAIN o = 1..L /\ \A k \in 1..L : k # L => o[k] = q.out[k]
    BY <1>5, <1>8, <2>2
  <2>4. o = [k \in 1..L |-> o[k]]
    BY <1>8, <2>2
  <2> HIDE DEF o
  <2> QED BY <2>1, <2>3, <2>4
<1> HIDE DEF o
<1>11. r.prog = "ls" /\ r.cwd = q.cwd /\ r.path = q.path /\ r.pc = "readdir" /\ r.out = o /\ r.was = q.was
  BY <1>1 DEF IsProcess
<1> HIDE DEF r
<1>12. IsSeq(o) /\ Len(o) = L
  <2>1. Len(o) = L
    <3>1. \A k \in 1..L : o[k] \in {o[j] : j \in 1..L}
      OBVIOUS
    <3> QED BY <1>5, <1>10, <3>1, FunSeq
  <2> QED BY <1>5, <1>10, <2>1 DEF IsSeq
<1>13. \A k \in 1..L : DOMAIN o[k] = {"name", "node"} /\ o[k].name = s[k] /\ o[k].node # NoNode
  <2>1. \A k \in 1..L : k # L => DOMAIN q.out[k] = {"name", "node"} /\ q.out[k].name = s[k] /\ q.out[k].node # NoNode
    BY <1>2 DEF Listed
  <2> QED BY <1>6, <1>8, <1>10, <2>1
<1>14. q.was \subseteq Members(s)
  BY <1>2 DEF Listed
<1> HIDE DEF L
<1>15. Listed(r, s)
  BY <1>5, <1>11, <1>12, <1>13, <1>14 DEF Listed
<1> QED BY <1>1, <1>9, <1>11, <1>15, LsHolds DEF s, n

-----------------------------------------------------------------------------
(* cat and ls are exact.                                                   *)

\* At boot there is one shell, in the root directory.
LEMMA ProgramsInitial == Init => ProgramsInv
<1> SUFFICES ASSUME Init PROVE ProgramsInv
  OBVIOUS
<1>1. FilesInv /\ DevicesOk
  BY FilesInitial, DevicesInitial
<1>2. ASSUME NEW p \in Pid PROVE Holds(proc[p])
  <2>1. proc[p].cwd = << >> /\ proc[p].prog \in {"shell", "none"}
    BY DEF Init, Nobody
  <2>2. Plain(<< >>)
    BY EmptySeq DEF Plain
  <2> QED BY <2>1, <2>2, Idle
<1> QED BY <1>1, <1>2 DEF ProgramsInv

\* Whatever one process does, what holds of each process held before.
LEMMA StepAfter ==
    ASSUME ProgramsInv, [Next]_vars
    PROVE  After
<1>1. CASE UNCHANGED vars
  <2>1. proc' = proc
    BY <1>1 DEF vars
  <2> QED BY <2>1, Zenon DEF After, ProgramsInv
<1>2. ASSUME NEW p \in Pid,
             \/ shell_exec(p) \/ shell_wait(p) \/ syscall_chdir(p) \/ background_click(p)
             \/ cat_open(p) \/ cat_read(p) \/ cat_newline(p) \/ cat_close(p)
             \/ ls_start(p) \/ ls_readdir(p) \/ ls_stat(p)
             \/ reserve_stdio_fds(p) \/ open_window(p) \/ setup_pty(p)
             \/ spawn_shell_files(p) \/ spawn_shell_exec(p) \/ terminal_exit(p)
      PROVE  After
  BY <1>2, ShellAfter, WaitAfter, ChdirAfter, OpenAfter, ReadAfter, NewlineAfter, CloseAfter, StartAfter, ReaddirAfter,
     StatAfter, TerminalAfter, SpawnAfter, Zenon
<1> QED BY <1>1, <1>2, Zenon DEF Next

\* The invariant is inductive: a step of one process is seen by the others only
\* through the registry and the ptys, which grow.
LEMMA ProgramsInductive == ProgramsInv /\ [Next]_vars => ProgramsInv'
<1> SUFFICES ASSUME ProgramsInv, [Next]_vars PROVE ProgramsInv'
  OBVIOUS
<1>1. FilesInv /\ FilesInv' /\ DevicesOk
  BY FilesInductive, Zenon DEF ProgramsInv
<1>2. Registers
  BY StepRegisters
<1>3. g_ptys \in 0..PTY_MAX /\ g_ptys' \in 0..PTY_MAX
  BY <1>1 DEF FilesInv
<1>4. DevicesOk' /\ Grown
  BY <1>1, <1>2, <1>3, DevicesStep
<1>5. g_ptys <= g_ptys'
  BY <1>2, <1>3 DEF Registers, pty_create
<1>6. After
  BY StepAfter
<1>7. ASSUME NEW q \in Pid PROVE Holds(proc[q])'
  <2>1. PICK r : proc'[q] = r /\ Holds(r)
    BY <1>6, Zenon DEF After
  <2>2. Holds(r)'
    BY <1>1, <1>3, <1>4, <1>5, <2>1, Stays
  <2> QED BY <2>1, <2>2
<1> QED BY <1>1, <1>4, <1>7, Zenon DEF ProgramsInv

\* What the invariant says about cat.
LEMMA CatMeans == ProgramsInv => CatExact
<1> SUFFICES ASSUME ProgramsInv, NEW p \in Pid, proc[p].prog = "cat" /\ proc[p].fd # -1,
                    vfs_lookup(proc[p].path).kind = "ext2", ~Inode[vfs_lookup(proc[p].path).id].dir
             PROVE  LET node == vfs_lookup(proc[p].path)
                    IN  /\ IsPrefix(proc[p].out, Printed(Inode[node.id]))
                        /\ proc[p].pc \in {"close", "exited"} => proc[p].out = Printed(Inode[node.id])
  BY DEF CatExact
<1> DEFINE q == proc[p]
           node == vfs_lookup(q.path)
           i == node.id
<1>1. Plain(q.path) /\ DevicesOk /\ CatOk(q, node)
  BY HoldsOf DEF ProgramsInv
<1>2. Len(q.path) \in Nat
  BY <1>1, LenProperties DEF Plain
<1>3. i \in DOMAIN Inode
  BY <1>1, <1>2, LookupOk DEF LookupIs, NodeOk
<1>4. Reads(q, i)
  BY <1>1 DEF CatOk
<1> HIDE DEF node, i
<1> HIDE DEF q
<1>5. CASE q.pc \in {"read", "newline"}
  <2>1. Len(q.out) \in 0..Inode[i].size /\ q.out = Slice(Inode[i], 0, Len(q.out))
    BY <1>4, <1>5 DEF Reads
  <2>2. IsPrefix(q.out, Printed(Inode[i]))
    BY <1>3, <2>1, ContentIs, Zenon
  <2> QED BY <1>5, <2>2 DEF i, node, q
<1>6. CASE q.pc \in {"close", "exited"}
  <2>1. q.out = Printed(Inode[i])
    BY <1>4, <1>6 DEF Reads
  <2>2. IsPrefix(q.out, Printed(Inode[i]))
    BY <1>3, <2>1, PrintedWhole
  <2> QED BY <2>1, <2>2 DEF i, node, q
<1> QED BY <1>4, <1>5, <1>6 DEF Reads

\* What the invariant says about ls.
LEMMA LsMeans == ProgramsInv => ListingExact
<1> SUFFICES ASSUME ProgramsInv, NEW p \in Pid, proc[p].prog = "ls"
             PROVE  LET out == proc[p].out
                    IN  /\ \A i, j \in DOMAIN out : out[i].name = out[j].name => i = j
                        /\ proc[p].pc \in {"readdir", "exited"} => \A i \in DOMAIN out : out[i].node # NoNode
                        /\ proc[p].pc = "exited" => proc[p].was \subseteq {out[i].name : i \in DOMAIN out}
  BY DEF ListingExact
<1> DEFINE q == proc[p]
           n == vfs_lookup(q.path)
           s == readdir(n)
<1>1. LsOk(q, s) /\ NamesOk(n, s)
  BY HoldsOf, LsDir
<1> HIDE DEF n, s
<1>2. CASE q.pc = "start"
  <2>1. q.out = << >>
    BY <1>1, <1>2 DEF LsOk
  <2>2. DOMAIN << >> = {}
    OBVIOUS
  <2> QED BY <1>2, <2>1, <2>2
<1>3. CASE q.pc # "start"
  <2>1. Listed(q, s)
    BY <1>1, <1>3 DEF LsOk
  <2> DEFINE o == q.out
             L == Len(o)
  <2>2. L \in Nat /\ DOMAIN o = 1..L
    BY <2>1 DEF Listed, IsSeq
  <2>3. /\ \A i \in 1..L : i \in 1..Len(s) /\ o[i].name = s[i]
        /\ q.pc # "stat" => \A i \in 1..L : o[i].node # NoNode
        /\ q.pc = "exited" => q.was \subseteq {o[i].name : i \in 1..L}
    BY <1>1, <2>1, <2>2 DEF Listed, NamesOk, IsSeq
  <2>4. \A i, j \in 1..Len(s) : s[i] = s[j] => i = j
    BY <1>1 DEF NamesOk
  <2> HIDE DEF L
  <2> QED BY <2>2, <2>3, <2>4
<1> QED BY <1>2, <1>3

\* What cat has printed of a regular file is the beginning of the file and a
\* newline, and all of that when cat closes the file, for every image without
\* damage, every length of a block and of cat's buffer: ext2_read_file's loop
\* over direct, indirect and missing blocks and the offset syscall_read keeps
\* neither skip nor repeat a byte.
THEOREM CatIsExact == Spec => []CatExact
<1>1. Init => ProgramsInv
  BY ProgramsInitial
<1>2. ProgramsInv /\ [Next]_vars => ProgramsInv'
  BY ProgramsInductive
<1>3. ProgramsInv => CatExact
  BY CatMeans
<1> QED BY <1>1, <1>2, <1>3, PTL DEF Spec

\* ls lists no name twice, everything that was there when it began, and only
\* names that SYS_STAT then finds, although it asks for one index at a time while
\* any number of other processes create ptys: names are only added behind those
\* a directory has, because dev_root_readdir counts the visible devices only.
THEOREM ListingsAreExact == Spec => []ListingExact
<1>1. Init => ProgramsInv
  BY ProgramsInitial
<1>2. ProgramsInv /\ [Next]_vars => ProgramsInv'
  BY ProgramsInductive
<1>3. ProgramsInv => ListingExact
  BY LsMeans
<1> QED BY <1>1, <1>2, <1>3, PTL DEF Spec

-----------------------------------------------------------------------------
(* What is written to a pty goes out with ONLCR.                           *)

\* FlattenSeq after each of the sequences.
FlatTo(seqs) == LET flatten[i \in 1..Len(seqs)] ==
                        IF i = 1 THEN seqs[i] ELSE flatten[i - 1] \o seqs[i]
                IN  flatten

\* The recursive definition has a solution.
LEMMA FlatDef ==
    ASSUME NEW s, Len(s) \in Nat \ {0}
    PROVE  /\ FlatTo(s)[1] = s[1]
           /\ \A n \in 2..Len(s) : FlatTo(s)[n] = FlatTo(s)[n - 1] \o s[n]
           /\ FlattenSeq(s) = FlatTo(s)[Len(s)]
<1> DEFINE Step(x, n) == x \o s[n]
           Solves(g, m) == g = [n \in 1..m |-> IF n = 1 THEN s[n] ELSE Step(g[n - 1], n)]
           T == {m \in Nat : \E g : Solves(g, m + 1)}
<1>1. 0 \in T
  <2>1. Solves([n \in 1..1 |-> s[n]], 1)
    <3> HIDE DEF Step
    <3> QED OBVIOUS
  <2>2. Solves([n \in 1..1 |-> s[n]], 0 + 1)
    <3> HIDE DEF Solves
    <3> QED BY <2>1
  <2> HIDE DEF Solves
  <2> QED BY <2>2
<1>2. ASSUME NEW k \in 0..(Len(s) - 2), k \in T PROVE k + 1 \in T
  <2> DEFINE m == k + 1
  <2>0. m \in Nat \ {0}
    OBVIOUS
  <2>1. PICK g : Solves(g, m)
    <3> HIDE DEF Solves
    <3> QED BY <1>2
  <2> HIDE DEF m
  <2> DEFINE f == [n \in 1..(m + 1) |-> IF n = m + 1 THEN Step(g[m], m + 1) ELSE g[n]]
  <2>2. ASSUME NEW n \in 1..(m + 1)
        PROVE  f[n] = IF n = 1 THEN s[n] ELSE Step(f[n - 1], n)
    <3> HIDE DEF Step
    <3> QED BY <2>0, <2>1
  <2>3. Solves(f, m + 1)
    <3> HIDE DEF Step
    <3> QED BY <2>2
  <2> HIDE DEF f, Solves
  <2>4. m + 1 = (k + 1) + 1 /\ k + 1 \in Nat
    BY DEF m
  <2> QED BY <2>3, <2>4
<1>3. Len(s) - 1 \in T
  <2> HIDE DEF T
  <2>1. Len(s) - 1 \in Nat /\ (Len(s) - 1) - 1 = Len(s) - 2
    OBVIOUS
  <2>2. \A n \in 0..(Len(s) - 1) : n \in T
    BY <1>1, <1>2, <2>1, UpTo
  <2> QED BY <2>1, <2>2
<1>4. PICK g : Solves(g, Len(s))
  <2>1. (Len(s) - 1) + 1 = Len(s)
    OBVIOUS
  <2> HIDE DEF Solves
  <2> QED BY <1>3, <2>1
<1>5. Solves(FlatTo(s), Len(s))
  BY <1>4 DEF FlatTo
<1> HIDE DEF T
<1>6. \A n \in 1..Len(s) : FlatTo(s)[n] = IF n = 1 THEN s[n] ELSE Step(FlatTo(s)[n - 1], n)
  <2> HIDE DEF Step
  <2> QED BY <1>5
<1>7. FlattenSeq(s) = FlatTo(s)[Len(s)]
  BY DEF FlattenSeq, FlatTo
<1>8. (\A n \in 2..Len(s) : n \in 1..Len(s) /\ n # 1) /\ 1 \in 1..Len(s)
  OBVIOUS
<1> QED BY <1>6, <1>7, <1>8, Zenon

\* What the characters on a screen are.
Ink == STRING \cup Key \cup {"nl", "bs", "cr", "ff", "tab", "sp", "$", "e"}

\* The last character of what is written.
EndsIn(s, c) == s \in Seq(Ink) /\ s # << >> /\ s[Len(s)] = c

\* Appending keeps the end.
LEMMA EndsAppend ==
    ASSUME NEW s \in Seq(Ink), NEW t, NEW c, EndsIn(t, c)
    PROVE  EndsIn(s \o t, c)
  BY DEF EndsIn

\* ONLCR adds carriage returns, never behind the last character.
LEMMA OnlcrEnds ==
    ASSUME NEW d \in Seq(Ink), d # << >>
    PROVE  EndsIn(Onlcr(d), Last(d))
<1> DEFINE s == [i \in DOMAIN d |-> IF d[i] = "nl" THEN <<"cr", "nl">> ELSE <<d[i]>>]
           N == Len(d)
           F == FlatTo(s)
           T == {n \in Nat : EndsIn(F[n + 1], d[n + 1])}
<1>1. N \in Nat \ {0} /\ \A i \in 1..N : d[i] \in Ink
  OBVIOUS
<1>2. \A i \in 1..N : s[i] = IF d[i] = "nl" THEN <<"cr", "nl">> ELSE <<d[i]>>
  OBVIOUS
<1>3. Len(s) = N
  OBVIOUS
<1> HIDE DEF s
<1>4. \A i \in 1..N : EndsIn(s[i], d[i])
  <2> TAKE i \in 1..N
  <2>1. CASE d[i] = "nl"
    <3>1. "cr" \in Ink /\ "nl" \in Ink
      BY DEF Ink
    <3>2. \A a, b \in Ink : <<a, b>> \in Seq(Ink) /\ <<a, b>> # << >> /\ <<a, b>>[Len(<<a, b>>)] = b
      OBVIOUS
    <3>3. EndsIn(<<"cr", "nl">>, "nl")
      BY <3>1, <3>2 DEF EndsIn
    <3> QED BY <1>2, <2>1, <3>3
  <2>2. CASE d[i] # "nl"
    <3>1. d[i] \in Ink
      BY <1>1
    <3>2. s[i] = <<d[i]>>
      BY <1>2, <2>2
    <3>3. <<d[i]>> \in Seq(Ink) /\ <<d[i]>> # << >> /\ Len(<<d[i]>>) = 1 /\ <<d[i]>>[1] = d[i]
      BY <3>1
    <3> QED BY <3>2, <3>3 DEF EndsIn
  <2> QED BY <2>1, <2>2
<1>5. F[1] = s[1] /\ (\A n \in 2..N : F[n] = F[n - 1] \o s[n]) /\ FlattenSeq(s) = F[N]
  BY <1>1, <1>3, FlatDef
<1> HIDE DEF F, N
<1>6. 0 \in T
  BY <1>1, <1>4, <1>5
<1>7. ASSUME NEW n \in 0..((N - 1) - 1), n \in T PROVE n + 1 \in T
  <2>1. n + 2 \in 2..N /\ n + 2 \in 1..N /\ (n + 2) - 1 = n + 1 /\ (n + 1) + 1 = n + 2 /\ n + 1 \in Nat
    BY <1>1
  <2>2. F[n + 2] = F[n + 1] \o s[n + 2]
    BY <1>5, <2>1
  <2>3. F[n + 1] \in Seq(Ink) /\ EndsIn(s[n + 2], d[n + 2])
    BY <1>4, <1>7, <2>1 DEF EndsIn
  <2>4. EndsIn(F[n + 2], d[n + 2])
    BY <2>2, <2>3, EndsAppend
  <2> QED BY <2>1, <2>4
<1>8. N - 1 \in T
  <2> HIDE DEF T
  <2>1. N - 1 \in Nat
    BY <1>1
  <2>2. \A n \in 0..(N - 1) : n \in T
    BY <1>6, <1>7, <2>1, UpTo
  <2> QED BY <2>1, <2>2
<1>9. (N - 1) + 1 = N
  BY <1>1
<1>10. Onlcr(d) = FlattenSeq(s)
  BY DEF Onlcr, s
<1> QED BY <1>5, <1>8, <1>9, <1>10 DEF Last, N

\* What the keys echo.
LEMMA OnlcrIs ==
    /\ Onlcr(<<"bs", "sp", "bs">>) = <<"bs", "sp", "bs">>
    /\ Onlcr(<<"nl">>) = <<"cr", "nl">>
    /\ \A c : c # "nl" => Onlcr(<<c>>) = <<c>>
<1>1. ASSUME NEW c PROVE Onlcr(<<c>>) = IF c = "nl" THEN <<"cr", "nl">> ELSE <<c>>
  <2> DEFINE s == [i \in DOMAIN <<c>> |-> IF <<c>>[i] = "nl" THEN <<"cr", "nl">> ELSE <<<<c>>[i]>>]
  <2>1. Len(s) = 1 /\ s[1] = IF c = "nl" THEN <<"cr", "nl">> ELSE <<c>>
    OBVIOUS
  <2>2. Onlcr(<<c>>) = FlattenSeq(s)
    BY DEF Onlcr
  <2> HIDE DEF s
  <2>3. FlattenSeq(s) = FlatTo(s)[1] /\ FlatTo(s)[1] = s[1]
    <3>1. Len(s) \in Nat \ {0}
      BY <2>1
    <3>2. FlatTo(s)[1] = s[1] /\ FlattenSeq(s) = FlatTo(s)[Len(s)]
      BY <3>1, FlatDef
    <3> QED BY <2>1, <3>2
  <2> QED BY <2>1, <2>2, <2>3
<1>2. Onlcr(<<"bs", "sp", "bs">>) = <<"bs", "sp", "bs">>
  <2> DEFINE d == <<"bs", "sp", "bs">>
             s == [i \in DOMAIN d |-> IF d[i] = "nl" THEN <<"cr", "nl">> ELSE <<d[i]>>]
  <2>1. Len(s) = 3 /\ s[1] = <<"bs">> /\ s[2] = <<"sp">> /\ s[3] = <<"bs">>
    OBVIOUS
  <2>2. Onlcr(d) = FlattenSeq(s)
    BY DEF Onlcr
  <2> HIDE DEF s
  <2>3. /\ FlattenSeq(s) = FlatTo(s)[3] /\ FlatTo(s)[1] = s[1]
        /\ \A n \in 2..3 : FlatTo(s)[n] = FlatTo(s)[n - 1] \o s[n]
    <3>1. Len(s) \in Nat \ {0}
      BY <2>1
    <3>2. /\ FlatTo(s)[1] = s[1] /\ FlattenSeq(s) = FlatTo(s)[Len(s)]
          /\ \A n \in 2..Len(s) : FlatTo(s)[n] = FlatTo(s)[n - 1] \o s[n]
      BY <3>1, FlatDef
    <3> QED BY <2>1, <3>2
  <2>4. FlatTo(s)[2] = s[1] \o s[2] /\ FlatTo(s)[3] = FlatTo(s)[2] \o s[3]
    <3>1. 2 \in 2..3 /\ 3 \in 2..3 /\ 2 - 1 = 1 /\ 3 - 1 = 2
      OBVIOUS
    <3> QED BY <2>3, <3>1
  <2>5. (<<"bs">> \o <<"sp">>) \o <<"bs">> = <<"bs", "sp", "bs">>
    <3>1. ASSUME NEW a, NEW b, NEW c PROVE (<<a>> \o <<b>>) \o <<c>> = <<a, b, c>>
      <4> DEFINE S == {a, b, c}
                 u == <<a>> \o <<b>>
                 v == u \o <<c>>
      <4>1. <<a>> \in Seq(S) /\ <<b>> \in Seq(S) /\ <<c>> \in Seq(S)
        OBVIOUS
      <4>2. u \in Seq(S) /\ Len(u) = 2 /\ u[1] = a /\ u[2] = b
        BY <4>1
      <4> HIDE DEF u
      <4>3. v \in Seq(S) /\ Len(v) = 3 /\ v[1] = a /\ v[2] = b /\ v[3] = c
        <5> DEFINE t == <<c>>
        <5>1. t \in Seq(S) /\ Len(t) = 1 /\ t[1] = c
          BY <4>1
        <5> HIDE DEF t
        <5> HIDE DEF S
        <5>2. /\ u \o t \in Seq(S) /\ Len(u \o t) = Len(u) + Len(t)
              /\ \A i \in 1..(Len(u) + Len(t)) : (u \o t)[i] = IF i <= Len(u) THEN u[i] ELSE t[i - Len(u)]
          BY <4>2, <5>1, ConcatProperties, Zenon
        <5>3. (u \o t)[1] = a /\ (u \o t)[2] = b /\ (u \o t)[3] = c /\ Len(u \o t) = 3
          BY <4>2, <5>1, <5>2
        <5> QED BY <5>2, <5>3 DEF t, v
      <4> HIDE DEF v
      <4>4. v = <<a, b, c>>
        BY <4>3
      <4> QED BY <4>4 DEF v, u
    <3> QED BY <3>1
  <2> QED BY <2>1, <2>2, <2>3, <2>4, <2>5
<1> QED BY <1>1, <1>2

-----------------------------------------------------------------------------
(* What the characters make of a text.                                     *)

\* The terminal's text after each character of a read.
AppendTo(text, data) ==
    LET out[i \in 0..Len(data)] == IF i = 0 THEN text ELSE AppendOne(out[i - 1], data, i)
    IN  out

\* The recursive definition of append_output has a solution.
LEMMA AppendDef ==
    ASSUME NEW text, NEW data, Len(data) \in Nat
    PROVE  /\ AppendTo(text, data)[0] = text
           /\ \A n \in 1..Len(data) : AppendTo(text, data)[n] = AppendOne(AppendTo(text, data)[n - 1], data, n)
           /\ append_output(text, data) = AppendTo(text, data)[Len(data)]
<1> DEFINE Step(x, n) == AppendOne(x, data, n)
           Solves(g, m) == g = [n \in 0..m |-> IF n = 0 THEN text ELSE Step(g[n - 1], n)]
           T == {m \in Nat : \E g : Solves(g, m)}
<1>1. 0 \in T
  <2>1. Solves([n \in 0..0 |-> text], 0)
    <3> HIDE DEF Step
    <3> QED OBVIOUS
  <2> HIDE DEF Solves
  <2> QED BY <2>1
<1>2. ASSUME NEW m \in 0..(Len(data) - 1), m \in T PROVE m + 1 \in T
  <2>1. PICK g : Solves(g, m)
    BY <1>2
  <2> DEFINE f == [n \in 0..(m + 1) |-> IF n = m + 1 THEN Step(g[m], m + 1) ELSE g[n]]
  <2>2. ASSUME NEW n \in 0..(m + 1)
        PROVE  f[n] = IF n = 0 THEN text ELSE Step(f[n - 1], n)
    <3> HIDE DEF Step
    <3> QED BY <2>1
  <2>3. Solves(f, m + 1)
    <3> HIDE DEF Step
    <3> QED BY <2>2
  <2> HIDE DEF f, Solves
  <2> QED BY <2>3
<1>3. Len(data) \in T
  <2> HIDE DEF T
  <2>1. \A n \in 0..Len(data) : n \in T
    BY <1>1, <1>2, UpTo
  <2> QED BY <2>1
<1>4. PICK g : Solves(g, Len(data))
  BY <1>3
<1>5. Solves(AppendTo(text, data), Len(data))
  BY <1>4 DEF AppendTo
<1> HIDE DEF T
<1>6. \A n \in 0..Len(data) :
          AppendTo(text, data)[n] = IF n = 0 THEN text ELSE Step(AppendTo(text, data)[n - 1], n)
  <2> HIDE DEF Step
  <2> QED BY <1>5
<1>7. append_output(text, data) = AppendTo(text, data)[Len(data)]
  BY DEF append_output, AppendTo
<1>8. (\A n \in 1..Len(data) : n \in 0..Len(data) /\ n # 0) /\ 0 \in 0..Len(data)
  OBVIOUS
<1> QED BY <1>6, <1>7, <1>8, Zenon

\* The console's text after each character.
PrintTo(text, data) ==
    LET out[i \in 0..Len(data)] == IF i = 0 THEN text ELSE PrintOne(out[i - 1], data[i])
    IN  out

\* The recursive definition of ttydev_write_line has a solution.
LEMMA PrintDef ==
    ASSUME NEW text, NEW data, Len(data) \in Nat
    PROVE  /\ PrintTo(text, data)[0] = text
           /\ \A n \in 1..Len(data) : PrintTo(text, data)[n] = PrintOne(PrintTo(text, data)[n - 1], data[n])
           /\ ttydev_write_line(text, data) = PrintTo(text, data)[Len(data)]
<1> DEFINE Step(x, n) == PrintOne(x, data[n])
           Solves(g, m) == g = [n \in 0..m |-> IF n = 0 THEN text ELSE Step(g[n - 1], n)]
           T == {m \in Nat : \E g : Solves(g, m)}
<1>1. 0 \in T
  <2>1. Solves([n \in 0..0 |-> text], 0)
    <3> HIDE DEF Step
    <3> QED OBVIOUS
  <2> HIDE DEF Solves
  <2> QED BY <2>1
<1>2. ASSUME NEW m \in 0..(Len(data) - 1), m \in T PROVE m + 1 \in T
  <2>1. PICK g : Solves(g, m)
    BY <1>2
  <2> DEFINE f == [n \in 0..(m + 1) |-> IF n = m + 1 THEN Step(g[m], m + 1) ELSE g[n]]
  <2>2. ASSUME NEW n \in 0..(m + 1)
        PROVE  f[n] = IF n = 0 THEN text ELSE Step(f[n - 1], n)
    <3> HIDE DEF Step
    <3> QED BY <2>1
  <2>3. Solves(f, m + 1)
    <3> HIDE DEF Step
    <3> QED BY <2>2
  <2> HIDE DEF f, Solves
  <2> QED BY <2>3
<1>3. Len(data) \in T
  <2> HIDE DEF T
  <2>1. \A n \in 0..Len(data) : n \in T
    BY <1>1, <1>2, UpTo
  <2> QED BY <2>1
<1>4. PICK g : Solves(g, Len(data))
  BY <1>3
<1>5. Solves(PrintTo(text, data), Len(data))
  BY <1>4 DEF PrintTo
<1> HIDE DEF T
<1>6. \A n \in 0..Len(data) :
          PrintTo(text, data)[n] = IF n = 0 THEN text ELSE Step(PrintTo(text, data)[n - 1], n)
  <2> HIDE DEF Step
  <2> QED BY <1>5
<1>7. ttydev_write_line(text, data) = PrintTo(text, data)[Len(data)]
  BY DEF ttydev_write_line, PrintTo
<1>8. (\A n \in 1..Len(data) : n \in 0..Len(data) /\ n # 0) /\ 0 \in 0..Len(data)
  OBVIOUS
<1> QED BY <1>6, <1>7, <1>8, Zenon

\* What stays on a screen, alone in its column.
Solid == Ink \ {"cr", "bs", "tab"}

\* A character of a read.
LEMMA AppendOneIs ==
    ASSUME NEW t \in Seq(Ink), NEW data, NEW i, data[i] \in Ink
    PROVE  /\ AppendOne(t, data, i) \in Seq(Ink)
           /\ data[i] = "bs" /\ t # << >> => AppendOne(t, data, i) = Front(t)
           /\ data[i] = "ff" => AppendOne(t, data, i) = << >>
           /\ data[i] \in Solid /\ data[i] # "ff" => AppendOne(t, data, i) = Append(t, data[i])
<1> DEFINE c == data[i]
           r == AppendOne(t, data, i)
<1>0. "nl" \in Ink /\ "sp" \in Ink
  BY DEF Ink
<1>1. CASE c = "ff"
  BY <1>1, EmptySeq DEF AppendOne, Solid
<1>2. CASE c = "cr"
  <2>1. r = t \/ r = Append(t, "nl")
    BY <1>2 DEF AppendOne
  <2>2. Append(t, "nl") \in Seq(Ink)
    BY <1>0
  <2> QED BY <1>2, <2>1, <2>2 DEF Solid
<1>3. CASE c = "bs"
  <2>1. r = IF t = << >> THEN t ELSE Front(t)
    BY <1>3 DEF AppendOne
  <2>2. t # << >> => Front(t) \in Seq(Ink)
    BY FrontLast, Zenon DEF Front
  <2> QED BY <1>3, <2>1, <2>2 DEF Solid
<1>4. CASE c = "tab"
  <2>1. r = t \o <<"sp", "sp", "sp", "sp">>
    BY <1>4 DEF AppendOne
  <2>2. <<"sp", "sp", "sp", "sp">> \in Seq(Ink)
    BY <1>0
  <2>3. r \in Seq(Ink)
    BY <2>1, <2>2, ConcatProperties
  <2> QED BY <1>4, <2>3 DEF Solid
<1>5. CASE c \notin {"ff", "cr", "bs", "tab"}
  <2>1. r = Append(t, c)
    BY <1>5 DEF AppendOne
  <2>2. Append(t, c) \in Seq(Ink)
    BY AppendProperties
  <2> QED BY <1>5, <2>1, <2>2
<1> QED BY <1>1, <1>2, <1>3, <1>4, <1>5

\* A character on the console.
LEMMA PrintOneIs ==
    ASSUME NEW t \in Seq(Ink), NEW c \in Ink
    PROVE  /\ PrintOne(t, c) \in Seq(Ink)
           /\ c = "bs" /\ t # << >> /\ t[Len(t)] # "nl" => PrintOne(t, c) = Front(t)
           /\ c = "ff" => PrintOne(t, c) = << >>
           /\ c \in Solid /\ c # "ff" => PrintOne(t, c) = Append(t, c)
<1>1. CASE c = "ff"
  BY <1>1, EmptySeq DEF PrintOne, Solid
<1>2. CASE c = "bs"
  <2>1. PrintOne(t, c) = IF t = << >> \/ Last(t) = "nl" THEN t ELSE Front(t)
    BY <1>2 DEF PrintOne
  <2>2. t # << >> => Front(t) \in Seq(Ink)
    BY FrontLast, Zenon DEF Front
  <2> QED BY <1>2, <2>1, <2>2 DEF Solid, Last
<1>3. CASE c \notin {"ff", "bs"}
  <2>1. PrintOne(t, c) = Append(t, c)
    BY <1>3 DEF PrintOne
  <2>2. Append(t, c) \in Seq(Ink)
    BY AppendProperties
  <2> QED BY <1>3, <2>1, <2>2
<1> QED BY <1>1, <1>2, <1>3

\* The text ends with cur, behind the character b; a form feed clears it.
Behind(text, b, cur) == IF b = "ff" THEN text = cur
                        ELSE \E w \in Seq(Ink) : text = w \o (<<b>> \o cur)

\* A new line begins behind what is written.
LEMMA BehindNew ==
    ASSUME NEW u \in Seq(Ink), NEW b \in Ink, NEW t, t = IF b = "ff" THEN << >> ELSE Append(u, b)
    PROVE  Behind(t, b, << >>)
<1>1. CASE b = "ff"
  BY <1>1 DEF Behind
<1>2. CASE b # "ff"
  <2>1. <<b>> \o << >> = <<b>>
    OBVIOUS
  <2>2. Append(u, b) = u \o <<b>>
    OBVIOUS
  <2> QED BY <1>2, <2>1, <2>2 DEF Behind
<1> QED BY <1>1, <1>2

\* One more character.
LEMMA BehindAdd ==
    ASSUME NEW t, NEW b \in Ink, NEW cur \in Seq(Ink), Behind(t, b, cur), NEW c \in Ink
    PROVE  Behind(Append(t, c), b, Append(cur, c))
<1>1. CASE b = "ff"
  BY <1>1 DEF Behind
<1>2. CASE b # "ff"
  <2>1. PICK w \in Seq(Ink) : t = w \o (<<b>> \o cur)
    BY <1>2 DEF Behind
  <2>2. <<b>> \in Seq(Ink)
    OBVIOUS
  <2>3. <<b>> \o cur \in Seq(Ink)
    BY <2>2, ConcatProperties
  <2>4. Append(w \o (<<b>> \o cur), c) = w \o Append(<<b>> \o cur, c)
    <3> DEFINE y == <<b>> \o cur
    <3>1. y \in Seq(Ink)
      BY <2>3
    <3> HIDE DEF y
    <3>2. w \o Append(y, c) = Append(w \o y, c)
      BY <3>1, ConcatAppend
    <3> QED BY <3>2 DEF y
  <2>5. Append(<<b>> \o cur, c) = <<b>> \o Append(cur, c)
    BY <2>2, ConcatAppend
  <2> QED BY <1>2, <2>1, <2>4, <2>5 DEF Behind
<1> QED BY <1>1, <1>2

\* One character less.
LEMMA BehindBack ==
    ASSUME NEW t \in Seq(Ink), NEW b \in Ink, NEW cur \in Seq(Ink), Behind(t, b, cur), cur # << >>
    PROVE  t # << >> /\ t[Len(t)] = cur[Len(cur)] /\ Behind(Front(t), b, Front(cur))
<1> DEFINE d == Front(cur)
           x == cur[Len(cur)]
<1>1. d \in Seq(Ink) /\ x \in Ink /\ cur = Append(d, x)
  BY FrontLast, Zenon DEF Front
<1>2. ASSUME NEW u \in Seq(Ink), t = Append(u, x)
      PROVE  t # << >> /\ t[Len(t)] = x /\ Front(t) = u
  <2> HIDE DEF x, d
  <2>1. Len(u) \in Nat /\ Len(t) = Len(u) + 1
    BY <1>1, <1>2
  <2>2. SubSeq(Append(u, x), 1, Len(u)) = u
    BY <1>1
  <2>3. t # << >> /\ t[Len(t)] = x /\ Len(t) - 1 = Len(u)
    BY <1>1, <1>2, <2>1
  <2>4. Front(t) = u
    BY <1>2, <2>2, <2>3 DEF Front
  <2> QED BY <2>3, <2>4
<1> HIDE DEF d, x
<1>3. CASE b = "ff"
  <2>1. t = cur
    BY <1>3 DEF Behind
  <2> QED BY <1>1, <1>2, <1>3, <2>1 DEF Behind, d, x
<1>4. CASE b # "ff"
  <2>1. PICK w \in Seq(Ink) : t = w \o (<<b>> \o cur)
    BY <1>4 DEF Behind
  <2>2. <<b>> \in Seq(Ink)
    OBVIOUS
  <2>3. <<b>> \o d \in Seq(Ink)
    BY <1>1, <2>2, ConcatProperties
  <2>4. <<b>> \o cur = Append(<<b>> \o d, x)
    BY <1>1, <2>2, ConcatAppend
  <2>5. t = Append(w \o (<<b>> \o d), x)
    <3>1. t = w \o Append(<<b>> \o d, x)
      BY <2>1, <2>4, Zenon
    <3>2. x \in Ink
      BY <1>1
    <3>3. w \o Append(<<b>> \o d, x) = Append(w \o (<<b>> \o d), x)
      BY <2>1, <2>3, <3>2, ConcatAppend, SMTT(30)
    <3> QED BY <3>1, <3>3, Zenon
  <2>6. w \o (<<b>> \o d) \in Seq(Ink)
    BY <2>3, ConcatProperties
  <2>7. t # << >> /\ t[Len(t)] = x /\ Front(t) = w \o (<<b>> \o d)
    BY <1>2, <2>5, <2>6
  <2>8. Behind(Front(t), b, d)
    BY <1>4, <2>7 DEF Behind
  <2> QED BY <2>7, <2>8 DEF d, x
<1> QED BY <1>3, <1>4

-----------------------------------------------------------------------------
(* The rows of a window.                                                   *)

\* The least element of a set of numbers.
LEMMA MinIs ==
    ASSUME NEW T \in SUBSET Nat, T # {}
    PROVE  Min(T) \in T /\ \A y \in T : Min(T) <= y
<1>1. \E x \in T : \A y \in T : x <= y
  BY LeastElement
<1>2. (CHOOSE x \in T : \A y \in T : x <= y) \in T
      /\ \A y \in T : (CHOOSE x \in T : \A y1 \in T : x <= y1) <= y
  BY <1>1
<1> QED BY <1>2 DEF Min

\* A row is not empty before the end of the text, and never too long.
LEMMA ScrollIs ==
    ASSUME NEW text, Len(text) \in Nat, NEW i \in 1..(Len(text) + 1)
    PROVE  /\ scroll_view(text, i) \in 1..(Len(text) + 1)
           /\ scroll_view(text, i) = Len(text) + 1 \/ scroll_view(text, i) > i
           /\ (\A j \in i..Len(text) : text[j] # "nl") =>
                  scroll_view(text, i) = Len(text) + 1 \/ scroll_view(text, i) = i + MAX_COL
<1> DEFINE N == Len(text)
           T == {j \in i..N : text[j] = "nl"} \cup {N + 1}
           lf == Min(T)
           r == scroll_view(text, i)
<1>0. MAX_COL \in Nat \ {0}
  BY TerminalAssumption
<1>1. T \in SUBSET Nat /\ T # {}
  OBVIOUS
<1>2. lf \in T
  <2> HIDE DEF T
  <2> QED BY <1>1, MinIs
<1>3. lf \in i..(N + 1) /\ ((\A j \in i..N : text[j] # "nl") => lf = N + 1)
  <2> HIDE DEF lf
  <2> QED BY <1>2
<1>4. r = IF lf - i > MAX_COL THEN i + MAX_COL ELSE Min({lf + 1, N + 1})
  BY DEF scroll_view
<1> HIDE DEF lf, N, r
<1>5. Min({lf + 1, N + 1}) = IF lf + 1 <= N + 1 THEN lf + 1 ELSE N + 1
  <2>1. lf + 1 \in Int /\ N + 1 \in Int
    BY <1>3 DEF N
  <2> QED BY <2>1, MinOfTwo
<1>6. r = IF lf - i > MAX_COL THEN i + MAX_COL ELSE IF lf + 1 <= N + 1 THEN lf + 1 ELSE N + 1
  BY <1>4, <1>5
<1>7. N \in Nat /\ i \in 1..(N + 1)
  BY DEF N
<1>8. r \in 1..(N + 1) /\ (r = N + 1 \/ r > i)
  BY <1>0, <1>3, <1>6, <1>7
<1>9. lf = N + 1 => r = N + 1 \/ r = i + MAX_COL
  BY <1>0, <1>3, <1>6, <1>7
<1> QED BY <1>3, <1>8, <1>9 DEF N, r

\* The recursive definition has a solution.
LEMMA RowsDef ==
    ASSUME NEW text, Len(text) \in Nat
    PROVE  /\ Rows(text)[0] = 1
           /\ \A n \in 1..Len(text) : Rows(text)[n] = scroll_view(text, Rows(text)[n - 1])
<1> DEFINE Step(x) == scroll_view(text, x)
           Solves(g, m) == g = [n \in 0..m |-> IF n = 0 THEN 1 ELSE Step(g[n - 1])]
           T == {m \in Nat : \E g : Solves(g, m)}
<1>1. 0 \in T
  <2>1. Solves([n \in 0..0 |-> 1], 0)
    <3> HIDE DEF Step
    <3> QED OBVIOUS
  <2> HIDE DEF Solves
  <2> QED BY <2>1
<1>2. ASSUME NEW m \in 0..(Len(text) - 1), m \in T PROVE m + 1 \in T
  <2>1. PICK g : Solves(g, m)
    BY <1>2
  <2> DEFINE f == [n \in 0..(m + 1) |-> IF n = m + 1 THEN Step(g[m]) ELSE g[n]]
  <2>2. ASSUME NEW n \in 0..(m + 1)
        PROVE  f[n] = IF n = 0 THEN 1 ELSE Step(f[n - 1])
    <3> HIDE DEF Step
    <3> QED BY <2>1
  <2>3. Solves(f, m + 1)
    <3> HIDE DEF Step
    <3> QED BY <2>2
  <2> HIDE DEF f, Solves
  <2> QED BY <2>3
<1>3. Len(text) \in T
  <2> HIDE DEF T
  <2>1. \A n \in 0..Len(text) : n \in T
    BY <1>1, <1>2, UpTo
  <2> QED BY <2>1
<1>4. PICK g : Solves(g, Len(text))
  BY <1>3
<1>5. Solves(Rows(text), Len(text))
  BY <1>4 DEF Rows
<1> HIDE DEF T
<1>6. \A n \in 0..Len(text) : Rows(text)[n] = IF n = 0 THEN 1 ELSE Step(Rows(text)[n - 1])
  <2> HIDE DEF Step
  <2> QED BY <1>5
<1>7. (\A n \in 1..Len(text) : n \in 0..Len(text) /\ n # 0) /\ 0 \in 0..Len(text)
  OBVIOUS
<1> QED BY <1>6, <1>7, Zenon

\* The rows follow each other up to the end of the text.
LEMMA RowsIs ==
    ASSUME NEW text, Len(text) \in Nat
    PROVE  /\ \A k \in 0..Len(text) : Rows(text)[k] \in 1..(Len(text) + 1)
           /\ \A k \in 0..Len(text) : \A l \in 0..k : Rows(text)[l] <= Rows(text)[k]
           /\ Rows(text)[Len(text)] = Len(text) + 1
<1> DEFINE N == Len(text)
           R == Rows(text)
           Fine(k) == /\ R[k] \in 1..(N + 1) /\ (R[k] = N + 1 \/ R[k] >= k + 1)
                      /\ \A l \in 0..k : R[l] \in Nat /\ R[l] <= R[k]
           T == {k \in Nat : Fine(k)}
<1>0. N \in Nat
  OBVIOUS
<1>1. R[0] = 1 /\ \A n \in 1..N : R[n] = scroll_view(text, R[n - 1])
  BY RowsDef
<1>2. \A i \in 1..(N + 1) : /\ scroll_view(text, i) \in 1..(N + 1)
                            /\ scroll_view(text, i) = N + 1 \/ scroll_view(text, i) > i
  BY ScrollIs
<1> HIDE DEF N, R
<1>3. 0 \in T
  BY <1>0, <1>1
<1>4. ASSUME NEW k \in 0..(N - 1), k \in T PROVE k + 1 \in T
  <2>1. k + 1 \in 1..N /\ (k + 1) - 1 = k /\ k + 1 \in Nat
    BY <1>0
  <2>2. R[k + 1] = scroll_view(text, R[k])
    BY <1>1, <2>1
  <2>3. R[k] \in 1..(N + 1) /\ (R[k] = N + 1 \/ R[k] >= k + 1)
       /\ \A l \in 0..k : R[l] \in Nat /\ R[l] <= R[k]
    BY <1>4
  <2>4. R[k + 1] \in 1..(N + 1) /\ (R[k + 1] = N + 1 \/ R[k + 1] > R[k])
    BY <1>2, <2>2, <2>3
  <2>5. R[k + 1] = N + 1 \/ R[k + 1] >= (k + 1) + 1
    BY <1>0, <2>3, <2>4
  <2>6. ASSUME NEW l \in 0..(k + 1) PROVE R[l] \in Nat /\ R[l] <= R[k + 1]
    <3>1. CASE l = k + 1
      BY <2>4, <3>1
    <3>2. CASE l # k + 1
      <4>1. l \in 0..k
        BY <3>2
      <4>2. R[l] \in Nat /\ R[l] <= R[k]
        BY <2>3, <4>1
      <4>3. R[k] <= R[k + 1] /\ R[k] \in Nat /\ R[k + 1] \in Nat
        BY <1>0, <2>3, <2>4
      <4> QED BY <4>2, <4>3
    <3> QED BY <3>1, <3>2
  <2> QED BY <2>1, <2>4, <2>5, <2>6
<1>5. \A k \in 0..N : k \in T
  <2> HIDE DEF T
  <2> QED BY <1>0, <1>3, <1>4, UpTo
<1>6. \A k \in 0..N : R[k] \in 1..(N + 1) /\ \A l \in 0..k : R[l] <= R[k]
  BY <1>5
<1>7. R[N] = N + 1
  BY <1>0, <1>5
<1> QED BY <1>6, <1>7 DEF N, R

\* Behind place a, where no newline follows, the rows are full up to the end.
LEMMA FullRows ==
    ASSUME NEW text, Len(text) \in Nat, NEW a \in 0..Len(text),
           \A j \in (a + 1)..Len(text) : text[j] # "nl",
           NEW k \in 0..Len(text), Rows(text)[k] > a
    PROVE  \A m \in Nat : k + m <= Len(text) =>
               Rows(text)[k + m] = Len(text) + 1 \/ Rows(text)[k + m] > a + MAX_COL * m
<1> DEFINE N == Len(text)
           R == Rows(text)
           T == {m \in Nat : R[k + m] = N + 1 \/ R[k + m] > a + MAX_COL * m}
<1>0. N \in Nat /\ MAX_COL \in Nat \ {0}
  BY TerminalAssumption
<1>1. \A n \in 1..N : R[n] = scroll_view(text, R[n - 1])
  BY RowsDef
<1>2. \A n \in 0..N : R[n] \in 1..(N + 1)
  BY RowsIs
<1>3. \A i \in 1..(N + 1) :
          (\A j \in i..N : text[j] # "nl") =>
              scroll_view(text, i) = N + 1 \/ scroll_view(text, i) = i + MAX_COL
  BY ScrollIs
<1>a. k \in 0..N /\ a \in 0..N /\ R[k] > a /\ \A j \in (a + 1)..N : text[j] # "nl"
  OBVIOUS
<1>b. \A m \in Nat : MAX_COL * m \in Nat /\ MAX_COL * (m + 1) = MAX_COL * m + MAX_COL
  BY <1>0
<1>c. MAX_COL * 0 = 0
  BY <1>0
<1> HIDE DEF N, R
<1>4. 0 \in T
  <2>1. k + 0 = k /\ a + 0 = a
    BY <1>a, <1>0
  <2> QED BY <1>a, <1>c, <2>1
<1>5. ASSUME NEW m \in 0..((N - k) - 1), m \in T PROVE m + 1 \in T
  <2> DEFINE r == R[k + m]
             C == MAX_COL * m
  <2>1. m \in Nat /\ m + 1 \in Nat /\ k + (m + 1) \in 1..N /\ (k + (m + 1)) - 1 = k + m /\ k + m \in 0..N
    BY <1>0, <1>a
  <2>2. r \in 1..(N + 1) /\ (r = N + 1 \/ r > a + C) /\ C \in Nat
    BY <1>2, <1>5, <1>b, <2>1
  <2>3. R[k + (m + 1)] = scroll_view(text, r)
    BY <1>1, <2>1
  <2>4. MAX_COL * (m + 1) = C + MAX_COL
    BY <1>b, <2>1
  <2> HIDE DEF r, C
  <2>5. \A j \in r..N : text[j] # "nl"
    <3>1. \A j \in r..N : j \in (a + 1)..N
      BY <1>0, <1>a, <2>2
    <3> QED BY <1>a, <3>1
  <2>6. scroll_view(text, r) = N + 1 \/ scroll_view(text, r) = r + MAX_COL
    BY <1>3, <2>2, <2>5
  <2>7. R[k + (m + 1)] \in 1..(N + 1)
    BY <1>2, <2>1
  <2>8. R[k + (m + 1)] = N + 1 \/ R[k + (m + 1)] > a + (C + MAX_COL)
    BY <1>0, <1>a, <2>2, <2>3, <2>6, <2>7
  <2> QED BY <2>1, <2>4, <2>8
<1>6. N - k \in Nat
  BY <1>0, <1>a
<1>7. \A m \in 0..(N - k) : m \in T
  <2> HIDE DEF T
  <2> QED BY <1>4, <1>5, <1>6, UpTo
<1>8. \A m \in Nat : k + m <= N => m \in 0..(N - k)
  BY <1>0, <1>a
<1> QED BY <1>7, <1>8 DEF N, R

\* The number of rows.
LEMMA CountIs ==
    ASSUME NEW text, Len(text) \in Nat
    PROVE  /\ count_lines(text) \in 0..Len(text)
           /\ \A k \in 0..Len(text) : Rows(text)[k] = Len(text) + 1 => count_lines(text) <= k
<1> DEFINE N == Len(text)
           T == {k \in 0..N : Rows(text)[k] > N}
<1>1. N \in Nat /\ Rows(text)[N] = N + 1
  BY RowsIs
<1>2. T \in SUBSET Nat /\ T # {}
  BY <1>1
<1>3. count_lines(text) = Min(T)
  BY DEF count_lines
<1>4. Min(T) \in T /\ \A y \in T : Min(T) <= y
  <2> HIDE DEF T
  <2> QED BY <1>2, MinIs
<1>5. \A k \in 0..N : Rows(text)[k] = N + 1 => k \in T
  BY <1>1
<1> QED BY <1>3, <1>4, <1>5

\* The window scrolls, but never past the end of a line that fits.
LEMMA ViewKeeps ==
    ASSUME NEW text, Len(text) \in Nat, NEW a \in 0..Len(text),
           \A j \in (a + 1)..Len(text) : text[j] # "nl",
           Len(text) - a <= MAX_COL * (MAX_LINE - 1)
    PROVE  \E i \in 1..(Len(text) + 1) :
               /\ View(text) = SubSeq(text, i, Len(text))
               /\ IF a = 0 THEN i = 1 ELSE i <= a
<1> DEFINE N == Len(text)
           R == Rows(text)
           rows == count_lines(text)
           v == IF rows > MAX_LINE THEN rows - MAX_LINE ELSE 0
<1>0. N \in Nat /\ MAX_LINE \in Nat \ {0} /\ MAX_COL \in Nat \ {0} /\ a \in 0..N
  BY TerminalAssumption
<1>1. /\ \A k \in 0..N : R[k] \in 1..(N + 1)
      /\ \A k \in 0..N : \A l \in 0..k : R[l] <= R[k]
      /\ R[N] = N + 1
  BY RowsIs
<1>2. R[0] = 1
  BY RowsDef
<1>3. rows \in 0..N /\ \A k \in 0..N : R[k] = N + 1 => rows <= k
  BY CountIs
<1>4. View(text) = SubSeq(text, R[v], N)
  BY DEF View
<1>5. ASSUME NEW k \in 0..N, R[k] > a
      PROVE  rows <= k + (MAX_LINE - 1)
  <2>1. CASE k + (MAX_LINE - 1) > N
    BY <1>0, <1>3, <2>1
  <2>2. CASE k + (MAX_LINE - 1) <= N
    <3> DEFINE m == MAX_LINE - 1
    <3>1. m \in Nat /\ k + m <= N
      BY <1>0, <2>2
    <3>2. R[k + m] = N + 1 \/ R[k + m] > a + MAX_COL * m
      BY <1>5, <3>1, FullRows
    <3>3. N - a <= MAX_COL * m
      OBVIOUS
    <3>4. k + m \in 0..N
      BY <1>0, <3>1
    <3>5. R[k + m] \in 1..(N + 1)
      BY <1>1, <3>4
    <3>6. MAX_COL * m \in Nat
      BY <1>0, <3>1
    <3> HIDE DEF m, N, R
    <3>7. R[k + m] = N + 1
      BY <1>0, <3>2, <3>3, <3>5, <3>6
    <3> HIDE DEF rows
    <3>8. rows <= k + m
      BY <1>3, <3>4, <3>7
    <3> QED BY <3>8 DEF m
  <2> QED BY <1>0, <2>1, <2>2
<1> HIDE DEF N, R, rows
<1>6. v \in 0..N
  BY <1>0, <1>3
<1>7. CASE a = 0
  <2>1. 0 \in 0..N /\ R[0] > a
    BY <1>0, <1>2, <1>7
  <2>2. rows <= 0 + (MAX_LINE - 1)
    BY <1>5, <2>1
  <2>3. v = 0
    BY <1>0, <1>3, <2>2
  <2>4. R[v] = 1 /\ 1 \in 1..(N + 1)
    BY <1>0, <1>2, <2>3
  <2> HIDE DEF v
  <2> QED BY <1>4, <1>7, <2>4 DEF N
<1>8. CASE a # 0
  <2>1. ASSUME R[v] > a PROVE FALSE
    <3>1. rows <= v + (MAX_LINE - 1)
      BY <1>5, <1>6, <2>1
    <3>2. CASE rows > MAX_LINE
      BY <1>0, <1>3, <3>1, <3>2
    <3>3. CASE ~(rows > MAX_LINE)
      BY <1>0, <1>2, <1>8, <2>1, <3>3
    <3> QED BY <3>2, <3>3
  <2>2. R[v] \in 1..(N + 1)
    BY <1>1, <1>6
  <2>3. R[v] <= a
    BY <1>0, <2>1, <2>2
  <2> HIDE DEF v
  <2> QED BY <1>4, <1>8, <2>2, <2>3 DEF N
<1> QED BY <1>7, <1>8

\* Being a suffix, place by place.
LEMMA SuffixIs ==
    ASSUME NEW S, NEW u \in Seq(S), NEW v \in Seq(S), Len(u) <= Len(v),
           \A j \in 1..Len(u) : v[(Len(v) - Len(u)) + j] = u[j]
    PROVE  IsSuffix(u, v)
<1> DEFINE m == Len(u)
           n == Len(v)
           x == Reverse(u)
           y == Reverse(v)
<1>1. m \in Nat /\ n \in Nat /\ m <= n
  OBVIOUS
<1>2. Len(x) = m /\ Len(y) = n /\ x \in Seq(S) /\ y \in Seq(S)
  <2>1. x = [i \in 1..m |-> x[i]] /\ y = [i \in 1..n |-> y[i]]
    BY DEF Reverse
  <2>2. \A i \in 1..m : x[i] \in S
    <3>1. \A i \in 1..m : (m - i) + 1 \in 1..m
      BY <1>1
    <3>2. \A i \in 1..m : x[i] = u[(m - i) + 1]
      BY DEF Reverse
    <3>3. \A i \in 1..m : u[i] \in S
      OBVIOUS
    <3> QED BY <3>1, <3>2, <3>3
  <2>3. \A i \in 1..n : y[i] \in S
    <3>1. \A i \in 1..n : (n - i) + 1 \in 1..n
      BY <1>1
    <3>2. \A i \in 1..n : y[i] = v[(n - i) + 1]
      BY DEF Reverse
    <3>3. \A i \in 1..n : v[i] \in S
      OBVIOUS
    <3> QED BY <3>1, <3>2, <3>3
  <2> HIDE DEF x, y, m, n
  <2> QED BY <1>1, <2>1, <2>2, <2>3, FunSeq
<1>3. ASSUME NEW i \in 1..m PROVE x[i] = y[i]
  <2>1. i \in 1..n /\ (m - i) + 1 \in 1..m /\ (n - m) + ((m - i) + 1) = (n - i) + 1
    BY <1>1
  <2>2. x[i] = u[(m - i) + 1] /\ y[i] = v[(n - i) + 1]
    BY <2>1 DEF Reverse
  <2>3. v[(n - m) + ((m - i) + 1)] = u[(m - i) + 1]
    BY <2>1
  <2> QED BY <2>1, <2>2, <2>3
<1> HIDE DEF x, y, m, n
<1>4. SubSeq(x, 1, m) = SubSeq(y, 1, m)
  <2>1. /\ SubSeq(x, 1, m) \in Seq(S) /\ Len(SubSeq(x, 1, m)) = m
        /\ \A i \in 1..m : SubSeq(x, 1, m)[i] = x[i]
    BY <1>1, <1>2
  <2>2. /\ SubSeq(y, 1, m) \in Seq(S) /\ Len(SubSeq(y, 1, m)) = m
        /\ \A i \in 1..m : SubSeq(y, 1, m)[i] = y[i]
    BY <1>1, <1>2
  <2> HIDE DEF x, y
  <2> QED BY <1>3, <2>1, <2>2, SeqEqual
<1> QED BY <1>1, <1>2, <1>4 DEF IsSuffix, IsPrefix, x, y

\* The end of a text, from any place before it.
LEMMA SuffixFrom ==
    ASSUME NEW S, NEW w \in Seq(S), NEW u \in Seq(S), NEW i \in 1..(Len(w) + 1)
    PROVE  IsSuffix(u, SubSeq(w \o u, i, Len(w \o u)))
<1> DEFINE t == w \o u
           v == SubSeq(t, i, Len(t))
<1>1. /\ t \in Seq(S) /\ Len(t) = Len(w) + Len(u)
      /\ \A j \in 1..Len(u) : t[Len(w) + j] = u[j]
  OBVIOUS
<1>2. Len(w) \in Nat /\ Len(u) \in Nat
  OBVIOUS
<1> HIDE DEF t
<1>3. /\ v \in Seq(S) /\ Len(v) = (Len(w) + Len(u)) - (i - 1)
      /\ \A j \in 1..Len(v) : v[j] = t[(i + j) - 1]
  BY <1>1, <1>2
<1> HIDE DEF v
<1>4. ASSUME NEW j \in 1..Len(u) PROVE v[(Len(v) - Len(u)) + j] = u[j]
  <2>1. (Len(v) - Len(u)) + j \in 1..Len(v) /\ (i + ((Len(v) - Len(u)) + j)) - 1 = Len(w) + j
    BY <1>2, <1>3
  <2>2. v[(Len(v) - Len(u)) + j] = t[(i + ((Len(v) - Len(u)) + j)) - 1]
    BY <1>3, <2>1
  <2> QED BY <1>1, <2>1, <2>2
<1>5. Len(u) <= Len(v)
  BY <1>2, <1>3
<1>6. IsSuffix(u, v)
  BY <1>3, <1>4, <1>5, SuffixIs
<1> QED BY <1>6 DEF v, t

\* A line that fits is seen whole, right behind what is before it.
LEMMA LineSeen ==
    ASSUME NEW b \in Ink, NEW cur \in Seq(Ink), \A j \in 1..Len(cur) : cur[j] # "nl",
           NEW text, Behind(text, b, cur), Len(cur) <= MAX_COL * (MAX_LINE - 1)
    PROVE  IF b = "ff" THEN View(text) = cur ELSE IsSuffix(<<b>> \o cur, View(text))
<1>1. CASE b = "ff"
  <2>1. text = cur /\ Len(cur) \in Nat
    BY <1>1 DEF Behind
  <2>2. PICK i \in 1..(Len(text) + 1) : View(text) = SubSeq(text, i, Len(text)) /\ i = 1
    <3>1. 0 \in 0..Len(text) /\ (\A j \in (0 + 1)..Len(text) : text[j] # "nl")
          /\ Len(text) - 0 <= MAX_COL * (MAX_LINE - 1)
      BY <2>1
    <3> QED BY <2>1, <3>1, ViewKeeps
  <2>3. SubSeq(cur, 1, Len(cur)) = cur
    OBVIOUS
  <2> QED BY <1>1, <2>1, <2>2, <2>3
<1>2. CASE b # "ff"
  <2> DEFINE u == <<b>> \o cur
  <2>1. PICK w \in Seq(Ink) : text = w \o u
    BY <1>2 DEF Behind
  <2>2. /\ u \in Seq(Ink) /\ Len(u) = Len(cur) + 1
        /\ \A j \in 1..Len(cur) : u[j + 1] = cur[j]
    OBVIOUS
  <2> HIDE DEF u
  <2>3. /\ text \in Seq(Ink) /\ Len(text) = Len(w) + Len(u)
        /\ \A j \in 1..Len(u) : text[Len(w) + j] = u[j]
    <3>1. /\ w \o u \in Seq(Ink) /\ Len(w \o u) = Len(w) + Len(u)
          /\ \A i \in 1..(Len(w) + Len(u)) : (w \o u)[i] = IF i <= Len(w) THEN w[i] ELSE u[i - Len(w)]
      BY <2>2, ConcatProperties
    <3>2. \A j \in 1..Len(u) : /\ Len(w) + j \in 1..(Len(w) + Len(u)) /\ ~(Len(w) + j <= Len(w))
                               /\ (Len(w) + j) - Len(w) = j
      BY <2>2
    <3> QED BY <2>1, <3>1, <3>2
  <2> DEFINE a == Len(w) + 1
  <2>4. a \in 1..Len(text) /\ Len(text) - a = Len(cur) /\ Len(text) \in Nat
    BY <2>2, <2>3
  <2>5. ASSUME NEW j \in (a + 1)..Len(text) PROVE text[j] # "nl"
    <3> DEFINE q == j - a
    <3>1. q \in 1..Len(cur) /\ q + 1 \in 1..Len(u) /\ Len(w) + (q + 1) = j
      BY <2>2, <2>3
    <3> HIDE DEF q
    <3>2. text[j] = u[q + 1] /\ u[q + 1] = cur[q]
      BY <2>2, <2>3, <3>1
    <3> QED BY <3>1, <3>2
  <2>6. a # 0
    OBVIOUS
  <2> HIDE DEF a
  <2>7. PICK i \in 1..(Len(text) + 1) : View(text) = SubSeq(text, i, Len(text)) /\ i <= a
    <3>1. a \in 0..Len(text) /\ Len(text) - a <= MAX_COL * (MAX_LINE - 1)
      BY <2>4
    <3> QED BY <2>4, <2>5, <2>6, <3>1, ViewKeeps
  <2>8. i \in 1..(Len(w) + 1)
    BY <2>7 DEF a
  <2>9. IsSuffix(u, View(text))
    BY <2>1, <2>2, <2>7, <2>8, SuffixFrom
  <2> QED BY <1>2, <2>9 DEF u
<1> QED BY <1>1, <1>2

-----------------------------------------------------------------------------
(* What is on its way to the screen.                                       *)

\* A character edits the line, as seen.
EditStep(l, c, r) == \/ c = "bs" /\ l # << >> /\ r = Front(l)
                     \/ c \in Solid \ {"ff"} /\ r = Append(l, c)

\* Behind the first p characters of m, the last of them b unless p is 0, the
\* others edit the line from seen[0] to ln; without p, seen[0] is on the screen.
Echoes(text, m, b, ln, p, seen) ==
    /\ IF p = 0 THEN Behind(text, b, seen[0]) ELSE m[p] = b /\ seen[0] = << >>
    /\ seen[Len(m) - p] = ln
    /\ \A i \in 1..(Len(m) - p) : EditStep(seen[i - 1], m[p + i], seen[i])

\* Once m has been read, the text will end with ln, right behind b.
WillShow(text, m, b, ln) ==
    \E p \in 0..Len(m) : \E seen \in [0..(Len(m) - p) -> Seq(Ink)] : Echoes(text, m, b, ln, p, seen)

\* Nothing on its way.
LEMMA ShowsNow ==
    ASSUME NEW text, NEW b, NEW ln, WillShow(text, << >>, b, ln)
    PROVE  Behind(text, b, ln)
<1>1. Len(<< >>) = 0 /\ \A p \in 0..0 : p = 0 /\ 0 - p = 0
  <2>1. Len(<< >>) = 0
    OBVIOUS
  <2>2. ASSUME NEW p \in 0..0 PROVE p = 0 /\ 0 - p = 0
    <3>1. p = 0
      OBVIOUS
    <3> QED BY <3>1
  <2> QED BY <2>1, <2>2
<1>2. PICK p \in 0..0 : \E seen \in [0..(0 - p) -> Seq(Ink)] : Echoes(text, << >>, b, ln, p, seen)
  BY <1>1 DEF WillShow
<1>3. p = 0 /\ 0 - p = 0
  BY <1>1
<1>4. PICK seen : Echoes(text, << >>, b, ln, 0, seen)
  BY <1>2, <1>3
<1> QED BY <1>1, <1>3, <1>4 DEF Echoes

\* A line begins behind the last character written.
LEMMA ShowsFresh ==
    ASSUME NEW text, NEW b, NEW m, EndsIn(m, b)
    PROVE  WillShow(text, m, b, << >>)
<1>1. Len(m) \in Nat \ {0} /\ m[Len(m)] = b
  BY DEF EndsIn
<1> DEFINE seen == [i \in 0..0 |-> << >>]
<1>2. seen \in [0..0 -> Seq(Ink)] /\ seen[0] = << >>
  <2>1. << >> \in Seq(Ink)
    BY EmptySeq
  <2> QED BY <2>1
<1> HIDE DEF seen
<1>3. Len(m) - Len(m) = 0 /\ Len(m) \in 0..Len(m) /\ 1..0 = {}
  BY <1>1
<1>4. Echoes(text, m, b, << >>, Len(m), seen)
  BY <1>1, <1>2, <1>3 DEF Echoes
<1> QED BY <1>2, <1>3, <1>4 DEF WillShow

\* One more character edits the line.
LEMMA ShowsMore ==
    ASSUME NEW text, NEW m \in Seq(Ink), NEW b, NEW ln, WillShow(text, m, b, ln),
           NEW c \in Ink, NEW d \in Seq(Ink), EditStep(ln, c, d)
    PROVE  WillShow(text, Append(m, c), b, d)
<1> DEFINE N == Len(m)
           t == Append(m, c)
<1>1. PICK p \in 0..N : \E f \in [0..(N - p) -> Seq(Ink)] : Echoes(text, m, b, ln, p, f)
  BY DEF WillShow
<1>2. PICK f \in [0..(N - p) -> Seq(Ink)] : Echoes(text, m, b, ln, p, f)
  BY <1>1
<1>3. /\ IF p = 0 THEN Behind(text, b, f[0]) ELSE m[p] = b /\ f[0] = << >>
      /\ f[N - p] = ln
      /\ \A i \in 1..(N - p) : EditStep(f[i - 1], m[p + i], f[i])
  BY <1>2 DEF Echoes
<1>4. N \in Nat /\ p \in 0..N /\ Len(t) = N + 1 /\ t[N + 1] = c /\ \A i \in 1..N : t[i] = m[i]
  OBVIOUS
<1> HIDE DEF N, t
<1> DEFINE K == N - p
           g == [i \in 0..(K + 1) |-> IF i = K + 1 THEN d ELSE f[i]]
<1>5. K \in Nat /\ (N + 1) - p = K + 1 /\ p + (K + 1) = N + 1 /\ p \in 0..(N + 1) /\ (K + 1) - 1 = K
  BY <1>4
<1>6. f \in [0..K -> Seq(Ink)] /\ f[K] = ln /\ \A i \in 1..K : EditStep(f[i - 1], m[p + i], f[i])
  BY <1>2, <1>3
<1>7. \A i \in 1..K : p + i \in 1..N
  BY <1>4
<1> HIDE DEF K
<1>8. g \in [0..(K + 1) -> Seq(Ink)]
  <2>1. ASSUME NEW i \in 0..(K + 1) PROVE (IF i = K + 1 THEN d ELSE f[i]) \in Seq(Ink)
    <3>1. i # K + 1 => i \in 0..K
      BY <1>5
    <3>2. \A j \in 0..K : f[j] \in Seq(Ink)
      BY <1>6
    <3> QED BY <3>1, <3>2
  <2> QED BY <2>1
<1>9. g[K + 1] = d /\ (\A i \in 0..K : g[i] = f[i]) /\ 0 \in 0..K /\ K \in 0..K
  BY <1>5
<1>10. p # 0 => p \in 1..N
  BY <1>4
<1> HIDE DEF g
<1>11. ASSUME NEW i \in 1..(K + 1) PROVE EditStep(g[i - 1], t[p + i], g[i])
  <2>1. CASE i = K + 1
    BY <1>4, <1>5, <1>6, <1>9, <2>1
  <2>2. CASE i # K + 1
    <3>1. i \in 1..K /\ i \in 0..K /\ i - 1 \in 0..K
      BY <1>5, <2>2
    <3>2. g[i] = f[i] /\ g[i - 1] = f[i - 1] /\ t[p + i] = m[p + i]
      BY <1>4, <1>7, <1>9, <3>1
    <3> QED BY <1>6, <3>1, <3>2
  <2> QED BY <2>1, <2>2
<1>12. Len(t) - p = K + 1 /\ p \in 0..Len(t)
  BY <1>4, <1>5
<1>13. IF p = 0 THEN Behind(text, b, g[0]) ELSE t[p] = b /\ g[0] = << >>
  BY <1>3, <1>4, <1>9, <1>10
<1>14. Echoes(text, t, b, d, p, g)
  BY <1>9, <1>11, <1>12, <1>13 DEF Echoes
<1>15. WillShow(text, t, b, d)
  BY <1>8, <1>12, <1>14 DEF WillShow
<1> QED BY <1>15 DEF t

\* The text after each character read is a text.
LEMMA AppendType ==
    ASSUME NEW text \in Seq(Ink), NEW x \in Seq(Ink)
    PROVE  /\ \A n \in 0..Len(x) : AppendTo(text, x)[n] \in Seq(Ink)
           /\ append_output(text, x) \in Seq(Ink)
<1> DEFINE out == AppendTo(text, x)
           T == {n \in Nat : out[n] \in Seq(Ink)}
           N == Len(x)
<1>1. N \in Nat /\ \A i \in 1..N : x[i] \in Ink
  OBVIOUS
<1>2. /\ out[0] = text /\ (\A n \in 1..N : out[n] = AppendOne(out[n - 1], x, n))
      /\ append_output(text, x) = out[N]
  BY <1>1, AppendDef
<1> HIDE DEF out, N
<1>3. 0 \in T
  BY <1>2
<1>4. ASSUME NEW n \in 0..(N - 1), n \in T PROVE n + 1 \in T
  <2>1. n + 1 \in 1..N /\ (n + 1) - 1 = n /\ n + 1 \in Nat
    BY <1>1
  <2>2. out[n + 1] = AppendOne(out[n], x, n + 1) /\ x[n + 1] \in Ink /\ out[n] \in Seq(Ink)
    BY <1>1, <1>2, <1>4, <2>1
  <2>3. AppendOne(out[n], x, n + 1) \in Seq(Ink)
    BY <2>2, AppendOneIs
  <2> QED BY <2>1, <2>2, <2>3
<1>5. \A n \in 0..N : n \in T
  <2> HIDE DEF T
  <2> QED BY <1>1, <1>3, <1>4, UpTo
<1>6. \A n \in 0..N : out[n] \in Seq(Ink)
  BY <1>5
<1>7. N \in 0..N
  BY <1>1
<1> QED BY <1>2, <1>6, <1>7 DEF out, N

\* An edit of the line is the same edit of the text.
LEMMA EditShown ==
    ASSUME NEW t \in Seq(Ink), NEW x, NEW k, x[k] \in Ink, NEW b \in Ink, NEW l \in Seq(Ink), NEW r,
           Behind(t, b, l), EditStep(l, x[k], r)
    PROVE  Behind(AppendOne(t, x, k), b, r)
<1>1. CASE x[k] = "bs" /\ l # << >> /\ r = Front(l)
  <2>1. t # << >> /\ Behind(Front(t), b, Front(l))
    BY <1>1, BehindBack
  <2>2. AppendOne(t, x, k) = Front(t)
    BY <1>1, <2>1, AppendOneIs
  <2> QED BY <1>1, <2>1, <2>2
<1>2. CASE x[k] \in Solid \ {"ff"} /\ r = Append(l, x[k])
  <2>1. Behind(Append(t, x[k]), b, Append(l, x[k]))
    BY BehindAdd
  <2>2. AppendOne(t, x, k) = Append(t, x[k])
    BY <1>2, AppendOneIs
  <2> QED BY <1>2, <2>1, <2>2
<1> QED BY <1>1, <1>2 DEF EditStep

\* The terminal reads a part of what waits, and shows it.
LEMMA ShowsRead ==
    ASSUME NEW text \in Seq(Ink), NEW m \in Seq(Ink), NEW b \in Solid, NEW ln,
           WillShow(text, m, b, ln), NEW n \in 0..Len(m)
    PROVE  WillShow(append_output(text, SubSeq(m, 1, n)), SubSeq(m, n + 1, Len(m)), b, ln)
<1> DEFINE N == Len(m)
           x == SubSeq(m, 1, n)
           y == SubSeq(m, n + 1, N)
           out == AppendTo(text, x)
<1>1. PICK p \in 0..N : \E f \in [0..(N - p) -> Seq(Ink)] : Echoes(text, m, b, ln, p, f)
  BY DEF WillShow
<1>2. PICK f \in [0..(N - p) -> Seq(Ink)] : Echoes(text, m, b, ln, p, f)
  BY <1>1
<1>3. /\ p = 0 => Behind(text, b, f[0])
      /\ p # 0 => m[p] = b /\ f[0] = << >>
      /\ f[N - p] = ln
      /\ \A i \in 1..(N - p) : EditStep(f[i - 1], m[p + i], f[i])
  BY <1>2 DEF Echoes
<1>4. N \in Nat /\ n \in 0..N /\ p \in 0..N /\ \A i \in 1..N : m[i] \in Ink
  OBVIOUS
<1>5. /\ x \in Seq(Ink) /\ Len(x) = n /\ \A i \in 1..n : x[i] = m[i]
  BY <1>4
<1>6. Len(y) = N - n /\ \A i \in 1..(N - n) : y[i] = m[n + i]
  BY <1>4
<1> HIDE DEF N, x, y
<1>7. /\ out[0] = text /\ \A i \in 1..n : out[i] = AppendOne(out[i - 1], x, i)
      /\ append_output(text, x) = out[n]
  BY <1>4, <1>5, AppendDef
<1>8. \A i \in 0..n : out[i] \in Seq(Ink)
  BY <1>5, AppendType
<1>9. \A i \in 0..(N - p) : f[i] \in Seq(Ink)
  BY <1>2
<1>10. b \in Ink
  BY DEF Solid
<1> HIDE DEF out
<1>11. CASE n < p
  <2> DEFINE q == p - n
  <2>1. q \in 1..Len(y) /\ q # 0 /\ q \in 0..Len(y) /\ Len(y) - q = N - p /\ n + q = p /\ p # 0
    BY <1>4, <1>6, <1>11
  <2>2. \A i \in 1..(N - p) : q + i \in 1..(N - n) /\ n + (q + i) = p + i
    BY <1>4, <1>11
  <2> HIDE DEF q
  <2>3. y[q] = b /\ f[0] = << >>
    BY <1>3, <1>6, <2>1
  <2>4. \A i \in 1..(N - p) : EditStep(f[i - 1], y[q + i], f[i])
    BY <1>3, <1>6, <2>2
  <2>5. Echoes(out[n], y, b, ln, q, f)
    BY <1>3, <2>1, <2>3, <2>4 DEF Echoes
  <2>6. f \in [0..(Len(y) - q) -> Seq(Ink)]
    BY <1>2, <2>1
  <2>7. WillShow(out[n], y, b, ln)
    BY <2>1, <2>5, <2>6 DEF WillShow
  <2> QED BY <1>7, <2>7 DEF x, y, N
<1>12. CASE n >= p
  <2> DEFINE d == n - p
             T == {i \in Nat : Behind(out[p + i], b, f[i])}
             g == [i \in 0..(N - n) |-> f[d + i]]
  <2>1. d \in 0..(N - p) /\ p + d = n /\ d \in Nat
    BY <1>4, <1>12
  <2>2. 0 \in T
    <3>1. CASE p = 0
      BY <1>3, <1>7, <3>1
    <3>2. CASE p # 0
      <4>1. p \in 1..n /\ p - 1 \in 0..n /\ p + 0 = p /\ p \in 1..N
        BY <1>4, <1>12, <3>2
      <4>2. out[p] = AppendOne(out[p - 1], x, p) /\ x[p] = b /\ out[p - 1] \in Seq(Ink)
        BY <1>3, <1>5, <1>7, <1>8, <3>2, <4>1
      <4>3. out[p] = IF b = "ff" THEN << >> ELSE Append(out[p - 1], b)
        <5>1. x[p] \in Ink /\ x[p] \in Solid
          BY <1>10, <4>2
        <5>2. /\ x[p] = "ff" => AppendOne(out[p - 1], x, p) = << >>
              /\ x[p] \in Solid /\ x[p] # "ff" => AppendOne(out[p - 1], x, p) = Append(out[p - 1], x[p])
          BY <4>2, <5>1, AppendOneIs, Zenon
        <5> QED BY <4>2, <5>1, <5>2
      <4>4. Behind(out[p], b, << >>)
        BY <1>10, <4>2, <4>3, BehindNew
      <4> QED BY <1>3, <3>2, <4>1, <4>4
    <3> QED BY <3>1, <3>2
  <2>3. ASSUME NEW i \in 0..(d - 1), i \in T PROVE i + 1 \in T
    <3>1. /\ i + 1 \in 1..(N - p) /\ (i + 1) - 1 = i /\ i \in 0..(N - p) /\ i + 1 \in Nat
          /\ p + (i + 1) \in 1..n /\ (p + (i + 1)) - 1 = p + i /\ p + i \in 0..n
          /\ p + (i + 1) \in 1..N
      BY <1>4, <2>1
    <3>2. EditStep(f[i], x[p + (i + 1)], f[i + 1]) /\ x[p + (i + 1)] \in Ink
      BY <1>3, <1>4, <1>5, <3>1
    <3>3. out[p + (i + 1)] = AppendOne(out[p + i], x, p + (i + 1)) /\ out[p + i] \in Seq(Ink)
      BY <1>7, <1>8, <3>1
    <3>4. f[i] \in Seq(Ink) /\ Behind(out[p + i], b, f[i])
      BY <1>9, <2>3, <3>1
    <3>5. Behind(out[p + (i + 1)], b, f[i + 1])
      BY <1>10, <3>2, <3>3, <3>4, EditShown
    <3> QED BY <3>1, <3>5
  <2>4. d \in T
    <3> HIDE DEF T, d
    <3>1. \A i \in 0..d : i \in T
      BY <2>1, <2>2, <2>3, UpTo
    <3>2. d \in 0..d
      BY <2>1
    <3> QED BY <3>1, <3>2
  <2>5. Behind(out[n], b, f[d])
    BY <2>1, <2>4
  <2>6. \A i \in 0..(N - n) : d + i \in 0..(N - p)
    BY <1>4, <2>1
  <2>7. \A i \in 1..(N - n) : /\ d + i \in 1..(N - p) /\ p + (d + i) = n + i /\ (d + i) - 1 = d + (i - 1)
                              /\ i - 1 \in 0..(N - n) /\ i \in 0..(N - n)
    BY <1>4, <2>1
  <2>8. 0 \in 0..(N - n) /\ d + 0 = d /\ N - n \in 0..(N - n) /\ d + (N - n) = N - p /\ 0 + 0 = 0
        /\ (N - n) - 0 = N - n /\ 0 \in 0..Len(y) /\ \A i \in 1..(N - n) : 0 + i = i
    BY <1>4, <1>6, <2>1
  <2>9. g \in [0..(N - n) -> Seq(Ink)]
    BY <1>9, <2>6
  <2>10. \A i \in 0..(N - n) : g[i] = f[d + i]
    OBVIOUS
  <2> HIDE DEF g, d
  <2>11. g[0] = f[d] /\ g[N - n] = ln
    BY <1>3, <2>8, <2>10
  <2>12. ASSUME NEW i \in 1..(N - n) PROVE EditStep(g[i - 1], y[0 + i], g[i])
    <3>1. g[i - 1] = f[(d + i) - 1] /\ g[i] = f[d + i] /\ y[0 + i] = m[p + (d + i)]
      BY <1>6, <2>7, <2>8, <2>10
    <3>2. EditStep(f[(d + i) - 1], m[p + (d + i)], f[d + i])
      BY <1>3, <2>7
    <3> QED BY <3>1, <3>2
  <2>13. Echoes(out[n], y, b, ln, 0, g)
    BY <1>6, <2>5, <2>8, <2>11, <2>12 DEF Echoes
  <2>14. g \in [0..(Len(y) - 0) -> Seq(Ink)]
    BY <1>6, <2>8, <2>9
  <2>15. WillShow(out[n], y, b, ln)
    BY <2>8, <2>13, <2>14 DEF WillShow
  <2> QED BY <1>7, <2>15 DEF x, y, N
<1> QED BY <1>4, <1>11, <1>12

-----------------------------------------------------------------------------
(* The invariant of the screens.                                           *)

\* Characters of a line that is still edited.
Mark == Key \ {"bs", "nl"}

ScreenTypes == /\ text_buf \in Seq(Ink) /\ pty.master_read \in Seq(Ink)
               /\ pty.line_buf \in Seq(Mark) /\ before \in Solid

\* What the terminal reads will show the pty's line.
PtyScreen == clean /\ tpc # "closed" =>
                 WillShow(text_buf, pty.master_read, before, pty.line_buf)

\* What the shell echoes shows its line, which is empty while it does not read.
ShellScreen == /\ line \in Seq(Mark) /\ Behind(text_buf, before, line)
               /\ spc # "read" => line = << >>

ScreenInv == /\ ScreenTypes
             /\ mode = "pty" => PtyScreen
             /\ mode = "console" => ShellScreen

\* The characters and the sets they are in.
LEMMA MarkIs ==
    /\ Mark \subseteq Ink /\ Key \subseteq Ink
    /\ \A c \in Mark : c # "nl" /\ c # "bs" /\ (c # "tab" => c \in Solid \ {"ff"})
    /\ {"bs", "sp", "nl", "cr", "ff", "$", "e"} \subseteq Ink
    /\ "sp" \in Solid \ {"ff"} /\ "nl" \in Solid /\ "$" \in Solid /\ "ff" \in Solid
    /\ STRING \subseteq Ink /\ Solid \subseteq Ink
<1>1. \A c \in Key : c # "cr" /\ c # "ff"
  BY TerminalAssumption
<1> QED BY <1>1 DEF Mark, Ink, Solid

\* The characters of a line.
LEMMA LineMarks ==
    ASSUME NEW u \in Seq(Mark)
    PROVE  /\ u \in Seq(Ink) /\ Len(u) \in Nat
           /\ \A j \in 1..Len(u) : u[j] # "nl" /\ u[j] \in Mark
           /\ u # << >> => Front(u) \in Seq(Mark) /\ u[Len(u)] # "nl"
           /\ \A c \in Mark : Append(u, c) \in Seq(Mark)
<1>1. u \in Seq(Ink)
  BY MarkIs, SeqMonotonic
<1>2. Len(u) \in Nat /\ \A j \in 1..Len(u) : u[j] \in Mark
  OBVIOUS
<1>3. u # << >> => Front(u) \in Seq(Mark) /\ u[Len(u)] \in Mark
  BY FrontLast, Zenon DEF Front
<1>4. \A c \in Mark : Append(u, c) \in Seq(Mark)
  BY AppendProperties
<1> QED BY <1>1, <1>2, <1>3, <1>4, MarkIs

\* A backspace as it is echoed takes a character back.
LEMMA ShowsErase ==
    ASSUME NEW text, NEW m \in Seq(Ink), NEW b, NEW ln \in Seq(Ink), ln # << >>,
           WillShow(text, m, b, ln)
    PROVE  WillShow(text, m \o <<"bs", "sp", "bs">>, b, Front(ln))
<1> DEFINE d == Front(ln)
           e == Append(d, "sp")
           m1 == Append(m, "bs")
           m2 == Append(m1, "sp")
<1>1. d \in Seq(Ink)
  BY FrontLast, Zenon DEF Front
<1>2. "sp" \in Solid \ {"ff"} /\ "sp" \in Ink /\ "bs" \in Ink
  BY MarkIs
<1>3. WillShow(text, m1, b, d)
  <2>1. EditStep(ln, "bs", d)
    BY DEF EditStep
  <2> HIDE DEF d
  <2> QED BY <1>1, <1>2, <2>1, ShowsMore
<1> HIDE DEF d
<1>4. e \in Seq(Ink) /\ e # << >> /\ Front(e) = d
  <2>1. e \in Seq(Ink) /\ Len(e) = Len(d) + 1 /\ e # << >>
    BY <1>1, <1>2
  <2>2. SubSeq(Append(d, "sp"), 1, Len(d)) = d
    BY <1>1, <1>2
  <2>3. (Len(d) + 1) - 1 = Len(d)
    BY <1>1
  <2> QED BY <2>1, <2>2, <2>3 DEF Front
<1>5. m1 \in Seq(Ink) /\ m2 \in Seq(Ink)
  BY <1>2, AppendProperties
<1>6. WillShow(text, m2, b, e)
  <2>1. EditStep(d, "sp", e)
    BY <1>2 DEF EditStep
  <2> HIDE DEF e, m1
  <2> QED BY <1>2, <1>3, <1>4, <1>5, <2>1, ShowsMore
<1>7. WillShow(text, Append(m2, "bs"), b, d)
  <2>1. EditStep(e, "bs", d)
    BY <1>4 DEF EditStep
  <2> HIDE DEF e, m2
  <2> QED BY <1>1, <1>2, <1>5, <1>6, <2>1, ShowsMore
<1>8. m \o <<"bs", "sp", "bs">> = Append(m2, "bs")
  <2>1. ASSUME NEW x \in Ink, NEW y \in Ink
        PROVE m \o <<x, y, x>> = Append(Append(Append(m, x), y), x)
    OBVIOUS
  <2> QED BY <1>2, <2>1
<1> QED BY <1>7, <1>8 DEF d

\* A step that changes nothing on the screen, nor on its way there.
LEMMA ScreenSame ==
    ASSUME ScreenInv,
           UNCHANGED <<mode, text_buf, before, line>>,
           pty'.master_read = pty.master_read, pty'.line_buf = pty.line_buf,
           clean' => clean, tpc' # "closed" => tpc # "closed",
           mode = "console" /\ spc' # "read" => line = << >>
    PROVE  ScreenInv'
<1>1. ScreenTypes'
  BY DEF ScreenInv, ScreenTypes
<1>2. PtyScreen => PtyScreen'
  BY DEF PtyScreen
<1>3. mode = "console" /\ ShellScreen => ShellScreen'
  BY DEF ShellScreen
<1> QED BY <1>1, <1>2, <1>3 DEF ScreenInv

\* terminal.c reads and shows what it read.
LEMMA ScreenRead ==
    ASSUME TermTypes, ScreenInv, terminal_read
    PROVE  ScreenInv'
<1> DEFINE m == pty.master_read
           n == Min({CHUNK, Len(m)})
<1>1. /\ mode = "pty" /\ mode' = "pty" /\ tpc = "read"
      /\ text_buf' = append_output(text_buf, SubSeq(m, 1, n))
      /\ pty' = [pty EXCEPT !.master_read = SubSeq(m, n + 1, Len(m))]
      /\ UNCHANGED <<before, clean>>
  BY DEF terminal_read, Taken, Left, pty_master_read
<1>2. ScreenTypes /\ PtyScreen
  BY <1>1 DEF ScreenInv
<1>3. text_buf \in Seq(Ink) /\ m \in Seq(Ink) /\ before \in Solid /\ pty.line_buf \in Seq(Mark)
  BY <1>2 DEF ScreenTypes
<1>4. n \in 0..Len(m)
  <2>1. CHUNK \in Nat /\ Len(m) \in Nat
    BY <1>3, TerminalAssumption
  <2>2. n = IF CHUNK <= Len(m) THEN CHUNK ELSE Len(m)
    BY <2>1, MinOfTwo
  <2> HIDE DEF m
  <2> QED BY <2>1, <2>2
<1>5. pty'.master_read = SubSeq(m, n + 1, Len(m)) /\ pty'.line_buf = pty.line_buf
  <2>1. pty = [master_read |-> m, master_write |-> pty.master_write, line_buf |-> pty.line_buf]
    BY DEF TermTypes
  <2> HIDE DEF n
  <2>2. \A q : [pty EXCEPT !.master_read = q] =
                    [master_read |-> q, master_write |-> pty.master_write, line_buf |-> pty.line_buf]
    BY <2>1
  <2> QED BY <1>1, <2>2
<1> HIDE DEF n, m
<1>6. SubSeq(m, 1, n) \in Seq(Ink) /\ SubSeq(m, n + 1, Len(m)) \in Seq(Ink)
  BY <1>3, <1>4
<1>7. append_output(text_buf, SubSeq(m, 1, n)) \in Seq(Ink)
  BY <1>3, <1>6, AppendType
<1>8. ScreenTypes'
  BY <1>1, <1>3, <1>5, <1>6, <1>7 DEF ScreenTypes
<1>9. PtyScreen'
  <2>1. ASSUME clean', tpc' # "closed" PROVE WillShow(text_buf, m, before, pty.line_buf)
    BY <1>1, <1>2, <2>1 DEF PtyScreen, m
  <2>2. ASSUME clean', tpc' # "closed"
        PROVE  WillShow(append_output(text_buf, SubSeq(m, 1, n)), SubSeq(m, n + 1, Len(m)), before, pty.line_buf)
    BY <1>3, <1>4, <2>1, <2>2, ShowsRead
  <2> QED BY <1>1, <1>5, <2>2 DEF PtyScreen
<1> QED BY <1>1, <1>8, <1>9 DEF ScreenInv

\* A key: the pty's line and what it echoes stay together, or the line is not clean.
LEMMA ScreenKey ==
    ASSUME TermTypes, ScreenInv, terminal_key
    PROVE  ScreenInv'
<1> DEFINE k == Head(events)
           lb == pty.line_buf
           mw == pty.master_write
           q == pty.master_read
           echoed == CASE k = "bs" -> IF lb = << >> THEN 0 ELSE 3
                       [] k = "nl" -> 2
                       [] OTHER -> 1
           full == Len(lb) = PTY_LINE_CAP - 1 /\ k \notin {"bs", "nl"}
           fits == echoed <= fifo_free(q)
<1>1. /\ mode = "pty" /\ mode' = "pty" /\ events # << >>
      /\ UNCHANGED <<text_buf, tpc>>
      /\ pty' = pty_master_write(pty, k)
      /\ clean' = CASE k = "nl" -> fits
                    [] k = "tab" -> FALSE
                    [] OTHER -> clean /\ (fits \/ full)
      /\ before' = IF k = "nl" THEN "nl" ELSE before
  BY DEF terminal_key
<1>2. ScreenTypes /\ PtyScreen
  BY <1>1 DEF ScreenInv
<1>3. /\ text_buf \in Seq(Ink) /\ q \in Seq(Ink) /\ before \in Solid /\ lb \in Seq(Mark)
  BY <1>2 DEF ScreenTypes
<1>4. pty = PtyAs(q, mw, lb) /\ Len(lb) <= PTY_LINE_CAP - 1 /\ Len(lb) \in Nat /\ PTY_LINE_CAP \in Nat
  <2>1. Len(lb) \in Nat
    BY <1>3
  <2> QED BY <2>1, PtyAssumption DEF TermTypes, PtyAs
<1>5. k \in Key /\ k # "cr" /\ k # "ff"
  <2>1. events \in Seq(Key)
    BY DEF TermTypes
  <2>2. k \in Key
    BY <1>1, <2>1, HeadTail
  <2> QED BY <2>2, TerminalAssumption
<1>6. /\ k = "bs" /\ lb = << >> => pty' = PtyAs(q, mw, lb)
      /\ k = "bs" /\ lb # << >>
            => pty' = PtyAs(fifo_write(q, Onlcr(<<"bs", "sp", "bs">>)), mw, Front(lb))
      /\ k = "nl" => pty' = PtyAs(fifo_write(q, Onlcr(<<"nl">>)), fifo_write(mw, Append(lb, "nl")), << >>)
      /\ k \notin {"bs", "nl"} /\ Len(lb) < PTY_LINE_CAP - 1
            => pty' = PtyAs(fifo_write(q, Onlcr(<<k>>)), mw, Append(lb, k))
      /\ k \notin {"bs", "nl"} /\ ~(Len(lb) < PTY_LINE_CAP - 1) => pty' = PtyAs(q, mw, lb)
  <2>1. pty' = pty_master_write(PtyAs(q, mw, lb), k) /\ k # "cr"
    BY <1>1, <1>4, <1>5
  <2> HIDE DEF k, q, mw, lb
  <2>2. KeyMakes(pty', q, mw, lb, k)
    BY <2>1, PtyEcho, Zenon
  <2> QED BY <2>2, Zenon DEF KeyMakes
<1>7. /\ k = "bs" /\ lb # << >> => (clean' => clean /\ 3 <= fifo_free(q))
      /\ k = "nl" => (clean' => 2 <= fifo_free(q))
      /\ k \notin {"bs", "nl"} => (clean' => clean /\ k # "tab" /\ (1 <= fifo_free(q) \/ full))
      /\ k = "bs" /\ lb = << >> => (clean' => clean)
  <2> DEFINE c == clean'
  <2> HIDE DEF k, q, lb, full
  <2>1. c = CASE k = "nl" -> fits [] k = "tab" -> FALSE [] OTHER -> clean /\ (fits \/ full)
    BY <1>1
  <2> HIDE DEF c
  <2>2. k = "nl" => c = (2 <= fifo_free(q))
    BY <2>1
  <2>3. k = "tab" => c = FALSE
    BY <2>1
  <2>4. k = "bs" /\ lb # << >> => c = (clean /\ (3 <= fifo_free(q) \/ full))
    BY <2>1
  <2>5. k = "bs" /\ lb = << >> => c = (clean /\ (0 <= fifo_free(q) \/ full))
    BY <2>1
  <2>6. k \notin {"bs", "nl", "tab"} => c = (clean /\ (1 <= fifo_free(q) \/ full))
    BY <2>1
  <2>7. full => k \notin {"bs", "nl"}
    BY DEF full
  <2> QED BY <2>2, <2>3, <2>4, <2>5, <2>6, <2>7, Zenon DEF c
<1>8. full => ~(Len(lb) < PTY_LINE_CAP - 1)
  BY <1>4
<1> HIDE DEF k, lb, mw, q, full
<1>9. ASSUME NEW q1 \in Seq(Ink), NEW m1, NEW b1 \in Seq(Mark), pty' = PtyAs(q1, m1, b1),
             before' \in Solid,
             clean' /\ tpc # "closed" => WillShow(text_buf, q1, before', b1)
      PROVE  ScreenInv'
  <2>1. pty'.master_read = q1 /\ pty'.line_buf = b1
    BY <1>9 DEF PtyAs
  <2>2. ScreenTypes'
    BY <1>1, <1>3, <1>9, <2>1 DEF ScreenTypes
  <2>3. PtyScreen'
    BY <1>1, <1>9, <2>1 DEF PtyScreen
  <2> QED BY <1>1, <2>2, <2>3 DEF ScreenInv
<1>10. clean /\ tpc # "closed" => WillShow(text_buf, q, before, lb)
  BY <1>2 DEF PtyScreen, q, lb
<1>11. CASE k = "bs" /\ lb = << >>
  BY <1>1, <1>3, <1>6, <1>7, <1>9, <1>10, <1>11
<1>12. CASE k = "bs" /\ lb # << >>
  <2> DEFINE e == <<"bs", "sp", "bs">>
             q1 == fifo_write(q, e)
  <2>1. e \in Seq(Ink) /\ Len(e) = 3
    BY MarkIs
  <2>2. Onlcr(e) = e
    BY OnlcrIs
  <2> HIDE DEF e
  <2>3. q1 \in Seq(Ink) /\ (3 <= fifo_free(q) => q1 = q \o e)
    BY <1>3, <2>1, FifoWrite
  <2>4. Front(lb) \in Seq(Mark) /\ lb \in Seq(Ink)
    BY <1>3, <1>12, LineMarks
  <2>5. pty' = PtyAs(q1, mw, Front(lb)) /\ before' = before
    BY <1>1, <1>6, <1>12, <2>2 DEF e
  <2>6. ASSUME clean', tpc # "closed" PROVE WillShow(text_buf, q1, before', Front(lb))
    <3>1. WillShow(text_buf, q, before, lb) /\ q1 = q \o e
      BY <1>7, <1>10, <1>12, <2>3, <2>6
    <3>2. WillShow(text_buf, q \o e, before, Front(lb))
      BY <1>3, <1>12, <2>4, <3>1, ShowsErase DEF e
    <3> QED BY <2>5, <3>1, <3>2
  <2> HIDE DEF q1
  <2> QED BY <1>3, <1>9, <2>3, <2>4, <2>5, <2>6
<1>13. CASE k = "nl"
  <2> DEFINE e == <<"cr", "nl">>
             q1 == fifo_write(q, e)
  <2>1. e \in Seq(Ink) /\ Len(e) = 2 /\ EndsIn(e, "nl")
    BY MarkIs DEF EndsIn
  <2>2. Onlcr(<<"nl">>) = e
    BY OnlcrIs
  <2> HIDE DEF e
  <2>3. q1 \in Seq(Ink) /\ (2 <= fifo_free(q) => q1 = q \o e)
    BY <1>3, <2>1, FifoWrite
  <2>4. pty' = PtyAs(q1, fifo_write(mw, Append(lb, "nl")), << >>) /\ before' = "nl"
    BY <1>1, <1>6, <1>13, <2>2
  <2>5. ASSUME clean' PROVE WillShow(text_buf, q1, before', << >>)
    <3>1. q1 = q \o e
      BY <1>7, <1>13, <2>3, <2>5
    <3>2. EndsIn(q \o e, "nl")
      BY <1>3, <2>1, EndsAppend
    <3> QED BY <2>4, <3>1, <3>2, ShowsFresh
  <2>6. << >> \in Seq(Mark) /\ "nl" \in Solid
    BY EmptySeq, MarkIs
  <2> HIDE DEF q1
  <2> QED BY <1>9, <2>3, <2>4, <2>5, <2>6
<1>14. CASE k \notin {"bs", "nl"} /\ Len(lb) < PTY_LINE_CAP - 1
  <2> DEFINE e == <<k>>
             q1 == fifo_write(q, e)
  <2>1. k \in Mark /\ k \in Ink /\ (k # "tab" => k \in Solid \ {"ff"})
    BY <1>5, <1>14, MarkIs DEF Mark
  <2>2. e \in Seq(Ink) /\ Len(e) = 1 /\ q \o e = Append(q, k)
    BY <1>3, <2>1
  <2>3. Onlcr(<<k>>) = e
    BY <1>14, OnlcrIs
  <2> HIDE DEF e
  <2>4. q1 \in Seq(Ink) /\ (1 <= fifo_free(q) => q1 = Append(q, k))
    BY <1>3, <2>2, FifoWrite
  <2>5. Append(lb, k) \in Seq(Mark) /\ lb \in Seq(Ink)
    BY <1>3, <2>1, LineMarks
  <2>6. Append(lb, k) \in Seq(Ink)
    BY <2>1, <2>5, AppendProperties
  <2>7. pty' = PtyAs(q1, mw, Append(lb, k)) /\ before' = before
    BY <1>1, <1>6, <1>14, <2>3
  <2>8. ASSUME clean', tpc # "closed" PROVE WillShow(text_buf, q1, before', Append(lb, k))
    <3>1. clean /\ k # "tab" /\ 1 <= fifo_free(q)
      BY <1>7, <1>8, <1>14, <2>8
    <3>2. WillShow(text_buf, q, before, lb) /\ q1 = Append(q, k) /\ EditStep(lb, k, Append(lb, k))
      BY <1>10, <2>1, <2>4, <2>8, <3>1 DEF EditStep
    <3>3. WillShow(text_buf, Append(q, k), before, Append(lb, k))
      BY <1>3, <2>1, <2>6, <3>2, ShowsMore
    <3> QED BY <2>7, <3>2, <3>3
  <2> HIDE DEF q1
  <2> QED BY <1>3, <1>9, <2>4, <2>5, <2>7, <2>8
<1>15. CASE k \notin {"bs", "nl"} /\ ~(Len(lb) < PTY_LINE_CAP - 1)
  BY <1>1, <1>3, <1>6, <1>7, <1>9, <1>10, <1>15
<1> QED BY <1>11, <1>12, <1>13, <1>14, <1>15

\* The console's text after each character is a text.
LEMMA PrintType ==
    ASSUME NEW text \in Seq(Ink), NEW x \in Seq(Ink)
    PROVE  /\ \A n \in 0..Len(x) : PrintTo(text, x)[n] \in Seq(Ink)
           /\ ttydev_write_line(text, x) \in Seq(Ink)
<1> DEFINE out == PrintTo(text, x)
           T == {n \in Nat : out[n] \in Seq(Ink)}
           N == Len(x)
<1>1. N \in Nat /\ \A i \in 1..N : x[i] \in Ink
  OBVIOUS
<1>2. /\ out[0] = text /\ (\A n \in 1..N : out[n] = PrintOne(out[n - 1], x[n]))
      /\ ttydev_write_line(text, x) = out[N]
  BY <1>1, PrintDef
<1> HIDE DEF out, N
<1>3. 0 \in T
  BY <1>2
<1>4. ASSUME NEW n \in 0..(N - 1), n \in T PROVE n + 1 \in T
  <2>1. n + 1 \in 1..N /\ (n + 1) - 1 = n /\ n + 1 \in Nat
    BY <1>1
  <2>2. out[n + 1] = PrintOne(out[n], x[n + 1]) /\ x[n + 1] \in Ink /\ out[n] \in Seq(Ink)
    BY <1>1, <1>2, <1>4, <2>1
  <2>3. PrintOne(out[n], x[n + 1]) \in Seq(Ink)
    BY <2>2, PrintOneIs
  <2> QED BY <2>1, <2>2, <2>3
<1>5. \A n \in 0..N : n \in T
  <2> HIDE DEF T
  <2> QED BY <1>1, <1>3, <1>4, UpTo
<1>6. \A n \in 0..N : out[n] \in Seq(Ink)
  BY <1>5
<1>7. N \in 0..N
  BY <1>1
<1> QED BY <1>2, <1>6, <1>7 DEF out, N

\* One character printed.
LEMMA PrintChar ==
    ASSUME NEW text, NEW c
    PROVE  ttydev_write_line(text, <<c>>) = PrintOne(text, c)
<1> DEFINE x == <<c>>
<1>1. Len(x) = 1 /\ x[1] = c
  OBVIOUS
<1> HIDE DEF x
<1>2. /\ PrintTo(text, x)[0] = text
      /\ \A n \in 1..1 : PrintTo(text, x)[n] = PrintOne(PrintTo(text, x)[n - 1], x[n])
      /\ ttydev_write_line(text, x) = PrintTo(text, x)[1]
  <2>1. Len(x) \in Nat
    BY <1>1
  <2>2. /\ PrintTo(text, x)[0] = text
        /\ \A n \in 1..Len(x) : PrintTo(text, x)[n] = PrintOne(PrintTo(text, x)[n - 1], x[n])
        /\ ttydev_write_line(text, x) = PrintTo(text, x)[Len(x)]
    BY <2>1, PrintDef
  <2> QED BY <1>1, <2>2
<1>3. 1 \in 1..1 /\ 1 - 1 = 0
  OBVIOUS
<1> QED BY <1>1, <1>2, <1>3 DEF x

\* A line begins behind what is written to the console.
LEMMA PrintEnds ==
    ASSUME NEW text \in Seq(Ink), NEW x \in Seq(Ink), x # << >>, Last(x) \in Solid
    PROVE  Behind(ttydev_write_line(text, x), Last(x), << >>)
<1> DEFINE b == Last(x)
           N == Len(x)
           out == PrintTo(text, x)
<1>1. N \in Nat \ {0} /\ x[N] = b
  BY DEF Last
<1>2. out[N] = PrintOne(out[N - 1], x[N]) /\ ttydev_write_line(text, x) = out[N]
  <2>1. N \in 1..N /\ Len(x) \in Nat
    BY <1>1
  <2> QED BY <2>1, PrintDef
<1>3. out[N - 1] \in Seq(Ink)
  <2>1. N - 1 \in 0..Len(x)
    BY <1>1
  <2> QED BY <2>1, PrintType
<1>4. b \in Solid /\ b \in Ink
  BY MarkIs
<1> HIDE DEF b, N, out
<1>5. PrintOne(out[N - 1], b) = IF b = "ff" THEN << >> ELSE Append(out[N - 1], b)
  BY <1>3, <1>4, PrintOneIs
<1>6. Behind(PrintOne(out[N - 1], b), b, << >>)
  BY <1>3, <1>4, <1>5, BehindNew
<1> QED BY <1>1, <1>2, <1>6 DEF b

\* A character of the line printed.
LEMMA PrintAdds ==
    ASSUME NEW text \in Seq(Ink), NEW b \in Ink, NEW l \in Seq(Ink), Behind(text, b, l),
           NEW c \in Solid \ {"ff"}
    PROVE  Behind(PrintOne(text, c), b, Append(l, c))
<1>1. c \in Ink
  BY MarkIs
<1>2. PrintOne(text, c) = Append(text, c)
  BY <1>1, PrintOneIs
<1>3. Behind(Append(text, c), b, Append(l, c))
  BY <1>1, BehindAdd
<1> QED BY <1>2, <1>3

\* A backspace printed behind a character of the line.
LEMMA PrintBack ==
    ASSUME NEW text \in Seq(Ink), NEW b \in Ink, NEW l \in Seq(Ink), Behind(text, b, l),
           l # << >>, l[Len(l)] # "nl"
    PROVE  Behind(PrintOne(text, "bs"), b, Front(l))
<1>1. text # << >> /\ text[Len(text)] = l[Len(l)] /\ Behind(Front(text), b, Front(l))
  BY BehindBack
<1>2. "bs" \in Ink
  BY MarkIs
<1>3. PrintOne(text, "bs") = Front(text)
  BY <1>1, <1>2, PrintOneIs
<1> QED BY <1>1, <1>3

\* The shell's echo of a backspace takes a character back.
LEMMA PrintErases ==
    ASSUME NEW text \in Seq(Ink), NEW b \in Ink, NEW l \in Seq(Ink), Behind(text, b, l),
           l # << >>, l[Len(l)] # "nl"
    PROVE  Behind(ttydev_write_line(text, <<"bs", "sp", "bs">>), b, Front(l))
<1> DEFINE x == <<"bs", "sp", "bs">>
           t1 == PrintOne(text, "bs")
           t2 == PrintOne(t1, "sp")
           d == Front(l)
           e == Append(d, "sp")
<1>1. "sp" \in Solid \ {"ff"} /\ "sp" \in Ink /\ "bs" \in Ink /\ "sp" # "nl"
  BY MarkIs
<1>2. t1 \in Seq(Ink)
  BY <1>1, PrintOneIs
<1>3. t2 \in Seq(Ink)
  <2> HIDE DEF t1
  <2> QED BY <1>1, <1>2, PrintOneIs
<1>4. Behind(t1, b, d)
  BY PrintBack
<1>5. d \in Seq(Ink)
  BY FrontLast, Zenon DEF Front
<1> HIDE DEF d, t1
<1>6. e \in Seq(Ink) /\ e # << >> /\ Front(e) = d /\ e[Len(e)] = "sp"
  <2>1. e \in Seq(Ink) /\ Len(e) = Len(d) + 1 /\ e # << >> /\ e[Len(d) + 1] = "sp"
    BY <1>1, <1>5
  <2>2. SubSeq(Append(d, "sp"), 1, Len(d)) = d
    BY <1>1, <1>5
  <2>3. (Len(d) + 1) - 1 = Len(d)
    BY <1>5
  <2> QED BY <2>1, <2>2, <2>3 DEF Front
<1>7. Behind(t2, b, e)
  BY <1>1, <1>2, <1>4, <1>5, PrintAdds
<1> HIDE DEF t2, e
<1>8. Behind(PrintOne(t2, "bs"), b, d)
  <2>1. Behind(PrintOne(t2, "bs"), b, Front(e))
    BY <1>1, <1>3, <1>6, <1>7, PrintBack
  <2> QED BY <1>6, <2>1
<1>9. ttydev_write_line(text, x) = PrintOne(t2, "bs")
  <2>1. Len(x) = 3 /\ x[1] = "bs" /\ x[2] = "sp" /\ x[3] = "bs"
    OBVIOUS
  <2> HIDE DEF x
  <2>2. /\ PrintTo(text, x)[0] = text
        /\ \A n \in 1..Len(x) : PrintTo(text, x)[n] = PrintOne(PrintTo(text, x)[n - 1], x[n])
        /\ ttydev_write_line(text, x) = PrintTo(text, x)[Len(x)]
    <3>1. Len(x) \in Nat
      BY <2>1
    <3> QED BY <3>1, PrintDef
  <2>3. 1 \in 1..3 /\ 2 \in 1..3 /\ 3 \in 1..3 /\ 1 - 1 = 0 /\ 2 - 1 = 1 /\ 3 - 1 = 2
    OBVIOUS
  <2>4. PrintTo(text, x)[1] = t1
    BY <2>1, <2>2, <2>3 DEF t1
  <2>5. PrintTo(text, x)[2] = t2
    BY <2>1, <2>2, <2>3, <2>4 DEF t2
  <2> QED BY <2>1, <2>2, <2>3, <2>5
<1> QED BY <1>8, <1>9 DEF d

\* sys_write(1, data) when no line is edited, or on a line that is not clean then.
LEMMA ScreenWrite ==
    ASSUME TermTypes, ScreenInv, NEW data \in Seq(Ink), data # << >>, Last(data) \in Solid, Write(data),
           UNCHANGED <<mode, tpc, line>>, mode = "console" => line = << >>
    PROVE  ScreenInv'
<1>1. /\ text_buf \in Seq(Ink) /\ pty.master_read \in Seq(Ink) /\ pty.line_buf \in Seq(Mark)
      /\ before \in Solid
  BY DEF ScreenInv, ScreenTypes
<1>2. CASE mode = "pty"
  <2> DEFINE e == Onlcr(data)
             q == fifo_write(pty.master_read, e)
  <2>1. /\ pty' = [pty EXCEPT !.master_read = q]
        /\ clean' = (pty.line_buf = << >> /\ Len(e) <= fifo_free(pty.master_read))
        /\ before' = Last(data) /\ text_buf' = text_buf
    BY <1>2 DEF Write, pty_slave_write, pty_write_output
  <2>2. EndsIn(e, Last(data))
    BY OnlcrEnds
  <2> HIDE DEF e
  <2>3. e \in Seq(Ink)
    BY <2>2 DEF EndsIn
  <2>4. q \in Seq(Ink) /\ (Len(e) <= fifo_free(pty.master_read) => q = pty.master_read \o e)
    BY <1>1, <2>3, FifoWrite
  <2>5. pty'.master_read = q /\ pty'.line_buf = pty.line_buf
    <3>1. pty = [master_read |-> pty.master_read, master_write |-> pty.master_write,
                 line_buf |-> pty.line_buf]
      BY DEF TermTypes
    <3> HIDE DEF q
    <3>2. \A r : [pty EXCEPT !.master_read = r] =
                      [master_read |-> r, master_write |-> pty.master_write, line_buf |-> pty.line_buf]
      BY <3>1
    <3> QED BY <2>1, <3>2
  <2>6. ScreenTypes'
    <3> HIDE DEF q
    <3> QED BY <1>1, <2>1, <2>4, <2>5 DEF ScreenTypes
  <2>7. ASSUME clean' PROVE WillShow(text_buf', pty'.master_read, before', pty'.line_buf)
    <3>1. pty.line_buf = << >> /\ Len(e) <= fifo_free(pty.master_read)
      BY <2>1, <2>7
    <3>2. q = pty.master_read \o e
      BY <2>4, <3>1
    <3>3. EndsIn(pty.master_read \o e, Last(data))
      BY <1>1, <2>2, EndsAppend
    <3> HIDE DEF q
    <3>4. WillShow(text_buf, q, Last(data), << >>)
      BY <3>2, <3>3, ShowsFresh
    <3> QED BY <2>1, <2>5, <3>1, <3>4
  <2>8. PtyScreen'
    BY <2>7 DEF PtyScreen
  <2> QED BY <1>2, <2>6, <2>8 DEF ScreenInv
<1>3. CASE mode = "console"
  <2>1. /\ text_buf' = ttydev_write_line(text_buf, data) /\ before' = Last(data)
        /\ UNCHANGED <<pty, clean>>
    BY <1>3 DEF Write
  <2>2. text_buf' \in Seq(Ink)
    BY <1>1, <2>1, PrintType
  <2>3. Behind(text_buf', before', << >>)
    BY <1>1, <2>1, PrintEnds
  <2>4. line' = << >> /\ << >> \in Seq(Mark)
    BY <1>3, EmptySeq
  <2>5. ScreenTypes'
    BY <1>1, <2>1, <2>2 DEF ScreenTypes
  <2>6. ShellScreen'
    BY <2>3, <2>4 DEF ShellScreen
  <2> QED BY <1>3, <2>5, <2>6 DEF ScreenInv
<1> QED BY <1>2, <1>3 DEF TermTypes

\* What is written is for the screen.
LEMMA WrittenOk ==
    /\ <<"$">> \in Seq(Ink) /\ <<"$">> # << >> /\ Last(<<"$">>) \in Solid
    /\ <<"e", "nl">> \in Seq(Ink) /\ <<"e", "nl">> # << >> /\ Last(<<"e", "nl">>) \in Solid
    /\ \A data \in Output : data \in Seq(Ink) /\ data # << >> /\ Last(data) \in Solid
<1>1. "$" \in Solid /\ "nl" \in Solid /\ "$" \in Ink /\ "nl" \in Ink /\ "e" \in Ink /\ STRING \subseteq Ink
  BY MarkIs
<1>2. <<"$">> \in Seq(Ink) /\ <<"$">> # << >> /\ Last(<<"$">>) = "$"
  BY <1>1 DEF Last
<1>3. <<"e", "nl">> \in Seq(Ink) /\ <<"e", "nl">> # << >> /\ Last(<<"e", "nl">>) = "nl"
  BY <1>1 DEF Last
<1>4. ASSUME NEW data \in Output PROVE data \in Seq(Ink) /\ data # << >> /\ Last(data) \in Solid
  <2>1. data \in Seq(STRING) /\ data # << >> /\ Last(data) \notin {"cr", "bs", "tab"}
    BY OutputAssumption
  <2>2. data \in Seq(Ink)
    BY <1>1, <2>1, SeqMonotonic
  <2>3. Last(data) \in Ink
    BY <2>1, <2>2, FrontLast, Zenon DEF Last
  <2> QED BY <2>1, <2>2, <2>3 DEF Solid
<1> QED BY <1>1, <1>2, <1>3, <1>4

\* shell_read_line: its line and its echo stay together; on a pty it echoes nothing.
LEMMA ScreenShell ==
    ASSUME TermTypes, ScreenInv, shell_read_line
    PROVE  ScreenInv'
<1>1. /\ text_buf \in Seq(Ink) /\ pty.master_read \in Seq(Ink) /\ pty.line_buf \in Seq(Mark)
      /\ before \in Solid
  BY DEF ScreenInv, ScreenTypes
<1>2. CASE mode = "pty"
  <2>1. text_buf' = text_buf /\ before' = before
    BY <1>2 DEF shell_read_line, Echo
  <2>2. mode' = mode /\ tpc' = tpc /\ clean' = clean /\ pty' = [pty EXCEPT !.master_write = Left(@, 1)]
    BY <1>2 DEF shell_read_line, pty_slave_read
  <2>3. pty'.master_read = pty.master_read /\ pty'.line_buf = pty.line_buf
    <3>1. pty = [master_read |-> pty.master_read, master_write |-> pty.master_write,
                 line_buf |-> pty.line_buf]
      BY DEF TermTypes
    <3>2. \A r : [pty EXCEPT !.master_write = r] =
                      [master_read |-> pty.master_read, master_write |-> r, line_buf |-> pty.line_buf]
      BY <3>1
    <3> QED BY <2>2, <3>2
  <2>4. ScreenTypes'
    BY <1>1, <2>1, <2>3 DEF ScreenTypes
  <2>5. PtyScreen'
    BY <1>2, <2>1, <2>2, <2>3 DEF ScreenInv, PtyScreen
  <2> QED BY <1>2, <2>2, <2>4, <2>5 DEF ScreenInv
<1>3. CASE mode = "console"
  <2> DEFINE c == Head(ttyq)
  <2>1. line \in Seq(Mark) /\ Behind(text_buf, before, line)
    BY <1>3 DEF ScreenInv, ShellScreen
  <2>2. mode' = mode /\ pty' = pty /\ spc = "read" /\ ttyq # << >>
    BY <1>3 DEF shell_read_line, Input
  <2>3. c \in Key
    BY <2>2, HeadTail DEF TermTypes
  <2>4. before \in Ink /\ line \in Seq(Ink)
    BY <1>1, <2>1, MarkIs, LineMarks
  <2>5. \/ line' = << >> /\ text_buf' = ttydev_write_line(text_buf, <<"nl">>) /\ before' = "nl"
        \/ UNCHANGED <<line, text_buf, before, spc>>
        \/ /\ line # << >> /\ line' = Front(line) /\ UNCHANGED <<before, spc>>
           /\ text_buf' = ttydev_write_line(text_buf, <<"bs", "sp", "bs">>)
        \/ /\ c \notin {"nl", "bs", "tab"} /\ line' = Append(line, c) /\ UNCHANGED <<before, spc>>
           /\ text_buf' = ttydev_write_line(text_buf, <<c>>)
    <3>1. <<"bs", "sp", "bs">> # <<"nl">>
      <4>1. Len(<<"bs", "sp", "bs">>) = 3 /\ Len(<<"nl">>) = 1
        OBVIOUS
      <4> QED BY <4>1
    <3>2. c # "nl" => <<c>> # <<"nl">>
      OBVIOUS
    <3>3. Input = ttyq
      BY <1>3 DEF Input
    <3> HIDE DEF c
    <3>4. \/ c = "nl" /\ line' = << >> /\ Echo(<<"nl">>)
          \/ c = "bs" /\ line = << >> /\ UNCHANGED <<line, text_buf, before, spc>>
          \/ c = "bs" /\ line # << >> /\ line' = Front(line) /\ Echo(<<"bs", "sp", "bs">>) /\ spc' = spc
          \/ c = "tab" /\ UNCHANGED <<line, text_buf, before, spc>>
          \/ c \notin {"nl", "bs", "tab"} /\ line' = Append(line, c) /\ Echo(<<c>>) /\ spc' = spc
          \/ UNCHANGED <<line, text_buf, before, spc>>
      BY <1>3, <3>3 DEF shell_read_line, c
    <3>5. \A d : Echo(d) => /\ text_buf' = ttydev_write_line(text_buf, d)
                            /\ before' = IF d = <<"nl">> THEN "nl" ELSE before
      BY <1>3 DEF Echo
    <3> QED BY <3>1, <3>2, <3>4, <3>5
  <2> HIDE DEF c
  <2>6. ASSUME text_buf' \in Seq(Ink), before' \in Solid, line' \in Seq(Mark),
               Behind(text_buf', before', line'), spc' # "read" => line' = << >>
        PROVE  ScreenInv'
    <3>1. ScreenTypes'
      BY <1>1, <2>2, <2>6 DEF ScreenTypes
    <3>2. ShellScreen'
      BY <2>6 DEF ShellScreen
    <3> QED BY <1>3, <2>2, <3>1, <3>2 DEF ScreenInv
  <2>7. CASE line' = << >> /\ text_buf' = ttydev_write_line(text_buf, <<"nl">>) /\ before' = "nl"
    <3>1. "nl" \in Ink /\ "nl" \in Solid /\ << >> \in Seq(Mark)
      BY MarkIs, EmptySeq
    <3>2. <<"nl">> \in Seq(Ink) /\ <<"nl">> # << >> /\ Last(<<"nl">>) = "nl"
      BY <3>1 DEF Last
    <3>3. text_buf' \in Seq(Ink) /\ Behind(text_buf', "nl", << >>)
      BY <1>1, <2>7, <3>1, <3>2, PrintType, PrintEnds
    <3> QED BY <2>6, <2>7, <3>1, <3>3
  <2>8. CASE UNCHANGED <<line, text_buf, before, spc>>
    BY <1>1, <2>1, <2>2, <2>6, <2>8
  <2>9. CASE /\ line # << >> /\ line' = Front(line) /\ UNCHANGED <<before, spc>>
             /\ text_buf' = ttydev_write_line(text_buf, <<"bs", "sp", "bs">>)
    <3>1. "bs" \in Ink /\ "sp" \in Ink
      BY MarkIs
    <3>2. <<"bs", "sp", "bs">> \in Seq(Ink)
      BY <3>1
    <3>3. text_buf' \in Seq(Ink)
      BY <1>1, <2>9, <3>2, PrintType
    <3>4. Front(line) \in Seq(Mark) /\ line[Len(line)] # "nl"
      BY <2>1, <2>9, LineMarks
    <3>5. Behind(text_buf', before, Front(line))
      BY <1>1, <2>1, <2>4, <2>9, <3>4, PrintErases
    <3> QED BY <1>1, <2>2, <2>6, <2>9, <3>3, <3>4, <3>5
  <2>10. CASE /\ c \notin {"nl", "bs", "tab"} /\ line' = Append(line, c) /\ UNCHANGED <<before, spc>>
              /\ text_buf' = ttydev_write_line(text_buf, <<c>>)
    <3>1. c \in Mark /\ c \in Ink /\ c \in Solid \ {"ff"}
      BY <2>3, <2>10, MarkIs DEF Mark
    <3>2. text_buf' = PrintOne(text_buf, c)
      BY <2>10, PrintChar
    <3>3. text_buf' \in Seq(Ink)
      BY <1>1, <3>1, <3>2, PrintOneIs
    <3>4. Append(line, c) \in Seq(Mark)
      BY <2>1, <3>1, LineMarks
    <3>5. Behind(text_buf', before, Append(line, c))
      BY <1>1, <2>1, <2>4, <3>1, <3>2, PrintAdds
    <3> QED BY <1>1, <2>2, <2>6, <2>10, <3>3, <3>4, <3>5
  <2> QED BY <2>5, <2>7, <2>8, <2>9, <2>10
<1> QED BY <1>2, <1>3 DEF TermTypes

\* Before anything is typed.
LEMMA ScreenInitial == TInit => ScreenInv
<1> SUFFICES ASSUME TInit PROVE ScreenInv
  OBVIOUS
<1>1. pty.master_read = << >> /\ pty.line_buf = << >> /\ text_buf = << >> /\ before = "ff" /\ line = << >>
  BY DEF TInit, NewPty
<1>2. << >> \in Seq(Ink) /\ << >> \in Seq(Mark) /\ "ff" \in Solid
  BY EmptySeq, MarkIs
<1>3. Behind(<< >>, "ff", << >>)
  BY DEF Behind
<1>4. WillShow(<< >>, << >>, "ff", << >>)
  <2> DEFINE seen == [i \in 0..0 |-> << >>]
  <2>1. seen \in [0..0 -> Seq(Ink)] /\ seen[0] = << >>
    BY <1>2
  <2> HIDE DEF seen
  <2>2. Len(<< >>) = 0 /\ 0 - 0 = 0 /\ 0 \in 0..0 /\ 1..0 = {}
    OBVIOUS
  <2>3. Echoes(<< >>, << >>, "ff", << >>, 0, seen)
    BY <1>3, <2>1, <2>2 DEF Echoes
  <2> QED BY <2>1, <2>2, <2>3 DEF WillShow
<1> QED BY <1>1, <1>2, <1>3, <1>4 DEF ScreenInv, ScreenTypes, PtyScreen, ShellScreen

\* Every step.
LEMMA ScreenInductive == TermTypes /\ ScreenInv /\ [TNext]_tvars => ScreenInv'
<1> SUFFICES ASSUME TermTypes, ScreenInv, [TNext]_tvars PROVE ScreenInv'
  OBVIOUS
<1>0. mode = "console" /\ spc # "read" => line = << >>
  BY DEF ScreenInv, ShellScreen
<1>1. CASE \E k \in Key : type(k)
  <2>1. UNCHANGED <<mode, pty, text_buf, tpc, spc, line, clean, before>>
    BY <1>1 DEF type, shellVars
  <2> QED BY <1>0, <2>1, ScreenSame
<1>2. CASE terminal_read
  BY <1>2, ScreenRead
<1>3. CASE terminal_key
  BY <1>3, ScreenKey
<1>4. CASE terminal_idle
  <2>1. UNCHANGED <<mode, pty, text_buf, spc, line, clean, before>> /\ tpc = "events"
    BY <1>4 DEF terminal_idle, shellVars
  <2> QED BY <1>0, <2>1, ScreenSame
<1>5. CASE terminal_close
  <2>1. mode = "pty" /\ UNCHANGED <<mode, pty, before>> /\ tpc' = "closed" /\ text_buf' = << >>
    BY <1>5 DEF terminal_close
  <2>2. << >> \in Seq(Ink)
    BY EmptySeq
  <2>3. ScreenTypes'
    BY <2>1, <2>2 DEF ScreenInv, ScreenTypes
  <2>4. PtyScreen'
    BY <2>1 DEF PtyScreen
  <2> QED BY <2>1, <2>3, <2>4 DEF ScreenInv
<1>6. CASE shell_prompt
  <2>1. Write(<<"$">>) /\ UNCHANGED <<mode, tpc, line>> /\ spc = "prompt"
    BY <1>6 DEF shell_prompt
  <2>2. mode = "console" => line = << >>
    BY <1>0, <2>1
  <2> QED BY <2>1, <2>2, WrittenOk, ScreenWrite
<1>7. CASE shell_read_line
  BY <1>7, ScreenShell
<1>8. CASE shell_run_builtin
  <2>1. spc = "run" /\ UNCHANGED <<mode, tpc, line>>
    BY <1>8 DEF shell_run_builtin
  <2>2. UNCHANGED <<pty, text_buf, clean, before>> \/ Write(<<"e", "nl">>)
    BY <1>8 DEF shell_run_builtin
  <2>3. mode = "console" => line = << >>
    BY <1>0, <2>1
  <2>4. CASE UNCHANGED <<pty, text_buf, clean, before>>
    BY <2>1, <2>3, <2>4, ScreenSame
  <2>5. CASE Write(<<"e", "nl">>)
    BY <2>1, <2>3, <2>5, WrittenOk, ScreenWrite
  <2> QED BY <2>2, <2>4, <2>5
<1>9. CASE shell_exec_external
  <2>1. spc = "run" /\ UNCHANGED <<mode, tpc, line>>
    BY <1>9 DEF shell_exec_external
  <2>2. UNCHANGED <<pty, text_buf, clean, before>> \/ Write(<<"e", "nl">>)
    BY <1>9 DEF shell_exec_external
  <2>3. mode = "console" => line = << >>
    BY <1>0, <2>1
  <2>4. CASE UNCHANGED <<pty, text_buf, clean, before>>
    BY <2>1, <2>3, <2>4, ScreenSame
  <2>5. CASE Write(<<"e", "nl">>)
    BY <2>1, <2>3, <2>5, WrittenOk, ScreenWrite
  <2> QED BY <2>2, <2>4, <2>5
<1>10. CASE child_exit
  <2>1. spc = "wait" /\ UNCHANGED <<mode, tpc, line>>
    BY <1>10 DEF child_exit
  <2>2. UNCHANGED <<pty, text_buf, clean, before>> \/ \E data \in Output : Write(data)
    BY <1>10 DEF child_exit
  <2>3. mode = "console" => line = << >>
    BY <1>0, <2>1
  <2>4. CASE UNCHANGED <<pty, text_buf, clean, before>>
    BY <2>1, <2>3, <2>4, ScreenSame
  <2>5. ASSUME NEW data \in Output, Write(data) PROVE ScreenInv'
    <3>1. data \in Seq(Ink) /\ data # << >> /\ Last(data) \in Solid
      BY WrittenOk
    <3> QED BY <2>1, <2>3, <2>5, <3>1, ScreenWrite
  <2> QED BY <2>2, <2>4, <2>5
<1>11. CASE UNCHANGED tvars
  <2>1. UNCHANGED <<mode, pty, text_buf, tpc, spc, line, clean, before>>
    BY <1>11 DEF tvars, termVars, shellVars
  <2> QED BY <1>0, <2>1, ScreenSame
<1> QED BY <1>1, <1>2, <1>3, <1>4, <1>5, <1>6, <1>7, <1>8, <1>9, <1>10, <1>11
        DEF TNext, Terminal, Shell

\* What the invariant says about the screen.
LEMMA ScreenMeans == TermTypes /\ ScreenInv => SeenIsSent
<1> SUFFICES ASSUME TermTypes, ScreenInv, clean, Fits, pty.master_read = << >>, tpc # "closed"
             PROVE  IF before = "ff" THEN Shown = Editable ELSE IsSuffix(<<before>> \o Editable, Shown)
  BY DEF SeenIsSent
<1>1. text_buf \in Seq(Ink) /\ pty.line_buf \in Seq(Mark) /\ before \in Ink
  BY MarkIs DEF ScreenInv, ScreenTypes
<1>2. CASE mode = "pty"
  <2> DEFINE cur == pty.line_buf
  <2>1. WillShow(text_buf, << >>, before, cur)
    BY <1>2 DEF ScreenInv, PtyScreen
  <2>2. cur \in Seq(Ink) /\ \A j \in 1..Len(cur) : cur[j] # "nl"
    BY <1>1, LineMarks
  <2>3. Editable = cur /\ Shown = View(text_buf) /\ Len(cur) <= MAX_COL * (MAX_LINE - 1)
    BY <1>2 DEF Editable, Shown, Fits
  <2> HIDE DEF cur
  <2>4. Behind(text_buf, before, cur)
    BY <2>1, ShowsNow
  <2>5. IF before = "ff" THEN View(text_buf) = cur ELSE IsSuffix(<<before>> \o cur, View(text_buf))
    BY <1>1, <2>2, <2>3, <2>4, LineSeen
  <2> QED BY <2>3, <2>5
<1>3. CASE mode = "console"
  <2>1. line \in Seq(Mark) /\ Behind(text_buf, before, line)
    BY <1>3 DEF ScreenInv, ShellScreen
  <2>2. Editable = line /\ Shown = text_buf
    BY <1>3 DEF Editable, Shown
  <2>3. line \in Seq(Ink)
    BY <2>1, LineMarks
  <2>4. CASE before = "ff"
    BY <2>1, <2>2, <2>4 DEF Behind
  <2>5. CASE before # "ff"
    <3> DEFINE u == <<before>> \o line
    <3>1. PICK w \in Seq(Ink) : text_buf = w \o u
      BY <2>1, <2>5 DEF Behind
    <3>2. <<before>> \in Seq(Ink)
      BY <1>1
    <3>3. u \in Seq(Ink)
      BY <2>3, <3>2, ConcatProperties
    <3> HIDE DEF u
    <3>4. IsSuffix(u, SubSeq(w \o u, 1, Len(w \o u)))
      <4>1. 1 \in 1..(Len(w) + 1)
        OBVIOUS
      <4> QED BY <3>3, <4>1, SuffixFrom
    <3>5. SubSeq(text_buf, 1, Len(text_buf)) = text_buf
      BY <1>1
    <3> QED BY <2>2, <2>5, <3>1, <3>4, <3>5 DEF u
  <2> QED BY <2>4, <2>5
<1> QED BY <1>2, <1>3 DEF TermTypes

\* The screen ends with the line as it would be sent, right behind what was written
\* before it, in both modes and for every size of the buffers and of the window:
\* the echo of dev_pty.c with ONLCR, the terminal's reads in chunks and its rows and
\* scrolling (terminal.c), and the shell's own echo, never let the two drift apart.
THEOREM ScreenIsTrue == TSpec => []SeenIsSent
<1>1. TInit => TermInv /\ ScreenInv
  BY TermInitial, ScreenInitial
<1>2. TermInv /\ ScreenInv /\ [TNext]_tvars => TermInv' /\ ScreenInv'
  BY TermInductive, ScreenInductive DEF TermInv
<1>3. TermInv /\ ScreenInv => SeenIsSent
  BY ScreenMeans DEF TermInv
<1> QED BY <1>1, <1>2, <1>3, PTL DEF TSpec
=============================================================================
