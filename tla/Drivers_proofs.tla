--------------------------- MODULE Drivers_proofs ---------------------------
(***************************************************************************)
(* Proofs about the input rings and the PS/2 drivers in front of them.     *)
(*                                                                         *)
(* The rings implement the queue that drops its oldest item, for every     *)
(* buffer length.  The inductive invariant adds to the types that every    *)
(* slot between r and w holds an item: without it a read could return an   *)
(* unwritten slot.                                                         *)
(*                                                                         *)
(* The keyboard: the bytes on the wire, read one after the other from the  *)
(* handler's present flags, lead it to the flags that agree with the keys  *)
(* held, and on the way it meets every character with the flags that were  *)
(* meant (KbdInv).  The mouse: the wire holds packets, the first maybe cut *)
(* short at its front; in step the handler has collected exactly the bytes *)
(* before the next one, and one quiet packet gets it into step from        *)
(* wherever it was (MouseInv).                                             *)
(***************************************************************************)
EXTENDS Drivers, SequenceTheorems, TLAPS

-----------------------------------------------------------------------------
(* The ring.                                                               *)

\* The inductive invariant of the ring.
RingInv == /\ TypeOK
           /\ \A i \in 0..(Used - 1) : q[At(i)] \in Item

\* Adding one modulo LEN wraps exactly at the last slot.
LEMMA SuccLemma ==
    ASSUME NEW i \in Slots
    PROVE  Succ(i) = IF i = LEN - 1 THEN 0 ELSE i + 1
<1>1. CASE i = LEN - 1
  BY <1>1, RingAssumption DEF Succ, Slots
<1>2. CASE i # LEN - 1
  BY <1>2, RingAssumption DEF Succ, Slots
<1> QED BY <1>1, <1>2

\* The unread items as a sequence.
ContentIsSeq == /\ Used \in 0..(LEN - 1)
                /\ Content \in Seq(Item)
                /\ Len(Content) = Used
                /\ \A i \in 1..Used : Content[i] = q[At(i - 1)]

\* The unread items are a sequence of Used items.
LEMMA ContentLemma == RingInv => ContentIsSeq
<1> SUFFICES ASSUME RingInv PROVE ContentIsSeq
  OBVIOUS
<1>1. Used \in 0..(LEN - 1)
  BY RingAssumption DEF RingInv, TypeOK, Used, Slots
<1>2. \A i \in 1..Used : q[At(i - 1)] \in Item
  BY <1>1 DEF RingInv
<1>3. Content \in [1..Used -> Item]
  BY <1>2 DEF Content
<1>4. Content \in Seq(Item) /\ Len(Content) = Used
  BY <1>1, <1>3
<1> QED BY <1>1, <1>4 DEF Content, ContentIsSeq

\* What push does to the window of unread slots: it slides by one when the ring
\* is full and grows by one otherwise, and ends with the new item.
LEMMA PushLemma ==
    ASSUME RingInv, NEW e \in Item, push(e)
    PROVE  /\ q' \in [Slots -> Item \cup {Blank}] /\ r' \in Slots /\ w' \in Slots
           /\ Used < LEN - 1 =>
                /\ Used' = Used + 1
                /\ \A i \in 0..Used : q'[At(i)'] = IF i = Used THEN e ELSE q[At(i)]
           /\ Used = LEN - 1 =>
                /\ Used' = Used
                /\ \A i \in 0..(Used - 1) :
                      q'[At(i)'] = IF i = Used - 1 THEN e ELSE q[At(i + 1)]
<1>0. /\ q \in [Slots -> Item \cup {Blank}] /\ r \in Slots /\ w \in Slots
      /\ Slots = 0..(LEN - 1) /\ LEN \in Nat /\ LEN >= 2
  BY RingAssumption DEF RingInv, TypeOK, Slots
<1>1. /\ w' = IF w = LEN - 1 THEN 0 ELSE w + 1
      /\ r' = IF w' = r THEN IF r = LEN - 1 THEN 0 ELSE r + 1 ELSE r
      /\ q' = [q EXCEPT ![w] = e]
  BY <1>0, SuccLemma DEF push
<1>2. q' \in [Slots -> Item \cup {Blank}] /\ r' \in Slots /\ w' \in Slots
  BY <1>0, <1>1
<1>3. ASSUME Used < LEN - 1
      PROVE  /\ Used' = Used + 1
             /\ \A i \in 0..Used : q'[At(i)'] = IF i = Used THEN e ELSE q[At(i)]
  <2>1. w' # r /\ r' = r
    BY <1>0, <1>1, <1>3 DEF Used
  <2>2. Used' = Used + 1
    BY <1>0, <1>1, <1>3, <2>1 DEF Used
  <2>3. \A i \in 0..Used : /\ At(i)' = At(i) /\ At(i) \in Slots
                           /\ At(i) = w <=> i = Used
    BY <1>0, <1>3, <2>1 DEF Used, At
  <2> QED BY <1>0, <1>1, <2>2, <2>3
<1>4. ASSUME Used = LEN - 1
      PROVE  /\ Used' = Used
             /\ \A i \in 0..(Used - 1) :
                   q'[At(i)'] = IF i = Used - 1 THEN e ELSE q[At(i + 1)]
  <2>1. w' = r /\ r' = IF r = LEN - 1 THEN 0 ELSE r + 1
    BY <1>0, <1>1, <1>4 DEF Used
  <2>2. Used' = Used
    BY <1>0, <1>1, <1>4, <2>1 DEF Used
  <2>3. \A i \in 0..(Used - 1) : /\ At(i)' = At(i + 1) /\ At(i + 1) \in Slots
                                 /\ At(i + 1) = w <=> i = Used - 1
    BY <1>0, <1>4, <2>1 DEF Used, At
  <2> QED BY <1>0, <1>1, <2>2, <2>3
<1> QED BY <1>2, <1>3, <1>4

\* What read does to it: the first m slots leave the window.
LEMMA ReadLemma ==
    ASSUME RingInv, NEW n \in 1..MaxRead, read(n),
           NEW m, m = (IF n <= Used THEN n ELSE Used)
    PROVE  /\ m \in 0..Used
           /\ r' \in Slots /\ w' = w /\ q' = q
           /\ Used' = Used - m
           /\ \A i \in 0..(Used - m - 1) : At(i)' = At(i + m)
           /\ last' = [i \in 1..m |-> q[At(i - 1)]]
<1>0. /\ r \in Slots /\ w \in Slots /\ Used \in 0..(LEN - 1)
      /\ Slots = 0..(LEN - 1) /\ LEN \in Nat /\ LEN >= 2
  BY RingAssumption, ContentLemma DEF RingInv, TypeOK, Slots, ContentIsSeq
<1>1. m \in 0..Used
  BY <1>0, RingAssumption
<1>2. r' = At(m) /\ w' = w /\ q' = q /\ last' = [i \in 1..m |-> q[At(i - 1)]]
  BY DEF read
<1>3. r' \in Slots /\ Used' = Used - m
  BY <1>0, <1>1, <1>2 DEF At, Used
<1>4. \A i \in 0..(Used - m - 1) : At(i)' = At(i + m)
  BY <1>0, <1>1, <1>2 DEF At, Used
<1> QED BY <1>1, <1>2, <1>3, <1>4

\* The types, and an item in every unread slot, hold throughout.
LEMMA RingInvariant == Spec => []RingInv
<1>1. Init => RingInv
  BY RingAssumption DEF Init, RingInv, TypeOK, Used, Slots
<1>2. RingInv /\ [Next]_vars => RingInv'
  <2> SUFFICES ASSUME RingInv, [Next]_vars PROVE RingInv'
    OBVIOUS
  <2>0. /\ last \in Seq(Item) /\ \A i \in 0..(Used - 1) : q[At(i)] \in Item
        /\ Used \in 0..(LEN - 1) /\ LEN \in Nat
        /\ q \in [Slots -> Item \cup {Blank}] /\ r \in Slots /\ w \in Slots
    BY ContentLemma, RingAssumption DEF RingInv, TypeOK, ContentIsSeq
  <2>1. ASSUME NEW e \in Item, push(e) PROVE RingInv'
    <3>1. TypeOK'
      BY <2>0, <2>1, PushLemma DEF TypeOK, push
    <3>2. \A i \in 0..(Used' - 1) : q'[At(i)'] \in Item
      <4>1. CASE Used < LEN - 1
        <5>1. /\ Used' = Used + 1
              /\ \A i \in 0..Used : q'[At(i)'] = IF i = Used THEN e ELSE q[At(i)]
          BY <2>1, <4>1, PushLemma
        <5> QED BY <2>0, <5>1
      <4>2. CASE Used = LEN - 1
        <5>1. /\ Used' = Used
              /\ \A i \in 0..(Used - 1) :
                    q'[At(i)'] = IF i = Used - 1 THEN e ELSE q[At(i + 1)]
          BY <2>1, <4>2, PushLemma
        <5> QED BY <2>0, <5>1
      <4> QED BY <2>0, <4>1, <4>2
    <3> QED BY <3>1, <3>2 DEF RingInv
  <2>2. ASSUME NEW n \in 1..MaxRead, read(n) PROVE RingInv'
    <3> DEFINE m == IF n <= Used THEN n ELSE Used
    <3>1. /\ m \in 0..Used
          /\ r' \in Slots /\ w' = w /\ q' = q
          /\ Used' = Used - m
          /\ \A i \in 0..(Used - m - 1) : At(i)' = At(i + m)
          /\ last' = [i \in 1..m |-> q[At(i - 1)]]
      BY <2>2, ReadLemma
    <3> HIDE DEF m
    <3>2. last' \in Seq(Item)
      BY <2>0, <3>1
    <3>3. TypeOK'
      BY <2>0, <3>1, <3>2 DEF TypeOK
    <3>4. \A i \in 0..(Used' - 1) : q'[At(i)'] \in Item
      BY <2>0, <3>1
    <3> QED BY <3>3, <3>4 DEF RingInv
  <2>3. CASE UNCHANGED vars
    BY <2>3 DEF vars, RingInv, TypeOK, Used, At
  <2> QED BY <2>1, <2>2, <2>3 DEF Next
<1> QED BY <1>1, <1>2, PTL DEF Spec

\* The indices never leave the buffer and no read returns an unwritten slot.
THEOREM RingTyped == Spec => []TypeOK
  BY RingInvariant, PTL DEF RingInv

\* A push on the ring is a push on the queue that drops its oldest item.
LEMMA PushRefines ==
    ASSUME RingInv, RingInv', NEW e \in Item, push(e)
    PROVE  LQ!Push(e)
<1> DEFINE c == Content
           d == Content'
           u == Used
           v == Used'
<1>1. /\ u \in 0..(LEN - 1) /\ c \in Seq(Item) /\ Len(c) = u
      /\ \A i \in 1..u : c[i] = q[At(i - 1)]
  BY ContentLemma DEF ContentIsSeq
<1>2. v \in 0..(LEN - 1) /\ d \in Seq(Item) /\ Len(d) = v
      /\ \A i \in 1..v : d[i] = q'[At(i - 1)']
  <2>1. ContentIsSeq'
    BY ContentLemma, PTL
  <2> QED BY <2>1 DEF ContentIsSeq
<1>3. last' = last
  BY DEF push
<1>4. CASE u < LEN - 1
  <2>1. /\ v = u + 1
        /\ \A i \in 0..u : q'[At(i)'] = IF i = u THEN e ELSE q[At(i)]
    BY <1>4, PushLemma
  <2>2. \A i \in 1..v : d[i] = Append(c, e)[i]
    <3> SUFFICES ASSUME NEW i \in 1..v PROVE d[i] = Append(c, e)[i]
      OBVIOUS
    <3> DEFINE j == i - 1
    <3>1. j \in 0..u /\ d[i] = q'[At(j)'] /\ (i <= u => c[i] = q[At(j)]) /\ (j = u <=> i = u + 1)
      BY <1>1, <1>2, <2>1
    <3> HIDE DEF j, c, d, u, v
    <3>2. d[i] = IF j = u THEN e ELSE q[At(j)]
      BY <2>1, <3>1
    <3> QED BY <1>1, <2>1, <3>1, <3>2
  <2>3. d = Append(c, e)
    <3> HIDE DEF c, d, u, v
    <3>1. Append(c, e) \in Seq(Item) /\ Len(Append(c, e)) = u + 1
      BY <1>1
    <3> QED BY <1>2, <2>1, <2>2, <3>1, SeqEqual
  <2>4. Len(Append(c, e)) = u + 1 /\ ~(u + 1 > LEN - 1)
    <3> HIDE DEF c, d, u, v
    <3> QED BY <1>1, <1>4, RingAssumption
  <2> QED BY <1>3, <2>3, <2>4 DEF LQ!Push, LQ!Keep
<1>5. CASE u = LEN - 1
  <2>1. /\ v = u
        /\ \A i \in 0..(u - 1) : q'[At(i)'] = IF i = u - 1 THEN e ELSE q[At(i + 1)]
    BY <1>5, PushLemma
  <2>2. \A i \in 1..v : d[i] = Tail(Append(c, e))[i]
    <3> SUFFICES ASSUME NEW i \in 1..v PROVE d[i] = Tail(Append(c, e))[i]
      OBVIOUS
    <3> DEFINE j == i - 1
    <3>1. j \in 0..(u - 1) /\ j + 1 = i /\ d[i] = q'[At(j)']
      BY <1>1, <1>2, <2>1
    <3>2. i < u => c[i + 1] = q[At(i)]
      BY <1>1
    <3> HIDE DEF j, c, d, u, v
    <3>3. d[i] = IF j = u - 1 THEN e ELSE q[At(j + 1)]
      BY <2>1, <3>1
    <3>4. d[i] = IF i = u THEN e ELSE c[i + 1]
      BY <1>1, <2>1, <3>1, <3>2, <3>3
    <3>5. Tail(Append(c, e))[i] = Append(c, e)[i + 1]
      BY <1>1, <2>1
    <3> QED BY <1>1, <2>1, <3>4, <3>5
  <2>3. d = Tail(Append(c, e))
    <3> HIDE DEF c, d, u, v
    <3>1. Tail(Append(c, e)) \in Seq(Item) /\ Len(Tail(Append(c, e))) = u
      BY <1>1, AppendProperties, HeadTailProperties
    <3> QED BY <1>2, <2>1, <2>2, <3>1, SeqEqual
  <2>4. Len(Append(c, e)) = LEN
    <3> HIDE DEF c, d, u, v
    <3> QED BY <1>1, <1>5, RingAssumption
  <2>5. LEN > LEN - 1
    BY RingAssumption
  <2> QED BY <1>3, <2>3, <2>4, <2>5 DEF LQ!Push, LQ!Keep
<1>6. u < LEN - 1 \/ u = LEN - 1
  <2> HIDE DEF c, d, u, v
  <2> QED BY <1>1, RingAssumption
<1> QED BY <1>4, <1>5, <1>6

\* A read of the ring is a read of the queue.
LEMMA ReadRefines ==
    ASSUME RingInv, RingInv', NEW n \in 1..MaxRead, read(n)
    PROVE  LQ!Read(n)
<1> DEFINE c == Content
           d == Content'
           u == Used
           v == Used'
           m == IF n <= Used THEN n ELSE Used
<1>1. /\ u \in 0..(LEN - 1) /\ c \in Seq(Item) /\ Len(c) = u
      /\ \A i \in 1..u : c[i] = q[At(i - 1)]
  BY ContentLemma DEF ContentIsSeq
<1>2. v \in 0..(LEN - 1) /\ d \in Seq(Item) /\ Len(d) = v
      /\ \A i \in 1..v : d[i] = q'[At(i - 1)']
  <2>1. ContentIsSeq'
    BY ContentLemma, PTL
  <2> QED BY <2>1 DEF ContentIsSeq
<1>3. /\ m \in 0..u /\ q' = q /\ v = u - m
      /\ \A i \in 0..(u - m - 1) : At(i)' = At(i + m)
      /\ last' = [i \in 1..m |-> q[At(i - 1)]]
  BY ReadLemma
<1>4. last' = SubSeq(c, 1, m)
  <2> HIDE DEF c, d, u, v, m
  <2>1. last' = [i \in 1..m |-> c[i]]
    BY <1>1, <1>3
  <2> QED BY <1>1, <1>3, <2>1
<1>5. d = SubSeq(c, m + 1, u)
  <2>1. \A i \in 1..v : d[i] = c[i + m]
    <3> SUFFICES ASSUME NEW i \in 1..v PROVE d[i] = c[i + m]
      OBVIOUS
    <3> DEFINE j == i - 1
    <3>1. j \in 0..(u - m - 1) /\ d[i] = q'[At(j)'] /\ i + m \in 1..u
      BY <1>1, <1>2, <1>3
    <3>2. c[i + m] = q[At(j + m)]
      BY <1>1, <3>1
    <3> HIDE DEF j, c, d, u, v, m
    <3> QED BY <1>3, <3>1, <3>2
  <2> HIDE DEF c, d, u, v, m
  <2>2. /\ SubSeq(c, m + 1, u) \in Seq(Item) /\ Len(SubSeq(c, m + 1, u)) = u - m
        /\ \A i \in 1..(u - m) : SubSeq(c, m + 1, u)[i] = c[i + m]
    <3>1. m + 1 \in Int /\ u \in Int /\ \A i \in (m + 1)..u : c[i] \in Item
      BY <1>1, <1>3
    <3> QED BY <1>1, <1>3, <3>1, SubSeqProperties
  <2> QED BY <1>2, <1>3, <2>1, <2>2, SeqEqual
<1> QED BY <1>1, <1>4, <1>5 DEF LQ!Read

\* Through any number of wrap-arounds the ring behaves as a first-in first-out
\* queue of LEN - 1 items that drops its oldest, for every buffer length.
THEOREM RingIsLossyQueue == Spec => ImplementsLossyQueue
<1>1. Init => LQ!Init
  <2> SUFFICES ASSUME Init PROVE Content = << >> /\ last = << >>
    BY DEF LQ!Init
  <2>1. Used = 0
    BY DEF Init, Used
  <2>2. Content = [i \in 1..0 |-> q[At(i - 1)]]
    BY <2>1 DEF Content
  <2> QED BY <2>2 DEF Init
<1>2. RingInv /\ RingInv' /\ [Next]_vars => [LQ!Next]_LQ!lqVars
  <2> SUFFICES ASSUME RingInv, RingInv', [Next]_vars PROVE [LQ!Next]_LQ!lqVars
    OBVIOUS
  <2>1. ASSUME NEW e \in Item, push(e) PROVE LQ!Next
    BY <2>1, PushRefines DEF LQ!Next
  <2>2. ASSUME NEW n \in 1..MaxRead, read(n) PROVE LQ!Next
    BY <2>2, ReadRefines DEF LQ!Next
  <2>3. CASE UNCHANGED vars
    BY <2>3 DEF vars, LQ!lqVars, Content, Used, At
  <2> QED BY <2>1, <2>2, <2>3 DEF Next
<1> QED BY <1>1, <1>2, RingInvariant, PTL DEF Spec, LQ!Spec, ImplementsLossyQueue

\* The drivers use the ring by its own operations: every step of theirs is a
\* push, a read or leaves it alone.
LEMMA DriversUseRing == DSpec => Spec
<1>1. DInit => Init
  BY DEF DInit
<1>2. [DNext]_dvars => [Next]_vars
  <2> SUFFICES ASSUME [DNext]_dvars PROVE [Next]_vars
    OBVIOUS
  <2>1. ASSUME NEW ch, ch \in Item \cup {"none"}, Emit(ch) PROVE [Next]_vars
    BY <2>1 DEF Emit, Next, vars, ringVars
  <2>2. \A c : translate_key(c) \in Item \cup {"none"}
    BY DriversAssumption DEF translate_key
  <2>3. ASSUME NEW k, press(k) \/ repeat(k) \/ release(k) PROVE UNCHANGED vars
    BY <2>3 DEF press, repeat, release, ringVars, vars
  <2>4. ASSUME keyboard_handler PROVE [Next]_vars
    <3>1. UNCHANGED ringVars \/ \E c : Emit(translate_key(c))
      BY <2>4 DEF keyboard_handler
    <3> QED BY <2>1, <2>2, <3>1 DEF vars, ringVars
  <2>5. ASSUME NEW mode, syscall_set_kbd_mode(mode) PROVE UNCHANGED vars
    BY <2>5 DEF syscall_set_kbd_mode, ringVars, vars
  <2>6. ASSUME tty PROVE Next
    BY <2>6 DEF tty
  <2>7. ASSUME NEW m, mouse_report(m) PROVE UNCHANGED vars
    BY <2>7 DEF mouse_report, ringVars, vars
  <2>8. ASSUME byte_lost \/ mouse_handler PROVE UNCHANGED vars
    BY <2>8 DEF byte_lost, mouse_handler, ringVars, vars
  <2>9. ASSUME UNCHANGED dvars PROVE UNCHANGED vars
    BY <2>9 DEF dvars, ringVars, vars
  <2> QED BY <2>3, <2>4, <2>5, <2>6, <2>7, <2>8, <2>9 DEF DNext
<1> QED BY <1>1, <1>2, PTL DEF DSpec, Spec

\* The tty ring, filled by the keyboard's interrupt handler, is a first-in
\* first-out queue that drops its oldest character.
THEOREM TtyIsLossyQueue == DSpec => ImplementsLossyQueue
  BY DriversUseRing, RingIsLossyQueue, PTL

-----------------------------------------------------------------------------
(* The keyboard.                                                           *)

\* The flags of the handler, and the bytes of a keyboard.
State == [shift : BOOLEAN, caps : BOOLEAN, e0 : BOOLEAN]
Flags == [shift |-> g_shift, caps |-> g_caps, e0 |-> g_e0]
KByte == [sc : AllKeys \cup {"e0"}, released : BOOLEAN, meant : Item \cup {"any", "none"}]

\* The flags after the handler has read b with the flags y.
After(y, b) == [shift |-> IF b.sc \in Shifts /\ ~y.e0 THEN ~b.released ELSE y.shift,
                caps  |-> IF b.sc = "caps" /\ ~b.released /\ ~y.e0 THEN ~y.caps ELSE y.caps,
                e0    |-> b.sc = "e0"]

\* A character read with the flags y comes out as it was meant.
Faithful(y, b) == b.sc \in {"letter", "digit"} /\ ~b.released /\ ~y.e0
                    => b.meant \in {"any", Meant(b.sc, y.shift, y.caps)}

\* Reading the bytes s from the flags a on leads through S to the flags z, and
\* every character on the way comes out as meant.
Trace(S, a, s, z) ==
    /\ s \in Seq(KByte)
    /\ S \in [0..Len(s) -> State]
    /\ S[0] = a /\ S[Len(s)] = z
    /\ \A i \in 1..Len(s) : S[i] = After(S[i - 1], s[i]) /\ Faithful(S[i - 1], s[i])
Leads(a, s, z) == \E S : Trace(S, a, s, z)

\* Where the wire leads: out of any prefix and, when it is sure, to the keys held.
Settled(z) == /\ ~z.e0
              /\ sure => /\ z.shift = (down \cap Shifts # {})
                         /\ z.caps = caps

KbdInv == /\ down \subseteq AllKeys /\ caps \in BOOLEAN /\ sure \in BOOLEAN
          /\ g_shift \in BOOLEAN /\ g_caps \in BOOLEAN /\ g_e0 \in BOOLEAN
          /\ sure => ~(Shifts \subseteq down)
          /\ \E z \in State : Leads(Flags, wire, z) /\ Settled(z)

\* Reading a byte more at the end.
LEMMA LeadsAppend ==
    ASSUME NEW a, NEW s, NEW z, Leads(a, s, z), NEW b \in KByte, Faithful(z, b)
    PROVE  Leads(a, Append(s, b), After(z, b)) /\ After(z, b) \in State
<1>1. PICK S : Trace(S, a, s, z)
  BY DEF Leads
<1> DEFINE n == Len(s)
           y == After(z, b)
           t == Append(s, b)
           T == [i \in 0..(n + 1) |-> IF i = n + 1 THEN y ELSE S[i]]
<1>2. s \in Seq(KByte) /\ n \in Nat /\ S \in [0..n -> State] /\ S[0] = a /\ S[n] = z
  BY <1>1 DEF Trace
<1>3. t \in Seq(KByte) /\ Len(t) = n + 1 /\ t[n + 1] = b /\ \A i \in 1..n : t[i] = s[i]
  BY <1>2
<1>4. z \in State
  BY <1>2
<1>5. y \in State
  BY <1>4 DEF After, State, KByte
<1>6. \A i \in 1..n : S[i] = After(S[i - 1], s[i]) /\ Faithful(S[i - 1], s[i])
  BY <1>1 DEF Trace
<1> HIDE DEF t, y, n
<1>7. T \in [0..(n + 1) -> State] /\ T[0] = a /\ T[n + 1] = y
  <2>1. ASSUME NEW i \in 0..(n + 1) PROVE T[i] \in State
    <3>1. i # n + 1 => i \in 0..n
      BY <1>2
    <3> QED BY <1>2, <1>5, <3>1
  <2>2. 0 \in 0..(n + 1) /\ 0 # n + 1 /\ n + 1 \in 0..(n + 1)
    BY <1>2
  <2> QED BY <1>2, <2>1, <2>2
<1>8. ASSUME NEW i \in 1..(n + 1) PROVE T[i] = After(T[i - 1], t[i]) /\ Faithful(T[i - 1], t[i])
  <2>0. i \in 0..(n + 1) /\ i - 1 \in 0..(n + 1) /\ i - 1 # n + 1
    BY <1>2
  <2>1. T[i - 1] = S[i - 1]
    BY <2>0
  <2>2. CASE i = n + 1
    <3>1. i - 1 = n
      BY <1>2, <2>2
    <3>2. T[i] = y /\ T[i - 1] = z /\ t[i] = b
      BY <1>2, <1>3, <2>0, <2>1, <2>2, <3>1
    <3> QED BY <3>2 DEF y
  <2>3. CASE i # n + 1
    <3>1. i \in 1..n
      BY <1>2, <2>3
    <3>2. T[i] = S[i] /\ t[i] = s[i]
      BY <1>3, <2>0, <2>3, <3>1
    <3> HIDE DEF T
    <3> QED BY <1>6, <2>1, <3>1, <3>2
  <2> QED BY <2>2, <2>3
<1> HIDE DEF T
<1>9. Trace(T, a, t, y)
  BY <1>3, <1>7, <1>8 DEF Trace
<1> QED BY <1>5, <1>9 DEF Leads, t, y

\* Reading the first byte.
LEMMA LeadsTail ==
    ASSUME NEW a, NEW s, NEW z, Leads(a, s, z), s # << >>
    PROVE  /\ Head(s) \in KByte /\ Faithful(a, Head(s))
           /\ Leads(After(a, Head(s)), Tail(s), z)
<1>1. PICK S : Trace(S, a, s, z)
  BY DEF Leads
<1> DEFINE n == Len(s)
           t == Tail(s)
           T == [i \in 0..(n - 1) |-> S[i + 1]]
<1>2. s \in Seq(KByte) /\ n \in Nat /\ S \in [0..n -> State] /\ S[0] = a /\ S[n] = z
  BY <1>1 DEF Trace
<1>3. /\ n >= 1 /\ Head(s) = s[1] /\ s[1] \in KByte
      /\ t \in Seq(KByte) /\ Len(t) = n - 1 /\ \A i \in 1..(n - 1) : t[i] = s[i + 1]
  BY <1>2
<1>4. \A i \in 1..n : S[i] = After(S[i - 1], s[i]) /\ Faithful(S[i - 1], s[i])
  BY <1>1 DEF Trace
<1> HIDE DEF t, n
<1>5. S[1] = After(a, Head(s)) /\ Faithful(a, Head(s))
  <2>1. 1 \in 1..n /\ 1 - 1 = 0
    BY <1>2, <1>3
  <2> QED BY <1>2, <1>3, <1>4, <2>1
<1>6. T \in [0..(n - 1) -> State] /\ T[0] = S[1] /\ T[n - 1] = z
  <2>1. \A i \in 0..(n - 1) : i + 1 \in 0..n
    BY <1>2
  <2>2. 0 \in 0..(n - 1) /\ n - 1 \in 0..(n - 1) /\ 0 + 1 = 1 /\ (n - 1) + 1 = n
    BY <1>2, <1>3
  <2> QED BY <1>2, <2>1, <2>2
<1>7. ASSUME NEW i \in 1..(n - 1) PROVE T[i] = After(T[i - 1], t[i]) /\ Faithful(T[i - 1], t[i])
  <2> DEFINE j == i + 1
  <2>1. j \in 1..n /\ i \in 0..(n - 1) /\ i - 1 \in 0..(n - 1) /\ j - 1 = i /\ (i - 1) + 1 = i
    BY <1>2, <1>3
  <2>2. T[i] = S[j] /\ T[i - 1] = S[j - 1] /\ t[i] = s[j]
    BY <1>3, <2>1
  <2> HIDE DEF T, j
  <2> QED BY <1>4, <2>1, <2>2
<1> HIDE DEF T
<1>8. Trace(T, S[1], t, z)
  BY <1>3, <1>6, <1>7 DEF Trace
<1> QED BY <1>3, <1>5, <1>8 DEF Leads, t

\* No byte, no change.
LEMMA LeadsEmpty ==
    ASSUME NEW a, NEW z
    PROVE  /\ Leads(a, << >>, z) => z = a
           /\ a \in State => Leads(a, << >>, a)
<1>1. ASSUME Leads(a, << >>, z) PROVE z = a
  <2>1. PICK S : Trace(S, a, << >>, z)
    BY <1>1 DEF Leads
  <2> QED BY <2>1 DEF Trace
<1>2. ASSUME a \in State PROVE Leads(a, << >>, a)
  <2> DEFINE S == [i \in 0..0 |-> a]
  <2>1. Trace(S, a, << >>, a)
    BY <1>2 DEF Trace
  <2> QED BY <2>1 DEF Leads
<1> QED BY <1>1, <1>2

\* After s, which leads to z, come the codes of a key that goes down or up.
Sent(a, s, z, k, up) ==
    \E y \in State : /\ Leads(a, s \o Codes(k, up), y)
                     /\ ~y.e0
                     /\ y.shift = IF k \in Shifts THEN ~up ELSE z.shift
                     /\ y.caps = IF k = "caps" /\ ~up THEN ~z.caps ELSE z.caps

\* What the keyboard sends for a key.
LEMMA SentCodes ==
    ASSUME NEW a, NEW s, NEW z \in State, Leads(a, s, z), ~z.e0,
           NEW k \in AllKeys, NEW up \in BOOLEAN, sure' \in BOOLEAN, caps' \in BOOLEAN,
           k \in {"letter", "digit"} /\ ~up /\ sure'
             => z.shift = (down' \cap Shifts # {}) /\ z.caps = caps'
    PROVE  Sent(a, s, z, k, up)
<1>0. /\ z.shift \in BOOLEAN /\ z.caps \in BOOLEAN /\ s \in Seq(KByte)
  BY DEF State, Leads, Trace
<1>1. \A x \in AllKeys, v \in BOOLEAN : Code(x, v) \in KByte
  <2> SUFFICES ASSUME NEW x \in AllKeys, NEW v \in BOOLEAN PROVE Code(x, v) \in KByte
    OBVIOUS
  <2>1. Meant(x, down' \cap Shifts # {}, caps') \in Item \cup {"any", "none"}
    BY DriversAssumption DEF Meant
  <2>2. Code(x, v).meant \in Item \cup {"any", "none"}
    BY <2>1 DEF Code
  <2> QED BY <2>2 DEF Code, KByte
<1>2. E0 \in KByte /\ E0.sc = "e0"
  BY DEF E0, KByte
\* A byte with its prefix is read over.
<1>3. ASSUME NEW t, Leads(a, t, z), NEW x \in AllKeys, NEW v \in BOOLEAN
      PROVE  Leads(a, Append(Append(t, E0), Code(x, v)), z)
  <2> DEFINE y == After(z, E0)
  <2>1. Faithful(z, E0)
    BY <1>2 DEF Faithful
  <2>2. Leads(a, Append(t, E0), y) /\ y \in State
    BY <1>2, <1>3, <2>1, LeadsAppend
  <2>3. y.e0 /\ y.shift = z.shift /\ y.caps = z.caps
    BY <1>2 DEF After, Shifts
  <2> HIDE DEF y
  <2>4. Faithful(y, Code(x, v))
    BY <2>3 DEF Faithful
  <2>5. Leads(a, Append(Append(t, E0), Code(x, v)), After(y, Code(x, v)))
    BY <1>1, <2>2, <2>4, LeadsAppend
  <2>6. Code(x, v).sc # "e0"
    BY DEF Code, AllKeys
  <2>7. After(y, Code(x, v)) = z
    <3>1. After(y, Code(x, v)) = [shift |-> z.shift, caps |-> z.caps, e0 |-> FALSE]
      BY <2>3, <2>6 DEF After
    <3>2. z = [shift |-> z.shift, caps |-> z.caps, e0 |-> FALSE]
      BY DEF State
    <3> QED BY <3>1, <3>2
  <2> QED BY <2>5, <2>7
<1>4. CASE k # "arrow"
  <2> DEFINE b == Code(k, up)
             y == After(z, b)
  <2>1. s \o Codes(k, up) = Append(s, b)
    <3>1. Codes(k, up) = <<b>>
      BY <1>4 DEF Codes
    <3> HIDE DEF b
    <3>2. s \o <<b>> = Append(s, b)
      BY <1>0, <1>1 DEF b
    <3> QED BY <3>1, <3>2
  <2>2. Faithful(z, b)
    <3> SUFFICES ASSUME k \in {"letter", "digit"}, ~up
                 PROVE  b.meant \in {"any", Meant(k, z.shift, z.caps)}
      BY DEF Faithful, Code
    <3>1. ~sure' => b.meant = "any"
      BY DEF Code
    <3>2. sure' => b.meant = Meant(k, down' \cap Shifts # {}, caps')
      BY DEF Code
    <3>3. sure' => Meant(k, down' \cap Shifts # {}, caps') = Meant(k, z.shift, z.caps)
      BY <1>0
    <3> QED BY <3>1, <3>2, <3>3
  <2>3. Leads(a, Append(s, b), y) /\ y \in State
    BY <1>1, <2>2, LeadsAppend
  <2>4. b.sc = k /\ b.released = up /\ k # "e0"
    BY DEF Code, AllKeys
  <2> HIDE DEF b
  <2>5. /\ ~y.e0 /\ y.shift = IF k \in Shifts THEN ~up ELSE z.shift
        /\ y.caps = IF k = "caps" /\ ~up THEN ~z.caps ELSE z.caps
    BY <2>4 DEF After
  <2> QED BY <2>1, <2>3, <2>5 DEF Sent
<1>5. CASE k = "arrow"
  <2>1. k \notin Shifts /\ k # "caps"
    BY <1>5 DEF Shifts
  <2>2. CASE Codes(k, up) = <<E0, Code(k, up)>>
    <3> DEFINE b == Code(k, up)
    <3>1. b \in KByte
      BY <1>1
    <3>2. Leads(a, Append(Append(s, E0), b), z)
      BY <1>3
    <3> HIDE DEF b
    <3>3. s \o <<E0, b>> = Append(Append(s, E0), b)
      BY <1>0, <1>2, <3>1
    <3> QED BY <2>1, <2>2, <3>2, <3>3 DEF b, Sent
  <2>3. CASE Codes(k, up) = <<E0, Code("lshift", TRUE), E0, Code(k, up)>>
    <3> DEFINE b == Code(k, up)
               c == Code("lshift", TRUE)
               t == Append(Append(s, E0), c)
    <3>1. b \in KByte /\ c \in KByte
      BY <1>1 DEF AllKeys
    <3>2. Leads(a, t, z)
      BY <1>3 DEF AllKeys
    <3>3. Leads(a, Append(Append(t, E0), b), z)
      BY <1>3, <3>2
    <3> HIDE DEF b, c
    <3>4. s \o <<E0, c, E0, b>> = Append(Append(t, E0), b)
      BY <1>0, <1>2, <3>1
    <3> QED BY <2>1, <2>3, <3>3, <3>4 DEF b, c, Sent
  <2> QED BY <1>5, <2>2, <2>3 DEF Codes
<1> QED BY <1>4, <1>5

\* One step of the handler, on its flags.
LEMMA HandlerFlags ==
    ASSUME KbdInv, keyboard_handler, Head(wire) \in KByte
    PROVE  Flags' = After(Flags, Head(wire))
<1> DEFINE b == Head(wire)
<1>1. b.sc \in AllKeys \cup {"e0"} /\ b.released \in BOOLEAN
  BY DEF KByte
<1>2. "e0" \notin Shifts /\ "caps" \notin Shifts /\ "caps" # "e0"
  BY DEF Shifts
<1>3. g_shift \in BOOLEAN /\ g_caps \in BOOLEAN /\ g_e0 \in BOOLEAN
  BY DEF KbdInv
<1> HIDE DEF b
<1>4. /\ g_shift' = IF b.sc \in Shifts /\ ~g_e0 THEN ~b.released ELSE g_shift
      /\ g_caps' = IF b.sc = "caps" /\ ~b.released /\ ~g_e0 THEN ~g_caps ELSE g_caps
      /\ g_e0' = (b.sc = "e0")
  BY <1>1, <1>2, <1>3 DEF keyboard_handler, b
<1> QED BY <1>4 DEF Flags, After, b

\* KbdInv is kept.
LEMMA KbdStep ==
    ASSUME KbdInv, device = "keyboard", [DNext]_dvars
    PROVE  KbdInv'
<1> PICK z \in State : Leads(Flags, wire, z) /\ Settled(z)
  BY DEF KbdInv
<1>0. /\ down \subseteq AllKeys /\ caps \in BOOLEAN /\ sure \in BOOLEAN
      /\ g_shift \in BOOLEAN /\ g_caps \in BOOLEAN /\ g_e0 \in BOOLEAN
      /\ sure => ~(Shifts \subseteq down)
      /\ Keys \subseteq AllKeys
      /\ z.shift \in BOOLEAN /\ z.caps \in BOOLEAN /\ ~z.e0
      /\ sure => z.shift = (down \cap Shifts # {}) /\ z.caps = caps
  BY DriversAssumption DEF KbdInv, Settled, State
<1>1. ASSUME NEW k \in Keys, press(k) PROVE KbdInv'
  <2>1. /\ down' = down \cup {k} /\ down' \subseteq AllKeys /\ caps' \in BOOLEAN /\ sure' \in BOOLEAN
        /\ wire' = wire \o Codes(k, FALSE) /\ Flags' = Flags
        /\ g_shift' \in BOOLEAN /\ g_caps' \in BOOLEAN /\ g_e0' \in BOOLEAN
        /\ sure' => ~(Shifts \subseteq down') /\ sure
        /\ caps' = (caps # (k = "caps")) /\ k \in AllKeys
    BY <1>0, <1>1 DEF press, Send, Flags
  <2>2. k \in {"letter", "digit"} => down' \cap Shifts = down \cap Shifts /\ caps' = caps
    BY <1>0, <2>1 DEF Shifts
  <2>s. Sent(Flags, wire, z, k, FALSE)
    <3>1. FALSE \in BOOLEAN /\ sure' \in BOOLEAN /\ caps' \in BOOLEAN /\ k \in AllKeys
      BY <1>0, <2>1
    <3>2. k \in {"letter", "digit"} /\ ~FALSE /\ sure'
            => z.shift = (down' \cap Shifts # {}) /\ z.caps = caps'
      BY <1>0, <2>1, <2>2
    <3> QED BY <1>0, <3>1, <3>2, SentCodes, Zenon
  <2>3. PICK y \in State : /\ Leads(Flags, wire \o Codes(k, FALSE), y)
                           /\ ~y.e0
                           /\ y.shift = IF k \in Shifts THEN ~FALSE ELSE z.shift
                           /\ y.caps = IF k = "caps" /\ ~FALSE THEN ~z.caps ELSE z.caps
    BY <2>s DEF Sent
  <2>4. sure' => y.shift = (down' \cap Shifts # {})
    <3>1. k \in Shifts => down' \cap Shifts # {}
      BY <2>1
    <3>2. k \notin Shifts => down' \cap Shifts = down \cap Shifts
      BY <2>1
    <3> QED BY <1>0, <2>1, <2>3, <3>1, <3>2
  <2>5. sure' => y.caps = caps'
    BY <1>0, <2>1, <2>3
  <2>6. Settled(y)'
    BY <2>3, <2>4, <2>5 DEF Settled
  <2> QED BY <2>1, <2>3, <2>6 DEF KbdInv
<1>2. ASSUME NEW k \in Keys, repeat(k) PROVE KbdInv'
  <2>1. /\ down' = down /\ k \in down /\ caps' = caps /\ sure' = (sure /\ k # "caps") /\ sure' \in BOOLEAN
        /\ wire' = wire \o Codes(k, FALSE) /\ Flags' = Flags
        /\ g_shift' \in BOOLEAN /\ g_caps' \in BOOLEAN /\ g_e0' \in BOOLEAN /\ k \in AllKeys
    BY <1>0, <1>2 DEF repeat, Send, Flags
  <2>s. Sent(Flags, wire, z, k, FALSE)
    <3>1. FALSE \in BOOLEAN /\ sure' \in BOOLEAN /\ caps' \in BOOLEAN /\ k \in AllKeys
      BY <1>0, <2>1
    <3>2. k \in {"letter", "digit"} /\ ~FALSE /\ sure'
            => z.shift = (down' \cap Shifts # {}) /\ z.caps = caps'
      BY <1>0, <2>1
    <3> QED BY <1>0, <3>1, <3>2, SentCodes, Zenon
  <2>3. PICK y \in State : /\ Leads(Flags, wire \o Codes(k, FALSE), y)
                           /\ ~y.e0
                           /\ y.shift = IF k \in Shifts THEN ~FALSE ELSE z.shift
                           /\ y.caps = IF k = "caps" /\ ~FALSE THEN ~z.caps ELSE z.caps
    BY <2>s DEF Sent
  <2>4. sure' => y.shift = (down' \cap Shifts # {}) /\ y.caps = caps'
    <3>1. k \in Shifts => down' \cap Shifts # {}
      BY <2>1
    <3> QED BY <1>0, <2>1, <2>3, <3>1
  <2>6. Settled(y)'
    BY <2>3, <2>4 DEF Settled
  <2> QED BY <1>0, <2>1, <2>3, <2>6 DEF KbdInv
<1>3. ASSUME NEW k \in Keys, release(k) PROVE KbdInv'
  <2>1. /\ down' = down \ {k} /\ k \in down /\ caps' = caps /\ sure' \in BOOLEAN
        /\ wire' = wire \o Codes(k, TRUE) /\ Flags' = Flags
        /\ g_shift' \in BOOLEAN /\ g_caps' \in BOOLEAN /\ g_e0' \in BOOLEAN /\ k \in AllKeys
        /\ sure' => sure \/ (k \in Shifts /\ down' \cap Shifts = {} /\ caps = g_caps /\ wire = << >>)
    BY <1>0, <1>3 DEF release, Send, Flags
  <2>s. Sent(Flags, wire, z, k, TRUE)
    <3>1. TRUE \in BOOLEAN /\ sure' \in BOOLEAN /\ caps' \in BOOLEAN /\ k \in AllKeys
      BY <1>0, <2>1
    <3>2. k \in {"letter", "digit"} /\ ~TRUE /\ sure'
            => z.shift = (down' \cap Shifts # {}) /\ z.caps = caps'
      BY <1>0, <2>1
    <3> QED BY <1>0, <3>1, <3>2, SentCodes, Zenon
  <2>3. PICK y \in State : /\ Leads(Flags, wire \o Codes(k, TRUE), y)
                           /\ ~y.e0
                           /\ y.shift = IF k \in Shifts THEN ~TRUE ELSE z.shift
                           /\ y.caps = IF k = "caps" /\ ~TRUE THEN ~z.caps ELSE z.caps
    BY <2>s DEF Sent
  <2>4. sure' => y.shift = (down' \cap Shifts # {}) /\ y.caps = caps'
    <3>1. ASSUME sure, k \in Shifts PROVE down' \cap Shifts = {}
      BY <1>0, <2>1, <3>1 DEF Shifts
    <3>2. k \notin Shifts => down' \cap Shifts = down \cap Shifts
      BY <2>1
    <3>3. ASSUME wire = << >> PROVE z.caps = g_caps
      <4>1. z = Flags
        BY <3>3, LeadsEmpty
      <4> QED BY <4>1 DEF Flags
    <3> QED BY <1>0, <2>1, <2>3, <3>1, <3>2, <3>3
  <2>5. sure' => ~(Shifts \subseteq down')
    BY <1>0, <2>1 DEF Shifts
  <2>6. Settled(y)'
    BY <2>3, <2>4 DEF Settled
  <2> QED BY <1>0, <2>1, <2>3, <2>5, <2>6 DEF KbdInv
<1>4. ASSUME keyboard_handler PROVE KbdInv'
  <2>1. wire # << >> /\ wire' = Tail(wire) /\ UNCHANGED <<down, caps, sure>>
    BY <1>4 DEF keyboard_handler
  <2>2. Head(wire) \in KByte /\ Leads(After(Flags, Head(wire)), Tail(wire), z)
    BY <2>1, LeadsTail
  <2>3. Flags' = After(Flags, Head(wire))
    BY <1>4, <2>2, HandlerFlags
  <2>4. g_shift' \in BOOLEAN /\ g_caps' \in BOOLEAN /\ g_e0' \in BOOLEAN
    <3>1. After(Flags, Head(wire)) \in State
      BY <1>0, <2>2 DEF After, Flags, State, KByte
    <3> QED BY <2>3, <3>1 DEF Flags, State
  <2>5. Leads(Flags', wire', z) /\ Settled(z)'
    BY <2>1, <2>2, <2>3 DEF Settled
  <2> QED BY <1>0, <2>1, <2>4, <2>5 DEF KbdInv
<1>5. ASSUME UNCHANGED <<wire, down, caps, sure, g_shift, g_caps, g_e0>> PROVE KbdInv'
  BY <1>0, <1>5 DEF KbdInv, Flags, Settled
<1>6. ASSUME NEW mode, syscall_set_kbd_mode(mode) PROVE KbdInv'
  BY <1>5, <1>6 DEF syscall_set_kbd_mode
<1>7. ASSUME UNCHANGED dvars PROVE KbdInv'
  BY <1>5, <1>7 DEF dvars, kbdVars
<1>8. ~tty /\ ~byte_lost /\ ~mouse_handler /\ \A m : ~mouse_report(m)
  BY DEF tty, byte_lost, mouse_handler, mouse_report
<1> QED BY <1>1, <1>2, <1>3, <1>4, <1>6, <1>7, <1>8 DEF DNext

\* The wire always leads to the keys held.
LEMMA KbdInvariant == DSpec => [](device = "keyboard" => KbdInv)
<1>1. DInit => KbdInv
  <2> SUFFICES ASSUME DInit PROVE KbdInv
    OBVIOUS
  <2>1. Flags \in State /\ ~Flags.e0 /\ Flags.shift = FALSE /\ Flags.caps = FALSE
    BY DEF DInit, Flags, State
  <2>2. Leads(Flags, << >>, Flags)
    BY <2>1, LeadsEmpty
  <2>3. Settled(Flags)
    BY <2>1 DEF Settled, DInit
  <2>4. wire = << >> /\ down = {} /\ ~(Shifts \subseteq down)
    BY DEF DInit, Shifts
  <2> QED BY <2>1, <2>2, <2>3, <2>4 DEF KbdInv, DInit
<1>2. (device = "keyboard" => KbdInv) /\ [DNext]_dvars => (device = "keyboard" => KbdInv)'
  <2>1. [DNext]_dvars => device' = device
    BY DEF DNext, dvars, press, repeat, release, keyboard_handler, syscall_set_kbd_mode, tty,
           mouse_report, byte_lost, mouse_handler
  <2> QED BY <2>1, KbdStep
<1> QED BY <1>1, <1>2, PTL DEF DSpec

\* Characters reach the tty as they were typed, for every set of keys, however
\* many are held at once and however late the interrupt handler runs.
THEOREM TypedIsRead == DSpec => CharsAsTyped
<1> DEFINE Ok == keyboard_handler /\ w' # w => Head(wire).meant \in {"any", q'[w]}
<1>1. RingInv /\ (device = "keyboard" => KbdInv) /\ [DNext]_dvars => [Ok]_dvars
  <2> SUFFICES ASSUME RingInv, device = "keyboard" => KbdInv, keyboard_handler, w' # w
               PROVE  Head(wire).meant \in {"any", q'[w]}
    OBVIOUS
  <2> DEFINE b == Head(wire)
  <2>1. KbdInv /\ wire # << >>
    BY DEF keyboard_handler
  <2>2. PICK z : Leads(Flags, wire, z)
    BY <2>1 DEF KbdInv
  <2>3. b \in KByte /\ Faithful(Flags, b)
    BY <2>1, <2>2, LeadsTail
  <2>4. b.sc \notin Shifts \cup {"e0", "caps"} /\ ~b.released /\ ~g_e0 /\ Emit(translate_key(b.sc))
    BY DEF keyboard_handler, ringVars
  <2> HIDE DEF b
  <2>5. translate_key(b.sc) # "none" /\ push(translate_key(b.sc))
    BY <2>4 DEF Emit, ringVars
  <2>6. b.sc \in {"letter", "digit"}
    BY <2>5 DEF translate_key
  <2>7. q'[w] = translate_key(b.sc)
    BY <2>5 DEF push, RingInv, TypeOK
  <2>8. g_shift \in BOOLEAN /\ g_caps \in BOOLEAN
    BY <2>1 DEF KbdInv
  <2>9. translate_key(b.sc) = Meant(b.sc, g_shift, g_caps)
    BY <2>6, <2>8 DEF translate_key, Meant
  <2>10. b.meant \in {"any", Meant(b.sc, g_shift, g_caps)}
    BY <2>3, <2>4, <2>6 DEF Faithful, Flags
  <2> QED BY <2>7, <2>9, <2>10 DEF b
<1> QED BY <1>1, RingInvariant, DriversUseRing, KbdInvariant, PTL DEF DSpec, CharsAsTyped

-----------------------------------------------------------------------------
(* The mouse.                                                              *)

\* The three bytes of a report of m.
FlagsOf(m) == 8 + (IF m.dx < 0 THEN 16 ELSE 0) + (IF m.dy < 0 THEN 32 ELSE 0)
ByteOf(m, p) == CASE p = 1 -> FlagsOf(m) [] p = 2 -> m.dx % 256 [] OTHER -> m.dy % 256

MByte == [v : Nat, pos : 1..3, move : Moves]

\* The wire holds whole packets, but that the first may have lost its front.
Packets(s) ==
    /\ s \in Seq(MByte)
    /\ \A i \in 1..Len(s) : s[i].v = ByteOf(s[i].move, s[i].pos)
    /\ \A i \in 1..(Len(s) - 1) : /\ s[i].pos # 3 => s[i + 1].pos = s[i].pos + 1 /\ s[i + 1].move = s[i].move
                                  /\ s[i].pos = 3 => s[i + 1].pos = 1
    /\ s # << >> => s[Len(s)].pos = 3

\* The handler has collected what comes before the next byte of its packet.
InStep(s, c) == IF s = << >> THEN c = << >>
                ELSE /\ Len(c) = s[1].pos - 1
                     /\ s[1].pos > 1 => c[1] = FlagsOf(s[1].move)
                     /\ s[1].pos > 2 => c[2] = s[1].move.dx % 256

MouseInv == /\ Packets(wire)
            /\ g_packet \in Seq(Nat) /\ Len(g_packet) <= 2
            /\ synced \in 0..3
            /\ synced = 2 => Len(g_packet) # 1
            /\ synced = 3 => InStep(wire, g_packet)

\* The flags of a report: the always-set bit, no overflow, and the signs.
LEMMA FlagBits ==
    ASSUME NEW m \in Moves
    PROVE  LET f == FlagsOf(m)
           IN  /\ f \in Nat
               /\ Bit(f, 8) /\ ~Bit(f, 64) /\ ~Bit(f, 128)
               /\ Bit(f, 16) <=> m.dx < 0
               /\ Bit(f, 32) <=> m.dy < 0
<1> DEFINE f == FlagsOf(m)
<1>0. m.dx \in -256..255 /\ m.dy \in -256..255
  BY DriversAssumption
<1>1. CASE m.dx < 0 /\ m.dy < 0
  <2>1. f = 56
    BY <1>1 DEF FlagsOf
  <2> QED BY <1>1, <2>1 DEF Bit
<1>2. CASE m.dx < 0 /\ ~(m.dy < 0)
  <2>1. f = 24
    BY <1>2 DEF FlagsOf
  <2> QED BY <1>2, <2>1 DEF Bit
<1>3. CASE ~(m.dx < 0) /\ m.dy < 0
  <2>1. f = 40
    BY <1>3 DEF FlagsOf
  <2> QED BY <1>3, <2>1 DEF Bit
<1>4. CASE ~(m.dx < 0) /\ ~(m.dy < 0)
  <2>1. f = 8
    BY <1>4 DEF FlagsOf
  <2> QED BY <1>4, <2>1 DEF Bit
<1> QED BY <1>1, <1>2, <1>3, <1>4

\* The eight bits and the sign of a movement not below -128 give it back.
LEMMA DeltaOf ==
    ASSUME NEW d \in -256..255, d >= -128
    PROVE  Delta(d % 256, d < 0) = d
<1>1. CASE d < 0
  <2>1. d % 256 = d + 256
    BY <1>1
  <2> QED BY <1>1, <2>1 DEF Delta
<1>2. CASE ~(d < 0)
  <2>1. d % 256 = d
    BY <1>2
  <2> QED BY <1>2, <2>1 DEF Delta
<1> QED BY <1>1, <1>2

\* Taking the first byte off.
LEMMA PacketsTail ==
    ASSUME NEW s, Packets(s), s # << >>
    PROVE  /\ Packets(Tail(s))
           /\ Head(s) = s[1] /\ s[1] \in MByte /\ s[1].v = ByteOf(s[1].move, s[1].pos)
           /\ Tail(s) = << >> => s[1].pos = 3
           /\ Tail(s) # << >> => /\ s[1].pos # 3 => Tail(s)[1].pos = s[1].pos + 1 /\ Tail(s)[1].move = s[1].move
                                 /\ s[1].pos = 3 => Tail(s)[1].pos = 1
<1> DEFINE n == Len(s)
           t == Tail(s)
<1>1. /\ s \in Seq(MByte) /\ n \in Nat
      /\ \A i \in 1..n : s[i].v = ByteOf(s[i].move, s[i].pos)
      /\ s[n].pos = 3
  BY DEF Packets
<1>2. \A i \in 1..(n - 1) : /\ s[i].pos # 3 => s[i + 1].pos = s[i].pos + 1 /\ s[i + 1].move = s[i].move
                            /\ s[i].pos = 3 => s[i + 1].pos = 1
  BY DEF Packets
<1>3. /\ n >= 1 /\ Head(s) = s[1] /\ s[1] \in MByte
      /\ t \in Seq(MByte) /\ Len(t) = n - 1 /\ \A i \in 1..(n - 1) : t[i] = s[i + 1]
      /\ (t = << >>) <=> (n = 1)
  <2>1. /\ n >= 1 /\ Head(s) = s[1] /\ s[1] \in MByte
        /\ t \in Seq(MByte) /\ Len(t) = n - 1 /\ \A i \in 1..(n - 1) : t[i] = s[i + 1]
    BY <1>1
  <2> HIDE DEF n, t
  <2>2. (t = << >>) <=> (Len(t) = 0)
    BY <2>1, EmptySeq
  <2> QED BY <1>1, <2>1, <2>2
<1> HIDE DEF n, t
<1>4. \A i \in 1..Len(t) : t[i].v = ByteOf(t[i].move, t[i].pos)
  BY <1>1, <1>3
<1>5. \A i \in 1..(Len(t) - 1) : /\ t[i].pos # 3 => t[i + 1].pos = t[i].pos + 1 /\ t[i + 1].move = t[i].move
                                 /\ t[i].pos = 3 => t[i + 1].pos = 1
  <2> SUFFICES ASSUME NEW i \in 1..(Len(t) - 1)
               PROVE  /\ t[i].pos # 3 => t[i + 1].pos = t[i].pos + 1 /\ t[i + 1].move = t[i].move
                      /\ t[i].pos = 3 => t[i + 1].pos = 1
    OBVIOUS
  <2> DEFINE j == i + 1
  <2>1. j \in 1..(n - 1) /\ i \in 1..(n - 1)
    BY <1>1, <1>3
  <2>2. t[i] = s[j] /\ t[j] = s[j + 1]
    BY <1>3, <2>1
  <2> HIDE DEF j
  <2>3. /\ t[i].pos # 3 => t[j].pos = t[i].pos + 1 /\ t[j].move = t[i].move
        /\ t[i].pos = 3 => t[j].pos = 1
    BY <1>2, <2>1, <2>2
  <2> QED BY <2>3 DEF j
<1>6. t # << >> => t[Len(t)].pos = 3
  BY <1>1, <1>3
<1>7. Packets(t)
  BY <1>3, <1>4, <1>5, <1>6 DEF Packets
<1>8. t = << >> => s[1].pos = 3
  BY <1>1, <1>3
<1>9. t # << >> => /\ s[1].pos # 3 => t[1].pos = s[1].pos + 1 /\ t[1].move = s[1].move
                   /\ s[1].pos = 3 => t[1].pos = 1
  <2>1. t # << >> => 1 \in 1..(n - 1) /\ t[1] = s[2] /\ 1 + 1 = 2
    BY <1>1, <1>3
  <2> QED BY <1>2, <2>1
<1>10. s[1].v = ByteOf(s[1].move, s[1].pos)
  BY <1>1, <1>3
<1> QED BY <1>3, <1>7, <1>8, <1>9, <1>10 DEF t

\* A report put behind them.
LEMMA PacketsReport ==
    ASSUME NEW s, Packets(s), NEW m \in Moves,
           NEW b1, NEW b2, NEW b3,
           b1 = [v |-> FlagsOf(m), pos |-> 1, move |-> m],
           b2 = [v |-> m.dx % 256, pos |-> 2, move |-> m],
           b3 = [v |-> m.dy % 256, pos |-> 3, move |-> m]
    PROVE  /\ Packets(s \o <<b1, b2, b3>>)
           /\ s # << >> => (s \o <<b1, b2, b3>>)[1] = s[1]
           /\ s = << >> => (s \o <<b1, b2, b3>>)[1] = b1
           /\ s \o <<b1, b2, b3>> # << >>
<1> DEFINE n == Len(s)
           t == s \o <<b1, b2, b3>>
<1>0. m.dx \in -256..255 /\ m.dy \in -256..255
  BY DriversAssumption
<1>1. /\ FlagsOf(m) \in Nat /\ m.dx % 256 \in Nat /\ m.dy % 256 \in Nat
  BY <1>0, FlagBits
<1>2. b1 \in MByte /\ b2 \in MByte /\ b3 \in MByte
  BY <1>1 DEF MByte
<1>3. /\ b1.v = ByteOf(m, 1) /\ b1.pos = 1 /\ b1.move = m
      /\ b2.v = ByteOf(m, 2) /\ b2.pos = 2 /\ b2.move = m
      /\ b3.v = ByteOf(m, 3) /\ b3.pos = 3 /\ b3.move = m
  BY DEF ByteOf
<1>4. /\ s \in Seq(MByte) /\ n \in Nat
      /\ \A i \in 1..n : s[i].v = ByteOf(s[i].move, s[i].pos)
      /\ s # << >> => s[n].pos = 3
  BY DEF Packets
<1>5. \A i \in 1..(n - 1) : /\ s[i].pos # 3 => s[i + 1].pos = s[i].pos + 1 /\ s[i + 1].move = s[i].move
                            /\ s[i].pos = 3 => s[i + 1].pos = 1
  BY DEF Packets
<1>6. /\ t \in Seq(MByte) /\ Len(t) = n + 3
      /\ \A i \in 1..n : t[i] = s[i]
      /\ t[n + 1] = b1 /\ t[n + 2] = b2 /\ t[n + 3] = b3
  <2>1. <<b1, b2, b3>> \in Seq(MByte)
    BY <1>2
  <2> QED BY <1>4, <2>1
<1>7. (s = << >>) <=> (n = 0)
  BY <1>4
<1> HIDE DEF n, t
<1>8. \A i \in 1..Len(t) : t[i].v = ByteOf(t[i].move, t[i].pos)
  <2> SUFFICES ASSUME NEW i \in 1..(n + 3) PROVE t[i].v = ByteOf(t[i].move, t[i].pos)
    BY <1>6
  <2>1. i \in 1..n \/ i = n + 1 \/ i = n + 2 \/ i = n + 3
    BY <1>4
  <2> QED BY <1>3, <1>4, <1>6, <2>1
<1>9. \A i \in 1..(Len(t) - 1) : /\ t[i].pos # 3 => t[i + 1].pos = t[i].pos + 1 /\ t[i + 1].move = t[i].move
                                 /\ t[i].pos = 3 => t[i + 1].pos = 1
  <2> SUFFICES ASSUME NEW i \in 1..(n + 2)
               PROVE  /\ t[i].pos # 3 => t[i + 1].pos = t[i].pos + 1 /\ t[i + 1].move = t[i].move
                      /\ t[i].pos = 3 => t[i + 1].pos = 1
    BY <1>4, <1>6
  <2>1. CASE i \in 1..(n - 1)
    <3>1. i \in 1..n /\ i + 1 \in 1..n
      BY <1>4, <2>1
    <3> QED BY <1>5, <1>6, <2>1, <3>1
  <2>2. CASE i = n
    <3>1. i \in 1..n /\ s # << >> /\ i + 1 = n + 1
      BY <1>4, <1>7, <2>2
    <3>2. t[i].pos = 3 /\ t[i + 1] = b1
      BY <1>4, <1>6, <2>2, <3>1
    <3> QED BY <1>3, <3>2
  <2>3. CASE i = n + 1
    <3>1. i + 1 = n + 2
      BY <1>4, <2>3
    <3> QED BY <1>3, <1>6, <2>3, <3>1
  <2>4. CASE i = n + 2
    <3>1. i + 1 = n + 3
      BY <1>4, <2>4
    <3> QED BY <1>3, <1>6, <2>4, <3>1
  <2> QED BY <1>4, <2>1, <2>2, <2>3, <2>4
<1>10. t[Len(t)].pos = 3
  BY <1>3, <1>6
<1>11. Packets(t)
  BY <1>6, <1>8, <1>9, <1>10 DEF Packets
<1>12. t # << >>
  <2>1. Len(t) # 0
    BY <1>4, <1>6
  <2> QED BY <2>1
<1>13. (s # << >> => t[1] = s[1]) /\ (s = << >> => t[1] = b1)
  <2>1. s # << >> => 1 \in 1..n
    BY <1>4, <1>7
  <2>2. s = << >> => n + 1 = 1
    BY <1>7
  <2> QED BY <1>6, <2>1, <2>2
<1> QED BY <1>11, <1>12, <1>13 DEF t

\* A third of a packet at a time.
LEMMA ShortAppend ==
    ASSUME NEW c \in Seq(Nat), NEW e \in Nat
    PROVE  /\ (c = << >>) <=> (Len(c) = 0)
           /\ Len(c) = 0 => Append(c, e) = <<e>> /\ <<e>> \in Seq(Nat)
           /\ Len(c) = 1 => Append(c, e) = <<c[1], e>> /\ <<c[1], e>> \in Seq(Nat)
           /\ Len(c) = 2 => Append(c, e) = <<c[1], c[2], e>>
<1> DEFINE d == Append(c, e)
<1>1. d \in Seq(Nat) /\ Len(d) = Len(c) + 1 /\ d[Len(c) + 1] = e /\ \A i \in 1..Len(c) : d[i] = c[i]
  OBVIOUS
<1>2. (c = << >>) <=> (Len(c) = 0)
  BY EmptySeq
<1> HIDE DEF d
<1>3. ASSUME Len(c) = 0 PROVE d = <<e>> /\ <<e>> \in Seq(Nat)
  <2>1. Len(d) = 1 /\ d[1] = e
    BY <1>1, <1>3
  <2> QED BY <1>1, <2>1, SeqEqual
<1>4. ASSUME Len(c) = 1 PROVE d = <<c[1], e>> /\ <<c[1], e>> \in Seq(Nat)
  <2>1. Len(d) = 2 /\ d[1] = c[1] /\ d[2] = e /\ c[1] \in Nat
    BY <1>1, <1>4
  <2>2. <<c[1], e>> \in Seq(Nat) /\ Len(<<c[1], e>>) = 2
    BY <2>1
  <2>3. \A i \in 1..2 : d[i] = <<c[1], e>>[i]
    BY <2>1
  <2> QED BY <1>1, <2>1, <2>2, <2>3, SeqEqual
<1>5. ASSUME Len(c) = 2 PROVE d = <<c[1], c[2], e>>
  <2>1. Len(d) = 3 /\ d[1] = c[1] /\ d[2] = c[2] /\ d[3] = e /\ c[1] \in Nat /\ c[2] \in Nat
    BY <1>1, <1>5
  <2>2. <<c[1], c[2], e>> \in Seq(Nat) /\ Len(<<c[1], c[2], e>>) = 3
    BY <2>1
  <2>3. \A i \in 1..3 : d[i] = <<c[1], c[2], e>>[i]
    BY <2>1
  <2> QED BY <1>1, <2>1, <2>2, <2>3, SeqEqual
<1> QED BY <1>2, <1>3, <1>4, <1>5 DEF d

\* What the handler does to the bytes it has collected.
LEMMA Collects ==
    ASSUME MouseInv, mouse_handler
    PROVE  LET b == Head(wire) IN
           /\ wire # << >> /\ wire' = Tail(wire) /\ synced' = Progress(b) /\ b.v \in Nat
           /\ \/ Len(g_packet) = 0 /\ ~Bit(b.v, 8) /\ g_packet' = << >>
              \/ Len(g_packet) = 0 /\ Bit(b.v, 8) /\ g_packet' = <<b.v>>
              \/ Len(g_packet) = 1 /\ g_packet' = <<g_packet[1], b.v>>
              \/ Len(g_packet) = 2 /\ g_packet' = << >>
                   /\ mouse_apply_packet(<<g_packet[1], g_packet[2], b.v>>)
<1> DEFINE b == Head(wire)
           c == g_packet
<1>1. wire # << >> /\ wire' = Tail(wire) /\ synced' = Progress(b)
  BY DEF mouse_handler
<1>2. b.v \in Nat
  BY <1>1, PacketsTail DEF MouseInv, MByte
<1>3. c \in Seq(Nat) /\ Len(c) \in 0..2 /\ ((c = << >>) <=> (Len(c) = 0))
  <2>1. c \in Seq(Nat) /\ Len(c) \in Nat /\ Len(c) <= 2
    BY DEF MouseInv
  <2>2. (c = << >>) <=> (Len(c) = 0)
    BY <2>1, EmptySeq
  <2>3. Len(c) \in 0..2
    <3> DEFINE n == Len(c)
    <3>1. n \in Nat /\ n <= 2
      BY <2>1
    <3> HIDE DEF n
    <3>2. n \in 0..2
      BY <3>1
    <3> QED BY <3>2 DEF n
  <2> HIDE DEF c
  <2> QED BY <2>1, <2>2, <2>3
<1>4. \/ c = << >> /\ ~Bit(b.v, 8) /\ c' = c
      \/ (c # << >> \/ Bit(b.v, 8)) /\ Len(c) < 2 /\ c' = Append(c, b.v)
      \/ Len(c) = 2 /\ c' = << >> /\ mouse_apply_packet(Append(c, b.v))
  BY DEF mouse_handler
<1>5. CASE c = << >> /\ ~Bit(b.v, 8) /\ c' = c
  BY <1>1, <1>2, <1>3, <1>5
<1>6. CASE (c # << >> \/ Bit(b.v, 8)) /\ Len(c) < 2 /\ c' = Append(c, b.v)
  <2>1. CASE Len(c) = 0
    <3>1. c = << >> /\ Append(c, b.v) = <<b.v>>
      BY <1>2, <1>3, <2>1, ShortAppend
    <3> QED BY <1>1, <1>2, <1>6, <2>1, <3>1
  <2>2. CASE Len(c) = 1
    <3>1. Append(c, b.v) = <<c[1], b.v>>
      BY <1>2, <1>3, <2>2, ShortAppend
    <3> QED BY <1>1, <1>2, <1>6, <2>2, <3>1
  <2> QED BY <1>3, <1>6, <2>1, <2>2
<1>7. CASE Len(c) = 2 /\ c' = << >> /\ mouse_apply_packet(Append(c, b.v))
  <2>1. Append(c, b.v) = <<c[1], c[2], b.v>>
    BY <1>2, <1>3, <1>7, ShortAppend
  <2> QED BY <1>1, <1>2, <1>7, <2>1
<1> QED BY <1>4, <1>5, <1>6, <1>7

\* MouseInv is kept.
LEMMA MouseStep ==
    ASSUME MouseInv, device = "mouse", [DNext]_dvars
    PROVE  MouseInv'
<1>1. ASSUME NEW m \in Moves, mouse_report(m) PROVE MouseInv'
  <2> DEFINE b1 == [v |-> FlagsOf(m), pos |-> 1, move |-> m]
             b2 == [v |-> m.dx % 256, pos |-> 2, move |-> m]
             b3 == [v |-> m.dy % 256, pos |-> 3, move |-> m]
  <2>1. /\ wire' = wire \o <<b1, b2, b3>> /\ UNCHANGED <<g_packet, synced>>
    BY <1>1 DEF mouse_report, Send, mouseVars, FlagsOf
  <2>2. b1.pos = 1
    OBVIOUS
  <2>3. /\ Packets(wire') /\ wire' # << >>
        /\ (wire # << >> => wire'[1] = wire[1]) /\ (wire = << >> => wire'[1] = b1)
    <3>1. Packets(wire)
      BY DEF MouseInv
    <3> DEFINE t == wire \o <<b1, b2, b3>>
    <3>2. /\ Packets(t) /\ t # << >>
          /\ (wire # << >> => t[1] = wire[1]) /\ (wire = << >> => t[1] = b1)
      BY <3>1, PacketsReport
    <3> HIDE DEF t
    <3> QED BY <2>1, <3>2 DEF t
  <2> HIDE DEF b1, b2, b3
  <2>4. synced = 3 => InStep(wire', g_packet)
    BY <2>2, <2>3 DEF MouseInv, InStep
  <2> QED BY <2>1, <2>3, <2>4 DEF MouseInv
<1>2. ASSUME byte_lost PROVE MouseInv'
  <2>1. wire # << >> /\ wire' = Tail(wire) /\ synced' = 0 /\ g_packet' = g_packet
    BY <1>2 DEF byte_lost
  <2>2. Packets(wire')
    BY <2>1, PacketsTail DEF MouseInv
  <2> QED BY <2>1, <2>2 DEF MouseInv
<1>3. ASSUME mouse_handler PROVE MouseInv'
  <2> DEFINE b == Head(wire)
             t == Tail(wire)
  <2>1. /\ wire # << >> /\ wire' = t /\ synced' = Progress(b) /\ b.v \in Nat
        /\ \/ Len(g_packet) = 0 /\ ~Bit(b.v, 8) /\ g_packet' = << >>
           \/ Len(g_packet) = 0 /\ Bit(b.v, 8) /\ g_packet' = <<b.v>>
           \/ Len(g_packet) = 1 /\ g_packet' = <<g_packet[1], b.v>>
           \/ Len(g_packet) = 2 /\ g_packet' = << >>
    BY <1>3, Collects
  <2>2. /\ Packets(t) /\ b = wire[1] /\ b \in MByte /\ b.v = ByteOf(b.move, b.pos)
        /\ t = << >> => b.pos = 3
        /\ t # << >> => /\ b.pos # 3 => t[1].pos = b.pos + 1 /\ t[1].move = b.move
                        /\ b.pos = 3 => t[1].pos = 1
    BY <2>1, PacketsTail DEF MouseInv
  <2> HIDE DEF b, t
  <2>3. b.pos \in 1..3 /\ b.move \in Moves
    BY <2>2 DEF MByte
  <2>4. g_packet \in Seq(Nat) /\ synced \in 0..3 /\ (synced = 2 => Len(g_packet) # 1)
    BY DEF MouseInv
  <2>5. /\ g_packet' \in Seq(Nat) /\ Len(g_packet') \in 0..2
        /\ ~Bit(b.v, 8) /\ Len(g_packet) # 1 => g_packet' = << >>
        /\ ~Bit(b.v, 8) => Len(g_packet') # 1
    <3>1. CASE Len(g_packet) = 0 /\ ~Bit(b.v, 8) /\ g_packet' = << >>
      BY <3>1
    <3>2. CASE Len(g_packet) = 0 /\ Bit(b.v, 8) /\ g_packet' = <<b.v>>
      BY <2>1, <2>4, <3>2
    <3>3. CASE Len(g_packet) = 1 /\ g_packet' = <<g_packet[1], b.v>>
      <4>1. g_packet[1] \in Nat
        <5>1. g_packet \in Seq(Nat) /\ 1 \in 1..Len(g_packet)
          BY <2>4, <3>3
        <5> QED BY <5>1, ElementOfSeq
      <4> QED BY <2>1, <3>3, <4>1
    <3>4. CASE Len(g_packet) = 2 /\ g_packet' = << >>
      BY <3>4
    <3> QED BY <2>1, <3>1, <3>2, <3>3, <3>4
  <2>6. /\ synced = 3 => synced' = 3
        /\ synced # 3 => \/ synced' = 1 \/ synced' = 0
                         \/ b.pos # 1 /\ b.pos = synced + 1 /\ ~Bit(b.v, 8) /\ synced' = b.pos
    <3>1. synced = 3 => Progress(b) = 3
      BY DEF Progress
    <3>2. synced # 3 /\ b.pos = 1 => Progress(b) = 1
      BY DEF Progress
    <3>3. synced # 3 /\ b.pos # 1 /\ b.pos = synced + 1 /\ Quiet(b) => Progress(b) = synced + 1
      BY DEF Progress
    <3>4. synced # 3 /\ b.pos # 1 /\ ~(b.pos = synced + 1 /\ Quiet(b)) => Progress(b) = 0
      BY DEF Progress
    <3> QED BY <2>1, <3>1, <3>2, <3>3, <3>4 DEF Quiet
  <2>9. ASSUME synced' \in 0..3, synced' = 2 => Len(g_packet') # 1, synced' = 3 => InStep(t, g_packet')
        PROVE  MouseInv'
    <3>1. Packets(wire') /\ (synced' = 3 => InStep(wire', g_packet'))
      BY <2>1, <2>2, <2>9
    <3>2. Len(g_packet') <= 2
      <4> DEFINE n == Len(g_packet')
      <4>1. n \in 0..2
        BY <2>5
      <4> HIDE DEF n
      <4>2. n <= 2
        BY <4>1
      <4> QED BY <4>2 DEF n
    <3> QED BY <2>5, <2>9, <3>1, <3>2 DEF MouseInv
  <2>7. CASE synced = 3
    <3>1. /\ Len(g_packet) = b.pos - 1
          /\ b.pos > 1 => g_packet[1] = FlagsOf(b.move)
          /\ b.pos > 2 => g_packet[2] = b.move.dx % 256
      BY <2>1, <2>2, <2>7 DEF MouseInv, InStep
    <3>2. CASE b.pos = 1
      <4>1. b.v = FlagsOf(b.move) /\ Bit(b.v, 8)
        BY <2>2, <2>3, <3>2, FlagBits DEF ByteOf
      <4>2. g_packet' = <<FlagsOf(b.move)>> /\ t # << >> /\ t[1].pos = 2 /\ t[1].move = b.move
        BY <2>1, <2>2, <3>1, <3>2, <4>1
      <4>3. InStep(t, g_packet')
        BY <4>2 DEF InStep
      <4> QED BY <2>6, <2>7, <2>9, <4>3
    <3>3. CASE b.pos = 2
      <4>1. b.v = b.move.dx % 256
        BY <2>2, <3>3 DEF ByteOf
      <4>2. /\ g_packet' = <<FlagsOf(b.move), b.move.dx % 256>>
            /\ t # << >> /\ t[1].pos = 3 /\ t[1].move = b.move
        BY <2>1, <2>2, <3>1, <3>3, <4>1
      <4>3. InStep(t, g_packet')
        BY <4>2 DEF InStep
      <4> QED BY <2>6, <2>7, <2>9, <4>3
    <3>4. CASE b.pos = 3
      <4>1. g_packet' = << >> /\ (t # << >> => t[1].pos = 1)
        BY <2>1, <2>2, <3>1, <3>4
      <4>2. InStep(t, g_packet')
        BY <4>1 DEF InStep
      <4> QED BY <2>6, <2>7, <2>9, <4>2
    <3> QED BY <2>3, <3>2, <3>3, <3>4
  <2>8. CASE synced # 3
    <3>1. CASE synced' = 1 \/ synced' = 0
      BY <2>9, <3>1
    <3>2. CASE b.pos # 1 /\ b.pos = synced + 1 /\ ~Bit(b.v, 8) /\ synced' = b.pos
      <4>1. CASE b.pos = 2
        <5>1. Len(g_packet') # 1
          BY <2>5, <3>2
        <5> QED BY <2>9, <3>2, <4>1, <5>1
      <4>2. CASE b.pos = 3
        <5>1. synced = 2
          BY <2>4, <3>2, <4>2
        <5>2. g_packet' = << >> /\ (t # << >> => t[1].pos = 1)
          BY <2>2, <2>4, <2>5, <3>2, <4>2, <5>1
        <5>3. InStep(t, g_packet')
          BY <5>2 DEF InStep
        <5> QED BY <2>9, <3>2, <4>2, <5>3
      <4> QED BY <2>3, <3>2, <4>1, <4>2
    <3> QED BY <2>6, <2>8, <3>1, <3>2
  <2> QED BY <2>7, <2>8
<1>4. ASSUME UNCHANGED dvars PROVE MouseInv'
  BY <1>4 DEF dvars, mouseVars, MouseInv
<1>5. /\ \A k : ~press(k) /\ ~repeat(k) /\ ~release(k)
      /\ ~keyboard_handler /\ ~tty /\ \A mode : ~syscall_set_kbd_mode(mode)
  BY DEF press, repeat, release, keyboard_handler, tty, syscall_set_kbd_mode
<1> QED BY <1>1, <1>2, <1>3, <1>4, <1>5 DEF DNext

\* In every state of the mouse.
LEMMA MouseInvariant == DSpec => [](device = "mouse" => MouseInv)
<1>1. DInit => MouseInv
  <2> SUFFICES ASSUME DInit PROVE MouseInv
    OBVIOUS
  <2>1. wire = << >> /\ g_packet = << >> /\ synced = 3
    BY DEF DInit
  <2> QED BY <2>1 DEF MouseInv, Packets, InStep
<1>2. (device = "mouse" => MouseInv) /\ [DNext]_dvars => (device = "mouse" => MouseInv)'
  <2>1. [DNext]_dvars => device' = device
    BY DEF DNext, dvars, press, repeat, release, keyboard_handler, syscall_set_kbd_mode, tty,
           mouse_report, byte_lost, mouse_handler
  <2> QED BY <2>1, MouseStep
<1> QED BY <1>1, <1>2, PTL DEF DSpec

\* The pointer makes every reported movement and stays on the screen: packets
\* are never mixed up, and one quiet packet after lost bytes puts mouse_handler
\* back into step, wherever the loss left it.
THEOREM PointerIsMoved == DSpec => PointerFollows
<1> DEFINE Ok == mouse_handler /\ synced = 3 /\ Head(wire).pos = 3 /\ Head(wire).move.dx >= -128
                               /\ Head(wire).move.dy >= -128
                   => /\ g_x' = Clamp(g_x + Head(wire).move.dx, Width)
                      /\ g_y' = Clamp(g_y - Head(wire).move.dy, Height)
<1>1. (device = "mouse" => MouseInv) /\ [DNext]_dvars => [Ok]_dvars
  <2> DEFINE b == Head(wire)
             m == b.move
  <2> SUFFICES ASSUME device = "mouse" => MouseInv, mouse_handler, synced = 3, b.pos = 3,
                      m.dx >= -128, m.dy >= -128
               PROVE  g_x' = Clamp(g_x + m.dx, Width) /\ g_y' = Clamp(g_y - m.dy, Height)
    OBVIOUS
  <2>1. MouseInv /\ wire # << >>
    BY DEF mouse_handler
  <2>2. b = wire[1] /\ b \in MByte /\ b.v = ByteOf(m, b.pos)
    BY <2>1, PacketsTail DEF MouseInv
  <2>3. m \in Moves /\ b.v = m.dy % 256
    BY <2>2 DEF MByte, ByteOf
  <2>4. Len(g_packet) = 2 /\ g_packet[1] = FlagsOf(m) /\ g_packet[2] = m.dx % 256
    <3>1. b.pos = 3 /\ InStep(wire, g_packet)
      BY <2>1 DEF MouseInv
    <3> HIDE DEF b
    <3> QED BY <2>1, <2>2, <3>1 DEF InStep
  <2>5. mouse_apply_packet(<<g_packet[1], g_packet[2], b.v>>)
    BY <2>1, <2>4, Collects
  <2> DEFINE f == FlagsOf(m)
             p == <<f, m.dx % 256, m.dy % 256>>
  <2>6. mouse_apply_packet(p)
    BY <2>3, <2>4, <2>5
  <2>7. /\ Bit(f, 8) /\ ~Bit(f, 64) /\ ~Bit(f, 128)
        /\ Bit(f, 16) <=> m.dx < 0
        /\ Bit(f, 32) <=> m.dy < 0
    BY <2>3, FlagBits
  <2> HIDE DEF f, b, m
  <2>8. /\ g_x' = Clamp(g_x + Delta(m.dx % 256, Bit(f, 16)), Width)
        /\ g_y' = Clamp(g_y - Delta(m.dy % 256, Bit(f, 32)), Height)
    BY <2>6, <2>7 DEF mouse_apply_packet
  <2>9. m.dx \in -256..255 /\ m.dy \in -256..255
    BY <2>3, DriversAssumption
  <2>10. Delta(m.dx % 256, m.dx < 0) = m.dx /\ Delta(m.dy % 256, m.dy < 0) = m.dy
    BY <2>9, DeltaOf
  <2>11. Delta(m.dx % 256, Bit(f, 16)) = m.dx /\ Delta(m.dy % 256, Bit(f, 32)) = m.dy
    BY <2>7, <2>10 DEF Delta
  <2> QED BY <2>8, <2>11
<1> QED BY <1>1, MouseInvariant, PTL DEF DSpec, PointerFollows
=============================================================================
