----------------------------- MODULE RingProofs -----------------------------
(***************************************************************************)
(* The rings of Keys and E1000, for any sizes: what is put into a ring     *)
(* comes out of it, once and in order.                                     *)
(***************************************************************************)
EXTENDS Keys, E1000, SequenceTheorems, TLAPS

---------------------------------------------------------------------------
(* Rings of n places.                                                       *)

(* The place after i, the distance from one place to another, the i-th      *)
(* place from one on.                                                       *)
Round(i, n) == (i + 1) % n
Gap(from, to, n) == (to - from) % n
Place(from, i, n) == (from + i - 1) % n

(* What is in a ring from one place up to another.                          *)
Window(ring, from, to, n) == [i \in 1 .. Gap(from, to, n) |-> ring[Place(from, i, n)]]

(* The three without remainders.                                            *)
LEMMA RoundIs ==
  ASSUME NEW n \in Nat \ {0}, NEW from \in 0 .. n - 1
  PROVE  Round(from, n) = IF from = n - 1 THEN 0 ELSE from + 1
<1> DEFINE x == from + 1
<1>1. x \in Int /\ 0 <= x /\ x <= n
  OBVIOUS
<1> HIDE DEF x
<1>2. x % n = IF x = n THEN 0 ELSE x
  BY <1>1, SMT
<1> QED
  BY <1>2 DEF x, Round

(* The distance between two places.                                         *)
LEMMA GapIs ==
  ASSUME NEW n \in Nat \ {0}, NEW from \in 0 .. n - 1, NEW to \in 0 .. n - 1
  PROVE  Gap(from, to, n) = IF from <= to THEN to - from ELSE to - from + n
<1> DEFINE x == to - from
<1>1. x \in Int /\ -n <= x /\ x < n /\ (x >= 0 <=> from <= to)
  OBVIOUS
<1> HIDE DEF x
<1>2. x % n = IF x >= 0 THEN x ELSE x + n
  BY <1>1, SMT
<1> QED
  BY <1>1, <1>2 DEF x, Gap

(* The place so far on.                                                     *)
LEMMA PlaceIs ==
  ASSUME NEW n \in Nat \ {0}, NEW from \in 0 .. n - 1, NEW i \in 1 .. n
  PROVE  Place(from, i, n) = IF from + i <= n THEN from + i - 1 ELSE from + i - 1 - n
<1> DEFINE x == from + i - 1
<1>1. x \in Int /\ 0 <= x /\ x < 2 * n /\ (x < n <=> from + i <= n)
  OBVIOUS
<1> HIDE DEF x
<1>2. x % n = IF x < n THEN x ELSE x - n
  BY <1>1, SMT
<1> QED
  BY <1>1, <1>2 DEF x, Place

(* The places of a window are in the ring, and not its end.                 *)
LEMMA Within ==
  ASSUME NEW n \in Nat \ {0}, NEW from \in 0 .. n - 1, NEW to \in 0 .. n - 1
  PROVE  /\ Round(from, n) \in 0 .. n - 1
         /\ Gap(from, to, n) \in 0 .. n - 1
         /\ \A i \in 1 .. Gap(from, to, n) :
              Place(from, i, n) \in 0 .. n - 1 /\ Place(from, i, n) # to
<1>1. Round(from, n) \in 0 .. n - 1 /\ Gap(from, to, n) \in 0 .. n - 1
  <2>1. Round(from, n) \in 0 .. n - 1
    BY RoundIs
  <2>2. Gap(from, to, n) \in 0 .. n - 1
    BY GapIs
  <2> QED
    BY <2>1, <2>2
<1>2. ASSUME NEW i \in 1 .. Gap(from, to, n)
      PROVE  Place(from, i, n) \in 0 .. n - 1 /\ Place(from, i, n) # to
  <2>1. i \in 1 .. n
    BY <1>1
  <2>2. Place(from, i, n) = IF from + i <= n THEN from + i - 1 ELSE from + i - 1 - n
    BY <2>1, PlaceIs
  <2>3. Gap(from, to, n) = IF from <= to THEN to - from ELSE to - from + n
    BY GapIs
  <2> QED
    BY <2>1, <2>2, <2>3
<1> QED
  BY <1>1, <1>2

(* A ring of Ts.                                                            *)
RingOf(ring, n, T) == \A i \in 0 .. n - 1 : ring[i] \in T

(* s is a sequence of Ts, the m places of ring from one on.                 *)
Shows(s, m, ring, from, n, T) ==
  s \in Seq(T) /\ Len(s) = m /\ \A i \in 1 .. m : s[i] = ring[Place(from, i, n)]

(* A window is such a sequence.                                             *)
LEMMA Windows ==
  ASSUME NEW T, NEW n \in Nat \ {0}, NEW ring, RingOf(ring, n, T),
         NEW from \in 0 .. n - 1, NEW to \in 0 .. n - 1
  PROVE  Shows(Window(ring, from, to, n), Gap(from, to, n), ring, from, n, T)
<1>1. Gap(from, to, n) \in Nat
  BY Within
<1>2. \A i \in 1 .. Gap(from, to, n) : ring[Place(from, i, n)] \in T
  BY Within DEF RingOf
<1> QED
  BY <1>1, <1>2, IsASeq DEF Window, Shows

(* Sequences that agree are equal.                                          *)
LEMMA SameSeq ==
  ASSUME NEW T, NEW a \in Seq(T), NEW b \in Seq(T), Len(a) = Len(b),
         \A i \in 1 .. Len(a) : a[i] = b[i]
  PROVE  a = b
BY SeqEqual

(* What is appended to the second of two sequences ends both: to append it  *)
(* to the one they make is the same.                                        *)
EndsBoth(a, b, v) == Append(a \o b, v) = a \o Append(b, v)

(* Which is so for any two and any value.                                   *)
LEMMA AppendLast ==
  ASSUME NEW T, NEW a \in Seq(T), NEW b \in Seq(T), NEW v \in T
  PROVE  EndsBoth(a, b, v)
<1>1. a \o b \in Seq(T) /\ <<v>> \in Seq(T)
  OBVIOUS
<1>2. Append(a \o b, v) = (a \o b) \o <<v>> /\ Append(b, v) = b \o <<v>>
  BY <1>1, AppendIsConcat
<1>3. (a \o b) \o <<v>> = a \o (b \o <<v>>)
  BY <1>1, ConcatAssociative
<1> QED
  BY <1>2, <1>3 DEF EndsBoth

(* The rings new and ring agree but in one place.                           *)
Agree(new, ring, n, to) == \A i \in (0 .. n - 1) \ {to} : new[i] = ring[i]

(* What is stored behind a window ends it.                                  *)
Ends(new, ring, from, to, n, v) ==
  Window(new, from, Round(to, n), n) = Append(Window(ring, from, to, n), v)

(* As long as the place after it is not where the window begins.            *)
LEMMA Pushed ==
  ASSUME NEW T, NEW n \in Nat \ {0}, NEW ring, RingOf(ring, n, T),
         NEW from \in 0 .. n - 1, NEW to \in 0 .. n - 1, Round(to, n) # from,
         NEW new, NEW v \in T, new[to] = v, Agree(new, ring, n, to)
  PROVE  Ends(new, ring, from, to, n, v)
<1> DEFINE a == Window(ring, from, to, n)
           b == Window(new, from, Round(to, n), n)
           c == Append(a, v)
           m == Gap(from, to, n)
<1>1. /\ Round(to, n) \in 0 .. n - 1 /\ m \in Nat /\ m + 1 \in 1 .. n
      /\ Gap(from, Round(to, n), n) = m + 1
  <2> DEFINE r == Round(to, n)
  <2>1. r = IF to = n - 1 THEN 0 ELSE to + 1
    BY RoundIs
  <2>2. r \in 0 .. n - 1
    BY <2>1
  <2>3. m = IF from <= to THEN to - from ELSE to - from + n
    BY GapIs
  <2>4. Gap(from, r, n) = IF from <= r THEN r - from ELSE r - from + n
    BY <2>2, GapIs
  <2> HIDE DEF r, m
  <2>5. r \in 0 .. n - 1 /\ m \in Nat /\ m + 1 \in 1 .. n /\ Gap(from, r, n) = m + 1
    BY <2>1, <2>2, <2>3, <2>4 DEF r
  <2> QED
    BY <2>5 DEF r
<1>2. RingOf(new, n, T)
  BY DEF RingOf, Agree
<1>3. a \in Seq(T) /\ Len(a) = m /\ \A i \in 1 .. m : a[i] = ring[Place(from, i, n)]
  <2>1. Shows(a, m, ring, from, n, T)
    BY Windows
  <2> QED
    BY <2>1 DEF Shows
<1>4. b \in Seq(T) /\ Len(b) = m + 1 /\ \A i \in 1 .. m + 1 : b[i] = new[Place(from, i, n)]
  <2>1. Shows(b, Gap(from, Round(to, n), n), new, from, n, T)
    BY <1>1, <1>2, Windows
  <2> QED
    BY <1>1, <2>1 DEF Shows
<1>5. \A i \in 1 .. m : new[Place(from, i, n)] = ring[Place(from, i, n)]
  BY Within DEF Agree
<1>6. new[Place(from, m + 1, n)] = v
  <2>1. Place(from, m + 1, n) = to
    <3>1. m = IF from <= to THEN to - from ELSE to - from + n
      BY GapIs
    <3>2. Place(from, m + 1, n)
            = IF from + (m + 1) <= n THEN from + (m + 1) - 1 ELSE from + (m + 1) - 1 - n
      BY <1>1, PlaceIs
    <3> QED
      BY <3>1, <3>2
  <2> QED
    BY <2>1
<1> HIDE DEF a, b, m
<1>7. c \in Seq(T) /\ Len(c) = m + 1 /\ c[m + 1] = v /\ \A i \in 1 .. m : c[i] = a[i]
  BY <1>1, <1>3
<1> HIDE DEF c
<1>8. \A i \in 1 .. m + 1 : b[i] = c[i]
  <2> TAKE i \in 1 .. m + 1
  <2>1. CASE i = m + 1
    BY <1>1, <1>4, <1>6, <1>7, <2>1
  <2>2. CASE i \in 1 .. m
    <3>1. b[i] = new[Place(from, i, n)]
      BY <1>4
    <3> QED
      BY <1>3, <1>5, <1>7, <2>2, <3>1
  <2> QED
    BY <1>1, <2>1, <2>2
<1>9. b = c
  BY <1>4, <1>7, <1>8, SameSeq
<1> QED
  BY <1>9 DEF a, b, c, Ends

(* What is taken from the front of a window follows what was taken before.  *)
Passes(s, ring, from, to, n) ==
  s \o Window(ring, from, to, n) = Append(s, ring[from]) \o Window(ring, Round(from, n), to, n)

(* As long as there is something in the window.                             *)
LEMMA Popped ==
  ASSUME NEW T, NEW n \in Nat \ {0}, NEW ring, RingOf(ring, n, T),
         NEW from \in 0 .. n - 1, NEW to \in 0 .. n - 1, from # to, NEW s \in Seq(T)
  PROVE  Passes(s, ring, from, to, n)
<1> DEFINE a == Window(ring, from, to, n)
           b == Window(ring, Round(from, n), to, n)
           m == Gap(from, to, n)
<1>1. /\ Round(from, n) \in 0 .. n - 1 /\ m \in Nat \ {0} /\ m < n
      /\ Gap(Round(from, n), to, n) = m - 1
  <2> DEFINE r == Round(from, n)
  <2>1. r = IF from = n - 1 THEN 0 ELSE from + 1
    BY RoundIs
  <2>2. r \in 0 .. n - 1
    BY <2>1
  <2>3. m = IF from <= to THEN to - from ELSE to - from + n
    BY GapIs
  <2>4. Gap(r, to, n) = IF r <= to THEN to - r ELSE to - r + n
    BY <2>2, GapIs
  <2> HIDE DEF r, m
  <2>5. r \in 0 .. n - 1 /\ m \in Nat \ {0} /\ m < n /\ Gap(r, to, n) = m - 1
    BY <2>1, <2>2, <2>3, <2>4
  <2> QED
    BY <2>5 DEF r
<1>2. a \in Seq(T) /\ Len(a) = m /\ \A i \in 1 .. m : a[i] = ring[Place(from, i, n)]
  <2>1. Shows(a, m, ring, from, n, T)
    BY Windows
  <2> QED
    BY <2>1 DEF Shows
<1>3. /\ b \in Seq(T) /\ Len(b) = m - 1
      /\ \A i \in 1 .. m - 1 : b[i] = ring[Place(Round(from, n), i, n)]
  <2>1. Shows(b, Gap(Round(from, n), to, n), ring, Round(from, n), n, T)
    BY <1>1, Windows
  <2> QED
    BY <1>1, <2>1 DEF Shows
<1>4. ring[Place(from, 1, n)] = ring[from] /\ ring[from] \in T
  <2>1. Place(from, 1, n) = from
    BY PlaceIs
  <2> QED
    BY <2>1 DEF RingOf
<1>5. \A i \in 1 .. m - 1 : Place(Round(from, n), i, n) = Place(from, i + 1, n)
  <2> TAKE i \in 1 .. m - 1
  <2> DEFINE r == Round(from, n)
  <2>1. i \in 1 .. n /\ i + 1 \in 1 .. n
    BY <1>1
  <2>2. r = IF from = n - 1 THEN 0 ELSE from + 1
    BY RoundIs
  <2>3. Place(from, i + 1, n) =
          IF from + (i + 1) <= n THEN from + (i + 1) - 1 ELSE from + (i + 1) - 1 - n
    BY <2>1, PlaceIs
  <2>4. Place(r, i, n) = IF r + i <= n THEN r + i - 1 ELSE r + i - 1 - n
    BY <1>1, <2>1, PlaceIs
  <2> HIDE DEF r
  <2>5. Place(r, i, n) = Place(from, i + 1, n)
    BY <1>1, <2>1, <2>2, <2>3, <2>4
  <2> QED
    BY <2>5 DEF r
<1> HIDE DEF a, b, m
<1> DEFINE c == <<ring[from]>> \o b
<1>6. c \in Seq(T) /\ Len(c) = m /\ c[1] = ring[from] /\ \A i \in 1 .. m - 1 : c[i + 1] = b[i]
  BY <1>1, <1>3, <1>4
<1> HIDE DEF c
<1>7. \A i \in 1 .. m : a[i] = c[i]
  <2> TAKE i \in 1 .. m
  <2>1. CASE i = 1
    BY <1>2, <1>4, <1>6, <2>1
  <2>2. CASE i # 1
    <3>1. i - 1 \in 1 .. m - 1 /\ (i - 1) + 1 = i
      BY <1>1, <2>2
    <3> QED
      BY <1>2, <1>3, <1>5, <1>6, <3>1
  <2> QED
    BY <2>1, <2>2
<1>8. a = c
  BY <1>2, <1>6, <1>7, SameSeq
<1>9. s \o a = (s \o <<ring[from]>>) \o b
  <2>1. s \in Seq(T) /\ <<ring[from]>> \in Seq(T) /\ b \in Seq(T)
    BY <1>3, <1>4
  <2> QED
    BY <1>8, <2>1, ConcatAssociative DEF c
<1>10. s \o <<ring[from]>> = Append(s, ring[from])
  BY <1>4, AppendIsConcat
<1> QED
  BY <1>9, <1>10 DEF a, b, Passes

(* What is stored outside of a window does not change it.                   *)
LEMMA OtherSlots ==
  ASSUME NEW n \in Nat \ {0}, NEW ring, NEW new,
         NEW from \in 0 .. n - 1, NEW to \in 0 .. n - 1,
         Agree(new, ring, n, to)
  PROVE  Window(new, from, to, n) = Window(ring, from, to, n)
<1>1. \A i \in 1 .. Gap(from, to, n) : new[Place(from, i, n)] = ring[Place(from, i, n)]
  BY Within DEF Agree
<1> QED
  BY <1>1 DEF Window

---------------------------------------------------------------------------
(* Keys.                                                                    *)

(* What each variable of the keyboard ring holds.                           *)
KeysTypes ==
  /\ rb \in [RingIndices -> Nat] /\ rhead \in RingIndices /\ rtail \in RingIndices
  /\ take \in [pc : {"out", "load", "next", "head"}, c : Nat, head : RingIndices]
  /\ give \in [pc : {"out", "store", "tail"}, c : Nat, tail : RingIndices]
  /\ pressed \in Nat /\ kept \in Seq(Nat) /\ served \in Seq(Nat) /\ crossed \in BOOLEAN

(* What kmain has read of the ring is still so: the place after the tail is *)
(* free while it pushes, there is a key at the head while it takes one.     *)
KeysEnds ==
  /\ give.pc # "out" => give.tail = Round(rtail, KeySlots) /\ give.tail # rhead
  /\ give.pc = "tail" => rb[rtail] = give.c
  /\ take.pc # "out" => rhead # rtail
  /\ take.pc \in {"next", "head"} => take.c = rb[rhead]
  /\ take.pc = "head" => take.head = Round(rhead, KeySlots)

(* The inductive invariant of the keyboard ring.                            *)
KeysInv == KeysTypes /\ (~crossed => KeysEnds /\ KeysOnce)

(* The keyboard ring as the lemmas on rings need it.                        *)
LEMMA RingIsRing ==
  ASSUME KeysTypes
  PROVE  /\ KeySlots \in Nat \ {0} /\ RingOf(rb, KeySlots, Nat)
         /\ rhead \in 0 .. KeySlots - 1 /\ rtail \in 0 .. KeySlots - 1
         /\ \A i \in RingIndices : After(i) \in RingIndices
BY KeysAssumption, Within DEF KeysTypes, RingIndices, RingOf, After, Round

(* The place after one, in the words of Keys.                               *)
LEMMA AfterIs == \A i : After(i) = Round(i, KeySlots)
BY DEF After, Round

(* What is buffered is a window of the ring, now and after a step.          *)
LEMMA BufferedIs ==
  /\ Buffered = Window(rb, rhead, rtail, KeySlots)
  /\ Buffered' = Window(rb', rhead', rtail', KeySlots)
BY DEF Buffered, Window, Gap, Place

(* Two places that differ have different ones after them.                   *)
LEMMA RoundsDiffer ==
  ASSUME NEW n \in Nat \ {0}, NEW i \in 0 .. n - 1, NEW j \in 0 .. n - 1, i # j
  PROVE  Round(i, n) # Round(j, n)
<1>1. Round(i, n) = IF i = n - 1 THEN 0 ELSE i + 1
  BY RoundIs
<1>2. Round(j, n) = IF j = n - 1 THEN 0 ELSE j + 1
  BY RoundIs
<1> QED
  BY <1>1, <1>2

(* A key that goes into the ring, whoever pushes it.                        *)
LEMMA KeyIn ==
  ASSUME KeysTypes, KeysOnce, ~crossed, rhead' = rhead, served' = served,
         Round(rtail, KeySlots) # rhead, rtail' = Round(rtail, KeySlots),
         NEW v \in Nat, rb'[rtail] = v, Agree(rb', rb, KeySlots, rtail),
         kept' = Append(kept, v)
  PROVE  kept' = served' \o Buffered'
<1> DEFINE w == Window(rb, rhead, rtail, KeySlots)
<1>1. Buffered' = Append(w, v)
  <2>1. /\ KeySlots \in Nat \ {0} /\ RingOf(rb, KeySlots, Nat)
        /\ rhead \in 0 .. KeySlots - 1 /\ rtail \in 0 .. KeySlots - 1
    BY RingIsRing
  <2>2. Ends(rb', rb, rhead, rtail, KeySlots, v)
    BY <2>1, Pushed
  <2> QED
    BY <2>2, BufferedIs DEF Ends
<1>2. kept = served \o w
  BY BufferedIs DEF KeysOnce
<1>3. w \in Seq(Nat) /\ served \in Seq(Nat)
  <2>1. Shows(w, Gap(rhead, rtail, KeySlots), rb, rhead, KeySlots, Nat)
    BY RingIsRing, Windows
  <2> QED
    BY <2>1 DEF Shows, KeysTypes
<1> HIDE DEF w
<1>4. EndsBoth(served, w, v)
  BY <1>3, AppendLast
<1> QED
  BY <1>1, <1>2, <1>4 DEF EndsBoth

(* A key that comes out.                                                    *)
LEMMA KeyOut ==
  ASSUME KeysTypes, KeysOnce, ~crossed, rtail' = rtail, rb' = rb, kept' = kept,
         rhead # rtail, rhead' = Round(rhead, KeySlots), served' = Append(served, rb[rhead])
  PROVE  kept' = served' \o Buffered'
<1>1. served \o Window(rb, rhead, rtail, KeySlots)
        = Append(served, rb[rhead]) \o Window(rb, Round(rhead, KeySlots), rtail, KeySlots)
  <2>1. /\ KeySlots \in Nat \ {0} /\ RingOf(rb, KeySlots, Nat) /\ served \in Seq(Nat)
        /\ rhead \in 0 .. KeySlots - 1 /\ rtail \in 0 .. KeySlots - 1
    BY RingIsRing DEF KeysTypes
  <2>2. Passes(served, rb, rhead, rtail, KeySlots)
    BY <2>1, Popped
  <2> QED
    BY <2>2 DEF Passes
<1> QED
  BY <1>1, BufferedIs DEF KeysOnce

(* An empty ring, nobody at it.                                             *)
LEMMA KeysInitInv == KeysInit => KeysInv
<1> SUFFICES ASSUME KeysInit PROVE KeysInv
  OBVIOUS
<1>1. KeySlots \in Nat \ {0} /\ 0 \in RingIndices
  BY KeysAssumption DEF RingIndices
<1>2. KeysTypes
  <2>1. rb \in [RingIndices -> Nat]
    BY DEF KeysInit
  <2>2. /\ take \in [pc : {"out", "load", "next", "head"}, c : Nat, head : RingIndices]
        /\ give \in [pc : {"out", "store", "tail"}, c : Nat, tail : RingIndices]
    BY <1>1 DEF KeysInit, NoTake, NoGive
  <2> QED
    BY <1>1, <2>1, <2>2 DEF KeysInit, KeysTypes
<1>3. KeysEnds
  BY DEF KeysInit, KeysEnds, NoTake, NoGive
<1>4. KeysOnce
  <2>1. Gap(0, 0, KeySlots) = 0
    BY <1>1, GapIs
  <2>2. Buffered = <<>>
    BY <2>1, BufferedIs DEF KeysInit, Window
  <2> QED
    BY <2>2 DEF KeysInit, KeysOnce
<1> QED
  BY <1>2, <1>3, <1>4 DEF KeysInv

(* The handler of the keyboard pushes, in one go.                           *)
LEMMA KeyIrqInv ==
  ASSUME KeysInv, KeyIrq
  PROVE  KeysInv'
<1>1. KeysTypes
  BY DEF KeysInv
<1>2. /\ pressed' \in Nat /\ pressed' = pressed + 1
      /\ rhead' = rhead /\ take' = take /\ give' = give /\ served' = served
  BY <1>1 DEF KeyIrq, Press, KeysTypes
<1>3. CASE HasRoom(After(rtail))
  <2>1. /\ rb' = [rb EXCEPT ![rtail] = pressed'] /\ rtail' = Round(rtail, KeySlots)
        /\ kept' = Append(kept, pressed') /\ crossed' = (crossed \/ give.pc # "out")
    BY <1>3, AfterIs DEF KeyIrq
  <2>2. Round(rtail, KeySlots) # rhead /\ Round(rtail, KeySlots) \in RingIndices
    BY <1>1, <1>3, AfterIs, RingIsRing DEF HasRoom, KeysTypes
  <2>3. rb'[rtail] = pressed' /\ Agree(rb', rb, KeySlots, rtail)
    BY <1>1, <2>1 DEF KeysTypes, Agree, RingIndices
  <2>4. KeysTypes'
    BY <1>1, <1>2, <2>1, <2>2 DEF KeysTypes
  <2>5. SUFFICES ASSUME ~crossed' PROVE KeysEnds' /\ KeysOnce'
    BY <2>4 DEF KeysInv
  <2>6. ~crossed /\ give.pc = "out" /\ KeysEnds /\ KeysOnce
    BY <1>1, <2>1, <2>5 DEF KeysInv, KeysTypes
  <2>7. KeysEnds'
    BY <1>1, <1>2, <2>1, <2>2, <2>3, <2>6 DEF KeysEnds, KeysTypes
  <2>8. kept' = served' \o Buffered'
    BY <1>1, <1>2, <2>1, <2>2, <2>3, <2>6, KeyIn
  <2> QED
    BY <2>7, <2>8 DEF KeysOnce
<1>4. CASE ~HasRoom(After(rtail))
  <2>1. UNCHANGED <<rb, rtail, kept, crossed>>
    BY <1>4 DEF KeyIrq
  <2>2. KeysTypes'
    BY <1>1, <1>2, <2>1 DEF KeysTypes
  <2>3. ~crossed => KeysEnds' /\ KeysOnce'
    BY <1>2, <2>1, BufferedIs DEF KeysInv, KeysEnds, KeysOnce
  <2> QED
    BY <2>1, <2>2, <2>3 DEF KeysInv
<1> QED
  BY <1>3, <1>4

(* kmain, which polls the controller, pushes in three steps.                *)
LEMMA PollKeysInv ==
  ASSUME KeysInv, PollRoom \/ PollStore \/ PollTail
  PROVE  KeysInv'
<1>1. KeysTypes
  BY DEF KeysInv
<1>2. rhead' = rhead /\ take' = take /\ served' = served /\ crossed' = crossed
  BY DEF PollRoom, PollStore, PollTail
<1>3. CASE PollRoom
  <2>1. /\ pressed' \in Nat /\ UNCHANGED <<rb, rtail, kept>> /\ give.pc = "out"
        /\ give' = IF HasRoom(After(rtail))
                   THEN [pc |-> "store", c |-> pressed', tail |-> After(rtail)] ELSE give
    BY <1>1, <1>3 DEF PollRoom, Press, KeysTypes
  <2>2. KeysTypes'
    <3>1. give' \in [pc : {"out", "store", "tail"}, c : Nat, tail : RingIndices]
      BY <1>1, <2>1, RingIsRing DEF KeysTypes
    <3> QED
      BY <1>1, <1>2, <2>1, <3>1 DEF KeysTypes
  <2>3. ASSUME ~crossed PROVE KeysEnds' /\ KeysOnce'
    <3>1. KeysEnds'
      BY <1>1, <1>2, <2>1, <2>3, AfterIs DEF KeysInv, KeysEnds, HasRoom
    <3> QED
      BY <1>2, <2>1, <2>3, <3>1, BufferedIs DEF KeysInv, KeysOnce
  <2> QED
    BY <1>2, <2>2, <2>3 DEF KeysInv
<1>4. CASE PollStore
  <2>1. /\ rb' = [rb EXCEPT ![rtail] = give.c] /\ give.pc = "store"
        /\ give' = [give EXCEPT !.pc = "tail"] /\ UNCHANGED <<rtail, pressed, kept>>
    BY <1>4 DEF PollStore
  <2>2. rb'[rtail] = give.c /\ Agree(rb', rb, KeySlots, rtail)
    BY <1>1, <2>1 DEF KeysTypes, Agree, RingIndices
  <2>3. KeysTypes'
    BY <1>1, <1>2, <2>1 DEF KeysTypes
  <2>4. ASSUME ~crossed PROVE KeysEnds' /\ KeysOnce'
    <3>1. KeysEnds /\ KeysOnce
      BY <2>4 DEF KeysInv
    <3>2. KeysEnds'
      BY <1>1, <1>2, <2>1, <2>2, <3>1 DEF KeysEnds, KeysTypes
    <3>3. Window(rb', rhead, rtail, KeySlots) = Window(rb, rhead, rtail, KeySlots)
      <4>1. /\ KeySlots \in Nat \ {0}
            /\ rhead \in 0 .. KeySlots - 1 /\ rtail \in 0 .. KeySlots - 1
        BY <1>1, RingIsRing
      <4> QED
        BY <2>2, <4>1, OtherSlots
    <3> QED
      BY <1>2, <2>1, <3>1, <3>2, <3>3, BufferedIs DEF KeysOnce
  <2> QED
    BY <1>2, <2>3, <2>4 DEF KeysInv
<1>5. CASE PollTail
  <2>1. /\ give.pc = "tail" /\ rtail' = give.tail /\ kept' = Append(kept, give.c)
        /\ give' = NoGive /\ UNCHANGED <<rb, pressed>>
    BY <1>5 DEF PollTail
  <2>2. give.c \in Nat /\ give.tail \in RingIndices /\ 0 \in RingIndices
    BY <1>1, KeysAssumption DEF KeysTypes, RingIndices
  <2>3. KeysTypes'
    BY <1>1, <1>2, <2>1, <2>2 DEF KeysTypes, NoGive
  <2>4. ASSUME ~crossed PROVE KeysEnds' /\ KeysOnce'
    <3>1. KeysEnds /\ KeysOnce
      BY <2>4 DEF KeysInv
    <3>2. give.tail = Round(rtail, KeySlots) /\ give.tail # rhead /\ rb[rtail] = give.c
      BY <2>1, <3>1 DEF KeysEnds
    <3>3. KeysEnds'
      BY <1>2, <2>1, <3>1, <3>2 DEF KeysEnds, NoGive
    <3>4. Agree(rb', rb, KeySlots, rtail)
      BY <2>1 DEF Agree
    <3>5. kept' = served' \o Buffered'
      BY <1>1, <1>2, <2>1, <2>2, <2>4, <3>1, <3>2, <3>4, KeyIn
    <3> QED
      BY <3>3, <3>5 DEF KeysOnce
  <2> QED
    BY <1>2, <2>3, <2>4 DEF KeysInv
<1> QED
  BY <1>3, <1>4, <1>5

(* SYS_GETKEY takes a key in one go.                                        *)
LEMMA GetKeyInv ==
  ASSUME KeysInv, GetKey
  PROVE  KeysInv'
<1>1. KeysTypes
  BY DEF KeysInv
<1>2. /\ rhead # rtail /\ served' = Append(served, rb[rhead]) /\ rhead' = Round(rhead, KeySlots)
      /\ crossed' = (crossed \/ take.pc # "out")
      /\ UNCHANGED <<rb, rtail, take, give, pressed, kept>>
  BY AfterIs DEF GetKey
<1>3. rb[rhead] \in Nat /\ Round(rhead, KeySlots) \in RingIndices
  BY <1>1, RingIsRing, AfterIs DEF KeysTypes
<1>4. KeysTypes'
  BY <1>1, <1>2, <1>3 DEF KeysTypes
<1>5. SUFFICES ASSUME ~crossed' PROVE KeysEnds' /\ KeysOnce'
  BY <1>4 DEF KeysInv
<1>6. ~crossed /\ take.pc = "out" /\ KeysEnds /\ KeysOnce
  BY <1>1, <1>2, <1>5 DEF KeysInv, KeysTypes
<1>7. Round(rhead, KeySlots) # Round(rtail, KeySlots)
  BY <1>1, <1>2, RingIsRing, RoundsDiffer
<1>8. KeysEnds'
  BY <1>2, <1>6, <1>7 DEF KeysEnds
<1>9. kept' = served' \o Buffered'
  BY <1>1, <1>2, <1>6, KeyOut
<1> QED
  BY <1>8, <1>9 DEF KeysOnce

(* kmain takes one in four steps.                                           *)
LEMMA TakeInv ==
  ASSUME KeysInv, TryGet \/ TakeLoad \/ TakeNext \/ TakeHead
  PROVE  KeysInv'
<1>1. KeysTypes
  BY DEF KeysInv
<1>2. UNCHANGED <<rb, rtail, give, pressed, kept, crossed>>
  BY DEF TryGet, TakeLoad, TakeNext, TakeHead
<1>3. rb[rhead] \in Nat /\ After(rhead) \in RingIndices /\ 0 \in RingIndices
  <2>1. 0 \in RingIndices
    BY KeysAssumption DEF RingIndices
  <2> QED
    BY <1>1, <2>1, RingIsRing DEF KeysTypes
<1>4. CASE TryGet \/ TakeLoad \/ TakeNext
  <2>1. rhead' = rhead /\ served' = served
    BY <1>4 DEF TryGet, TakeLoad, TakeNext
  <2>2. take' \in [pc : {"out", "load", "next", "head"}, c : Nat, head : RingIndices]
    BY <1>1, <1>3, <1>4 DEF TryGet, TakeLoad, TakeNext, KeysTypes
  <2>3. KeysTypes'
    BY <1>1, <1>2, <2>1, <2>2 DEF KeysTypes
  <2>4. ASSUME ~crossed PROVE KeysEnds' /\ KeysOnce'
    <3>1. KeysEnds'
      BY <1>1, <1>2, <1>4, <2>1, <2>4, AfterIs
         DEF TryGet, TakeLoad, TakeNext, KeysInv, KeysEnds, KeysTypes
    <3> QED
      BY <1>2, <2>1, <2>4, <3>1, BufferedIs DEF KeysInv, KeysOnce
  <2> QED
    BY <1>2, <2>3, <2>4 DEF KeysInv
<1>5. CASE TakeHead
  <2>1. /\ take.pc = "head" /\ rhead' = take.head /\ served' = Append(served, take.c)
        /\ take' = NoTake
    BY <1>5 DEF TakeHead
  <2>2. take.c \in Nat /\ take.head \in RingIndices
    BY <1>1 DEF KeysTypes
  <2>3. KeysTypes'
    BY <1>1, <1>2, <1>3, <2>1, <2>2 DEF KeysTypes, NoTake
  <2>4. ASSUME ~crossed PROVE KeysEnds' /\ KeysOnce'
    <3>1. KeysEnds /\ KeysOnce
      BY <2>4 DEF KeysInv
    <3>2. take.head = Round(rhead, KeySlots) /\ take.c = rb[rhead] /\ rhead # rtail
      BY <2>1, <3>1 DEF KeysEnds
    <3>3. Round(rhead, KeySlots) # Round(rtail, KeySlots)
      BY <1>1, <3>2, RingIsRing, RoundsDiffer
    <3>4. KeysEnds'
      BY <1>2, <2>1, <3>1, <3>2, <3>3 DEF KeysEnds, NoTake
    <3>5. kept' = served' \o Buffered'
      BY <1>1, <1>2, <2>1, <2>4, <3>1, <3>2, KeyOut
    <3> QED
      BY <3>4, <3>5 DEF KeysOnce
  <2> QED
    BY <1>2, <2>3, <2>4 DEF KeysInv
<1> QED
  BY <1>4, <1>5

(* keyboard.c: every key that found room in the ring is handed over once,   *)
(* in the order of the presses, whoever pushes and whoever takes, for any   *)
(* size of the ring, until somebody moves the end kmain is moving.          *)
THEOREM KeysComeOnce == KeysSpec => []KeysOnce
<1>1. KeysInit => KeysInv
  BY KeysInitInv
<1>2. KeysInv /\ [KeysNext]_keysvars => KeysInv'
  <2>1. ASSUME KeysInv, UNCHANGED keysvars PROVE KeysInv'
    BY <2>1, BufferedIs DEF KeysInv, KeysTypes, KeysEnds, KeysOnce, keysvars
  <2> QED
    BY <2>1, KeyIrqInv, PollKeysInv, GetKeyInv, TakeInv DEF KeysNext, NoKey
<1>3. KeysInv => KeysOnce
  BY DEF KeysInv, KeysOnce
<1> QED
  BY <1>1, <1>2, <1>3, PTL DEF KeysSpec

---------------------------------------------------------------------------
(* E1000.                                                                   *)

(* The buffers of a ring of descriptors, and the first m numbers.           *)
Bufs(r) == [i \in DOMAIN r |-> r[i].buf]
Count(m) == [i \in 1 .. m |-> i]

(* kmain works on a descriptor of the receive ring; which is the first that *)
(* is not the card's; which is the first that nobody has been given.        *)
Busy == k.at \in {"deliver", "clear", "advance", "handback"} \/ k.back = "clear"
Given == k.at \in {"clear", "advance"} \/ k.back = "clear"
RxBase == IF k.at = "handback" THEN k.d ELSE rxCur
First == IF Given THEN Round(rxCur, RxDescs) ELSE rxCur

(* What the types lack to be inductive: a frame that is there has a number, *)
(* and there is one left for the frame kmain is about to fill in.           *)
CardTypes ==
  /\ E1000TypeOK
  /\ \A i \in RxRing : rx[i].dd => rx[i].buf # 0
  /\ k.at = "deliver" => rx[k.d].buf # 0
  /\ k.at = "fill" => made < MaxOut
  /\ k.back = "clear" => k.at \in {"fill", "slot", "copy", "post", "clear"}

(* The card may take up to the descriptor before the first one in use, and  *)
(* the descriptors in use are those with a frame, but for one that kmain    *)
(* has cleared.                                                             *)
RxOK ==
  /\ k.at = "handback" => rxCur = Round(k.d, RxDescs)
  /\ Busy /\ k.at # "handback" => k.d = rxCur
  /\ Round(rdt, RxDescs) = RxBase
  /\ Busy => rdh # RxBase
  /\ \A i \in RxRing :
       rx[i].dd <=> /\ Gap(RxBase, i, RxDescs) < Gap(RxBase, rdh, RxDescs)
                    /\ ~(k.at \in {"advance", "handback"} /\ i = k.d)
  /\ handed \o Window(Bufs(rx), First, rdh, RxDescs) = Count(taken)

(* The descriptors the card still has to send are those from its head to    *)
(* the tail; what kmain puts together goes behind them.                     *)
TxOK ==
  /\ tdt = txCur
  /\ k.at \in {"copy", "post"} => k.slot = txCur
  /\ k.at \in {"slot", "copy", "post"} => txframe = made /\ made # 0
  /\ k.at = "post" => tx[k.slot].buf = made
  /\ \A i \in TxRing : ~tx[i].dd <=> Gap(tdh, i, TxDescs) < Gap(tdh, tdt, TxDescs)
  /\ wire \o Window(Bufs(tx), tdh, tdt, TxDescs)
       = Count(IF k.at \in {"slot", "copy", "post"} THEN made - 1 ELSE made)

(* The inductive invariant of the card's rings.                             *)
CardInv == CardTypes /\ (~nested => RxOK /\ (~full => TxOK))

(* How distances change when an end moves on.                               *)
LEMMA Gaps ==
  ASSUME NEW n \in Nat \ {0}, NEW b \in 0 .. n - 1, NEW i \in 0 .. n - 1
  PROVE  /\ Gap(b, i, n) \in 0 .. n - 1
         /\ Gap(b, i, n) = 0 <=> i = b
         /\ Gap(b, Round(i, n), n) = IF Round(i, n) = b THEN 0 ELSE Gap(b, i, n) + 1
         /\ Gap(Round(b, n), i, n) = IF i = b THEN n - 1 ELSE Gap(b, i, n) - 1
<1> DEFINE ri == Round(i, n)
           rb1 == Round(b, n)
<1>1. ri = IF i = n - 1 THEN 0 ELSE i + 1
  BY RoundIs
<1>2. rb1 = IF b = n - 1 THEN 0 ELSE b + 1
  BY RoundIs
<1>3. ri \in 0 .. n - 1 /\ rb1 \in 0 .. n - 1
  BY <1>1, <1>2
<1>4. Gap(b, i, n) = IF b <= i THEN i - b ELSE i - b + n
  BY GapIs
<1>5. Gap(b, ri, n) = IF b <= ri THEN ri - b ELSE ri - b + n
  BY <1>3, GapIs
<1>6. Gap(rb1, i, n) = IF rb1 <= i THEN i - rb1 ELSE i - rb1 + n
  BY <1>3, GapIs
<1> HIDE DEF ri, rb1
<1>7. Gap(b, i, n) \in 0 .. n - 1 /\ (Gap(b, i, n) = 0 <=> i = b)
  BY <1>4
<1>8. Gap(b, ri, n) = IF ri = b THEN 0 ELSE Gap(b, i, n) + 1
  BY <1>1, <1>3, <1>4, <1>5
<1>9. Gap(rb1, i, n) = IF i = b THEN n - 1 ELSE Gap(b, i, n) - 1
  BY <1>2, <1>3, <1>4, <1>6
<1> QED
  BY <1>7, <1>8, <1>9 DEF ri, rb1

(* Two places are not equally far from a third.                             *)
LEMMA GapsDiffer ==
  ASSUME NEW n \in Nat \ {0}, NEW b \in 0 .. n - 1, NEW i \in 0 .. n - 1,
         NEW j \in 0 .. n - 1, i # j
  PROVE  Gap(b, i, n) # Gap(b, j, n)
<1>1. Gap(b, i, n) = IF b <= i THEN i - b ELSE i - b + n
  BY GapIs
<1>2. Gap(b, j, n) = IF b <= j THEN j - b ELSE j - b + n
  BY GapIs
<1> QED
  BY <1>1, <1>2

(* The two rings, and the windows in the words of E1000.                    *)
LEMMA Cards ==
  ASSUME CardTypes
  PROVE  /\ RxDescs \in Nat \ {0} /\ TxDescs \in Nat \ {0}
         /\ RxRing = 0 .. RxDescs - 1 /\ TxRing = 0 .. TxDescs - 1
         /\ rxCur \in RxRing /\ rdh \in RxRing /\ rdt \in RxRing
         /\ txCur \in TxRing /\ tdh \in TxRing /\ tdt \in TxRing
         /\ k.d \in RxRing /\ k.slot \in TxRing
         /\ RingOf(Bufs(rx), RxDescs, Nat) /\ RingOf(Bufs(tx), TxDescs, Nat)
         /\ handed \in Seq(Nat) /\ wire \in Seq(Nat)
         /\ MaxIn \in Nat /\ MaxOut \in Nat /\ 0 \in RxRing /\ 0 \in TxRing
         /\ taken \in 0 .. MaxIn /\ made \in 0 .. MaxOut /\ txframe \in 0 .. MaxOut
<1>1. handed \in Seq(Nat) /\ wire \in Seq(Nat)
  <2>1. handed \in Seq(1 .. MaxIn) /\ wire \in Seq(0 .. MaxOut)
    BY DEF CardTypes, E1000TypeOK
  <2>2. 1 .. MaxIn \subseteq Nat /\ 0 .. MaxOut \subseteq Nat
    BY E1000Assumption
  <2> QED
    BY <2>1, <2>2, SeqMonotonic
<1>2. RingOf(Bufs(rx), RxDescs, Nat) /\ RingOf(Bufs(tx), TxDescs, Nat)
  <2>1. /\ rx \in [RxRing -> [dd : BOOLEAN, buf : 0 .. MaxIn]]
        /\ tx \in [TxRing -> [dd : BOOLEAN, buf : 0 .. MaxOut]]
    BY DEF CardTypes, E1000TypeOK
  <2>2. \A i \in RxRing : Bufs(rx)[i] \in Nat
    BY <2>1, E1000Assumption DEF Bufs
  <2>3. \A i \in TxRing : Bufs(tx)[i] \in Nat
    BY <2>1, E1000Assumption DEF Bufs
  <2> QED
    BY <2>2, <2>3 DEF RingOf, RxRing, TxRing
<1> QED
  BY <1>1, <1>2, E1000Assumption DEF CardTypes, E1000TypeOK, RxRing, TxRing

(* What E1000 calls held is a window of the buffers.                        *)
LEMMA HeldIs ==
  ASSUME NEW r, NEW n \in Nat \ {0}, DOMAIN r = 0 .. n - 1,
         NEW from \in 0 .. n - 1, NEW to \in 0 .. n - 1
  PROVE  Held(r, from, to, n) = Window(Bufs(r), from, to, n)
<1>1. \A i \in 1 .. Gap(from, to, n) : Bufs(r)[Place(from, i, n)] = r[Place(from, i, n)].buf
  BY Within DEF Bufs
<1> QED
  BY <1>1 DEF Held, Window, Gap, Place

(* To count on by one.                                                      *)
LEMMA CountOn ==
  ASSUME NEW m \in Nat
  PROVE  Append(Count(m), m + 1) = Count(m + 1)
<1>1. Count(m) \in Seq(Nat) /\ Len(Count(m)) = m
  BY DEF Count
<1>2. Count(m + 1) \in Seq(Nat) /\ Len(Count(m + 1)) = m + 1
  BY DEF Count
<1>3. Append(Count(m), m + 1) \in Seq(Nat) /\ Len(Append(Count(m), m + 1)) = m + 1
  BY <1>1
<1>4. \A i \in 1 .. m + 1 : Append(Count(m), m + 1)[i] = Count(m + 1)[i]
  BY <1>1 DEF Count
<1> QED
  BY <1>2, <1>3, <1>4, SameSeq

(* The rings as the card is set up with them.                               *)
LEMMA CardTypesInit == E1000Init => CardTypes
<1> SUFFICES ASSUME E1000Init PROVE CardTypes
  OBVIOUS
<1>1. /\ RxDescs - 1 \in RxRing /\ 0 \in RxRing /\ 0 \in TxRing
      /\ 0 \in 0 .. MaxIn /\ 0 \in 0 .. MaxOut
  BY E1000Assumption DEF RxRing, TxRing
<1>2. /\ rx \in [RxRing -> [dd : BOOLEAN, buf : 0 .. MaxIn]]
      /\ tx \in [TxRing -> [dd : BOOLEAN, buf : 0 .. MaxOut]]
  BY <1>1 DEF E1000Init
<1>3. \A i \in RxRing : ~rx[i].dd
  BY DEF E1000Init
<1>4. /\ {rxCur, rdh, rdt} \subseteq RxRing /\ {txCur, tdh, tdt} \subseteq TxRing
      /\ taken \in 0 .. MaxIn /\ {made, txframe} \subseteq 0 .. MaxOut
  BY <1>1 DEF E1000Init
<1>5. /\ k \in [at : {"out", "deliver", "clear", "advance", "handback",
                      "fill", "slot", "copy", "post"},
                d : RxRing, slot : TxRing, back : {"out", "clear"}]
      /\ k.at = "out" /\ k.back = "out"
  BY <1>1 DEF E1000Init, Out
<1>6. /\ handed \in Seq(1 .. MaxIn) /\ wire \in Seq(0 .. MaxOut)
      /\ irq \in {"low", "high", "runs"} /\ {nested, full} \subseteq BOOLEAN
  <2>1. handed = <<>> /\ wire = <<>> /\ irq = "low" /\ nested = FALSE /\ full = FALSE
    BY DEF E1000Init
  <2>2. handed \in Seq(1 .. MaxIn) /\ wire \in Seq(0 .. MaxOut)
    BY <2>1
  <2> QED
    BY <2>1, <2>2
<1> QED
  BY <1>2, <1>3, <1>4, <1>5, <1>6 DEF CardTypes, E1000TypeOK

(* The card's own steps.                                                    *)
LEMMA CardTypesCard ==
  ASSUME CardTypes, CardTakes \/ CardSends
  PROVE  CardTypes'
<1>1. /\ RxRing = 0 .. RxDescs - 1 /\ TxRing = 0 .. TxDescs - 1
      /\ Round(rdh, RxDescs) \in RxRing /\ Round(tdh, TxDescs) \in TxRing
  BY Cards, Within
<1>2. CASE CardTakes
  <2>1. /\ taken' \in 1 .. MaxIn /\ rx' = [rx EXCEPT ![rdh] = [dd |-> TRUE, buf |-> taken']]
        /\ rdh' = Round(rdh, RxDescs) /\ irq' \in {"low", "high", "runs"}
        /\ UNCHANGED <<rxCur, rdt, handed, txvars, k, nested>>
    <3>1. taken' \in 1 .. MaxIn
      <4>1. taken \in 0 .. MaxIn /\ MaxIn \in Nat
        BY Cards
      <4>2. taken < MaxIn /\ taken' = taken + 1
        BY <1>2 DEF CardTakes
      <4> QED
        BY <4>1, <4>2
    <3> QED
      BY <1>2, <3>1 DEF CardTakes, CardTypes, E1000TypeOK, Round
  <2>2. /\ rx' \in [RxRing -> [dd : BOOLEAN, buf : 0 .. MaxIn]]
        /\ \A i \in RxRing : rx'[i].buf = 0 => rx'[i] = rx[i]
    BY <2>1 DEF CardTypes, E1000TypeOK
  <2>3. taken' \in 0 .. MaxIn
    BY <2>1, Cards
  <2>4. E1000TypeOK'
    <3>1. {rxCur', rdh', rdt'} \subseteq RxRing
      BY <1>1, <2>1 DEF CardTypes, E1000TypeOK
    <3> QED
      BY <2>1, <2>2, <2>3, <3>1 DEF CardTypes, E1000TypeOK, txvars
  <2> QED
    BY <2>1, <2>2, <2>4 DEF CardTypes, txvars
<1>3. CASE CardSends
  <2>1. /\ wire' = Append(wire, tx[tdh].buf) /\ tx' = [tx EXCEPT ![tdh].dd = TRUE]
        /\ tdh' = Round(tdh, TxDescs)
        /\ UNCHANGED <<rxvars, txCur, tdt, txframe, made, full, k, irq, nested>>
    BY <1>3 DEF CardSends, Round
  <2>2. /\ tx' \in [TxRing -> [dd : BOOLEAN, buf : 0 .. MaxOut]]
        /\ tx[tdh].buf \in 0 .. MaxOut
    BY <2>1 DEF CardTypes, E1000TypeOK
  <2>3. wire' \in Seq(0 .. MaxOut)
    BY <2>1, <2>2 DEF CardTypes, E1000TypeOK
  <2>4. E1000TypeOK'
    <3>1. {txCur', tdh', tdt'} \subseteq TxRing
      BY <1>1, <2>1 DEF CardTypes, E1000TypeOK
    <3> QED
      BY <2>1, <2>2, <2>3, <3>1 DEF CardTypes, E1000TypeOK, rxvars
  <2> QED
    BY <2>1, <2>4 DEF CardTypes, rxvars
<1> QED
  BY <1>2, <1>3

(* kmain at the receive ring.                                               *)
LEMMA CardTypesDrain ==
  ASSUME CardTypes, PollTest \/ Hand \/ Clear \/ Advance \/ HandBack
  PROVE  CardTypes'
<1>1. /\ RxRing = 0 .. RxDescs - 1 /\ TxRing = 0 .. TxDescs - 1 /\ 0 \in RxRing /\ 0 \in TxRing
      /\ Round(rxCur, RxDescs) \in RxRing
  <2>1. /\ RxRing = 0 .. RxDescs - 1 /\ TxRing = 0 .. TxDescs - 1
        /\ 0 \in RxRing /\ 0 \in TxRing /\ RxDescs \in Nat \ {0} /\ rxCur \in RxRing
    BY Cards
  <2> QED
    BY <2>1, Within
<1>2. UNCHANGED txvars /\ irq' = irq /\ nested' = nested /\ taken' = taken /\ rdh' = rdh
  BY DEF PollTest, Hand, Clear, Advance, HandBack, rxvars
<1>3. CASE PollTest \/ Advance \/ HandBack
  <2>1. rx' = rx /\ handed' = handed
    BY <1>3 DEF PollTest, Advance, HandBack, rxvars
  <2>2. rxCur' \in RxRing /\ rdt' \in RxRing
    BY <1>1, <1>3 DEF PollTest, Advance, HandBack, rxvars, CardTypes, E1000TypeOK, Round, HandedBack
  <2>3. /\ k' \in [at : {"out", "deliver", "clear", "advance", "handback",
                         "fill", "slot", "copy", "post"},
                   d : RxRing, slot : TxRing, back : {"out", "clear"}]
        /\ k'.at \in {"deliver", "out", "handback"} /\ k'.back # "clear"
        /\ k'.at = "deliver" => rx[k'.d].buf # 0
    <3>1. CASE PollTest
      <4>1. k' = [Out EXCEPT !.at = "deliver", !.d = rxCur] /\ rx[rxCur].dd
        BY <3>1 DEF PollTest
      <4> QED
        BY <1>1, <4>1, Cards DEF CardTypes, Out
    <3>2. CASE Advance
      <4>1. k' = [k EXCEPT !.at = "handback", !.d = rxCur] /\ k.at = "advance"
        BY <3>2 DEF Advance
      <4>2. k.back = "out"
        BY <4>1 DEF CardTypes, E1000TypeOK
      <4> QED
        BY <4>1, <4>2 DEF CardTypes, E1000TypeOK
    <3>3. CASE HandBack
      BY <1>1, <3>3 DEF HandBack, Out
    <3> QED
      BY <1>3, <3>1, <3>2, <3>3
  <2> QED
    BY <1>2, <2>1, <2>2, <2>3 DEF CardTypes, E1000TypeOK, txvars
<1>4. CASE Hand
  <2>1. /\ handed' = Append(handed, rx[k.d].buf) /\ UNCHANGED <<rx, rxCur, rdt>>
        /\ k.at = "deliver" /\ made' = made
        /\ k' = IF rx[k.d].buf \in Asking /\ made < MaxOut
                THEN [k EXCEPT !.at = "fill", !.back = "clear"] ELSE [k EXCEPT !.at = "clear"]
    BY <1>4 DEF Hand, txvars
  <2>2. rx[k.d].buf \in 1 .. MaxIn
    <3>1. k.d \in RxRing /\ MaxIn \in Nat
      BY Cards
    <3>2. rx[k.d].buf \in 0 .. MaxIn
      BY <3>1 DEF CardTypes, E1000TypeOK
    <3>3. rx[k.d].buf # 0
      BY <2>1, <3>1 DEF CardTypes
    <3> QED
      BY <3>1, <3>2, <3>3
  <2>3. handed' \in Seq(1 .. MaxIn)
    BY <2>1, <2>2 DEF CardTypes, E1000TypeOK
  <2>4. /\ k' \in [at : {"out", "deliver", "clear", "advance", "handback",
                         "fill", "slot", "copy", "post"},
                   d : RxRing, slot : TxRing, back : {"out", "clear"}]
        /\ k'.at \in {"fill", "clear"} /\ (k'.at = "fill" => made < MaxOut)
    BY <2>1 DEF CardTypes, E1000TypeOK
  <2> QED
    BY <1>2, <2>1, <2>3, <2>4 DEF CardTypes, E1000TypeOK, txvars
<1>5. CASE Clear
  <2>1. /\ rx' = [rx EXCEPT ![k.d].dd = FALSE] /\ k.at = "clear"
        /\ k' = [k EXCEPT !.at = "advance", !.back = "out"] /\ UNCHANGED <<rxCur, rdt, handed>>
    BY <1>5 DEF Clear
  <2>2. /\ rx' \in [RxRing -> [dd : BOOLEAN, buf : 0 .. MaxIn]]
        /\ \A i \in RxRing : rx'[i].buf = rx[i].buf /\ (rx'[i].dd => rx[i].dd)
    <3>1. rx \in [RxRing -> [dd : BOOLEAN, buf : 0 .. MaxIn]]
      BY DEF CardTypes, E1000TypeOK
    <3> QED
      BY <2>1, <3>1
  <2>3. /\ k' \in [at : {"out", "deliver", "clear", "advance", "handback",
                         "fill", "slot", "copy", "post"},
                   d : RxRing, slot : TxRing, back : {"out", "clear"}]
        /\ k'.at = "advance" /\ k'.back = "out"
    BY <2>1 DEF CardTypes, E1000TypeOK
  <2>4. E1000TypeOK'
    BY <1>2, <2>1, <2>2, <2>3 DEF CardTypes, E1000TypeOK, txvars
  <2> QED
    BY <1>2, <2>1, <2>2, <2>3, <2>4 DEF CardTypes
<1> QED
  BY <1>3, <1>4, <1>5

(* kmain in a send.                                                         *)
LEMMA CardTypesSend ==
  ASSUME CardTypes, SendOwn \/ Fill \/ Slot \/ Copy \/ Post
  PROVE  CardTypes'
<1>1. /\ RxRing = 0 .. RxDescs - 1 /\ TxRing = 0 .. TxDescs - 1 /\ 0 \in RxRing /\ 0 \in TxRing
      /\ Round(k.slot, TxDescs) \in TxRing
  <2>1. /\ RxRing = 0 .. RxDescs - 1 /\ TxRing = 0 .. TxDescs - 1
        /\ 0 \in RxRing /\ 0 \in TxRing /\ TxDescs \in Nat \ {0} /\ k.slot \in TxRing
    BY Cards
  <2> QED
    BY <2>1, Within
<1>2. UNCHANGED rxvars /\ irq' = irq /\ nested' = nested /\ wire' = wire /\ tdh' = tdh
  BY DEF SendOwn, Fill, Slot, Copy, Post, txvars
<1>3. /\ made' \in 0 .. MaxOut /\ txframe' \in 0 .. MaxOut
      /\ txCur' \in TxRing /\ tdt' \in TxRing /\ full' \in BOOLEAN
  <2>1. CASE SendOwn
    BY <2>1 DEF SendOwn, txvars, CardTypes, E1000TypeOK
  <2>2. CASE Fill
    <3>1. made' \in 0 .. MaxOut
      <4>1. made \in 0 .. MaxOut /\ MaxOut \in Nat
        BY Cards
      <4>2. made < MaxOut /\ made' = made + 1
        BY <2>2 DEF Fill, CardTypes
      <4> QED
        BY <4>1, <4>2
    <3> QED
      BY <2>2, <3>1 DEF Fill, CardTypes, E1000TypeOK
  <2>3. CASE Slot
    BY <2>3 DEF Slot, CardTypes, E1000TypeOK
  <2>4. CASE Copy
    BY <2>4 DEF Copy, CardTypes, E1000TypeOK
  <2>5. CASE Post
    BY <1>1, <2>5 DEF Post, PostSlot, Round, CardTypes, E1000TypeOK
  <2> QED
    BY <2>1, <2>2, <2>3, <2>4, <2>5
<1>4. tx' \in [TxRing -> [dd : BOOLEAN, buf : 0 .. MaxOut]]
  <2>1. CASE SendOwn \/ Fill \/ Slot
    BY <2>1 DEF SendOwn, Fill, Slot, txvars, CardTypes, E1000TypeOK
  <2>2. CASE Copy
    BY <2>2 DEF Copy, CardTypes, E1000TypeOK
  <2>3. CASE Post
    <3>1. tx \in [TxRing -> [dd : BOOLEAN, buf : 0 .. MaxOut]]
      BY DEF CardTypes, E1000TypeOK
    <3> QED
      BY <2>3, <3>1 DEF Post
  <2> QED
    BY <2>1, <2>2, <2>3
<1>5. /\ k' \in [at : {"out", "deliver", "clear", "advance", "handback",
                       "fill", "slot", "copy", "post"},
                 d : RxRing, slot : TxRing, back : {"out", "clear"}]
      /\ k'.at \in {"fill", "slot", "copy", "post", "clear", "out"}
      /\ k'.back = "clear" => k'.at \in {"fill", "slot", "copy", "post", "clear"}
      /\ k'.at = "fill" => made' < MaxOut
  <2>1. CASE SendOwn
    BY <1>1, <2>1 DEF SendOwn, Out, txvars, CardTypes, E1000TypeOK
  <2>2. CASE Fill
    BY <2>2 DEF Fill, CardTypes, E1000TypeOK
  <2>3. CASE Slot
    BY <2>3 DEF Slot, CardTypes, E1000TypeOK
  <2>4. CASE Copy
    BY <2>4 DEF Copy, CardTypes, E1000TypeOK
  <2>5. CASE Post
    BY <2>5 DEF Post, CardTypes, E1000TypeOK
  <2> QED
    BY <2>1, <2>2, <2>3, <2>4, <2>5
<1> QED
  BY <1>2, <1>3, <1>4, <1>5 DEF CardTypes, E1000TypeOK, rxvars

(* The handler.                                                             *)
LEMMA CardTypesIsr ==
  ASSUME CardTypes, IsrEnter \/ IsrDrain \/ IsrLeave
  PROVE  CardTypes'
<1>1. /\ RxRing = 0 .. RxDescs - 1 /\ TxRing = 0 .. TxDescs - 1
      /\ Round(rxCur, RxDescs) \in RxRing /\ Round(txCur, TxDescs) \in TxRing
  BY Cards, Within
<1>2. CASE IsrEnter \/ IsrLeave
  BY <1>2 DEF IsrEnter, IsrLeave, rxvars, txvars, CardTypes, E1000TypeOK
<1>3. CASE IsrDrain
  <2>1. /\ rx[rxCur].dd /\ handed' = Append(handed, rx[rxCur].buf)
        /\ rx' = [rx EXCEPT ![rxCur].dd = FALSE] /\ rdt' = rxCur /\ rxCur' = Round(rxCur, RxDescs)
        /\ nested' = (nested \/ k.at # "out") /\ UNCHANGED <<rdh, taken, tdh, wire, k, irq>>
    BY <1>3 DEF IsrDrain, HandedBack, Round
  <2>2. rx[rxCur].buf \in 1 .. MaxIn
    <3>1. rxCur \in RxRing /\ MaxIn \in Nat
      BY Cards
    <3>2. rx[rxCur].buf \in 0 .. MaxIn
      BY <3>1 DEF CardTypes, E1000TypeOK
    <3>3. rx[rxCur].buf # 0
      BY <2>1, <3>1 DEF CardTypes
    <3> QED
      BY <3>1, <3>2, <3>3
  <2>3. handed' \in Seq(1 .. MaxIn)
    BY <2>1, <2>2 DEF CardTypes, E1000TypeOK
  <2>4. /\ rx' \in [RxRing -> [dd : BOOLEAN, buf : 0 .. MaxIn]]
        /\ \A i \in RxRing : rx'[i].buf = rx[i].buf /\ (rx'[i].dd => rx[i].dd)
    BY <2>1 DEF CardTypes, E1000TypeOK
  <2>5. /\ made' \in 0 .. MaxOut /\ txframe' \in 0 .. MaxOut
        /\ txCur' \in TxRing /\ tdt' \in TxRing /\ full' \in BOOLEAN
        /\ tx' \in [TxRing -> [dd : BOOLEAN, buf : 0 .. MaxOut]]
        /\ k.at = "fill" => made' < MaxOut
    <3>1. CASE rx[rxCur].buf \in Asking /\ IsrMaySend
      <4>1. /\ made' = made + 1 /\ txframe' = made' /\ txCur' = Round(txCur, TxDescs)
            /\ tx' = [tx EXCEPT ![txCur] = [dd |-> FALSE, buf |-> made']]
            /\ tdt' = txCur' /\ full' \in BOOLEAN
        BY <1>3, <3>1 DEF IsrDrain, PostSlot, Round, CardTypes, E1000TypeOK
      <4>2. made' \in 0 .. MaxOut /\ (k.at = "fill" => made' < MaxOut)
        <5>1. made \in 0 .. MaxOut /\ MaxOut \in Nat
          BY Cards
        <5>2. made < (IF k.at = "fill" THEN MaxOut - 1 ELSE MaxOut) /\ made' = made + 1
          BY <3>1, <4>1 DEF IsrMaySend
        <5> QED
          BY <5>1, <5>2
      <4>3. tx' \in [TxRing -> [dd : BOOLEAN, buf : 0 .. MaxOut]]
        BY <4>1, <4>2 DEF CardTypes, E1000TypeOK
      <4> QED
        BY <1>1, <4>1, <4>2, <4>3
    <3>2. CASE ~(rx[rxCur].buf \in Asking /\ IsrMaySend)
      BY <1>3, <3>2 DEF IsrDrain, CardTypes, E1000TypeOK
    <3> QED
      BY <3>1, <3>2
  <2>6. E1000TypeOK'
    <3>1. {rxCur', rdh', rdt'} \subseteq RxRing /\ {txCur', tdh', tdt'} \subseteq TxRing
      BY <1>1, <2>1, <2>5 DEF CardTypes, E1000TypeOK
    <3>2. {made', txframe'} \subseteq 0 .. MaxOut /\ {nested', full'} \subseteq BOOLEAN
      BY <2>1, <2>5 DEF CardTypes, E1000TypeOK
    <3> QED
      BY <2>1, <2>3, <2>4, <2>5, <3>1, <3>2 DEF CardTypes, E1000TypeOK
  <2>7. \A i \in RxRing : rx'[i].dd => rx'[i].buf # 0
    BY <2>4 DEF CardTypes
  <2>8. k'.at = "deliver" => rx'[k'.d].buf # 0
    <3>1. k.d \in RxRing /\ k' = k
      BY <2>1, Cards
    <3> QED
      BY <2>4, <3>1 DEF CardTypes
  <2>9. /\ k'.at = "fill" => made' < MaxOut
        /\ k'.back = "clear" => k'.at \in {"fill", "slot", "copy", "post", "clear"}
    BY <2>1, <2>5 DEF CardTypes
  <2> QED
    BY <2>6, <2>7, <2>8, <2>9 DEF CardTypes
<1> QED
  BY <1>2, <1>3

(* So every step keeps the types.                                           *)
LEMMA CardTypesStep ==
  ASSUME CardTypes, [E1000Next]_e1000vars
  PROVE  CardTypes'
<1>1. CASE UNCHANGED e1000vars \/ PollNothing
  BY <1>1 DEF PollNothing, e1000vars, rxvars, txvars, CardTypes, E1000TypeOK
<1> QED
  BY <1>1, CardTypesCard, CardTypesDrain, CardTypesSend, CardTypesIsr DEF E1000Next

(* What is in a range that grows at its end.                                *)
LEMMA Grown ==
  ASSUME NEW n \in Nat \ {0}, NEW b \in 0 .. n - 1, NEW h \in 0 .. n - 1,
         NEW i \in 0 .. n - 1, Round(h, n) # b
  PROVE  Gap(b, i, n) < Gap(b, Round(h, n), n) <=> i = h \/ Gap(b, i, n) < Gap(b, h, n)
<1>1. Gap(b, Round(h, n), n) = Gap(b, h, n) + 1
  BY Gaps
<1>2. Gap(b, i, n) \in 0 .. n - 1 /\ Gap(b, h, n) \in 0 .. n - 1
  BY Gaps
<1>3. i # h => Gap(b, i, n) # Gap(b, h, n)
  BY GapsDiffer
<1> QED
  BY <1>1, <1>2, <1>3

(* One that shrinks at its front.                                           *)
LEMMA Shrunk ==
  ASSUME NEW n \in Nat \ {0}, NEW b \in 0 .. n - 1, NEW h \in 0 .. n - 1,
         NEW i \in 0 .. n - 1, h # b
  PROVE  Gap(Round(b, n), i, n) < Gap(Round(b, n), h, n)
           <=> i # b /\ Gap(b, i, n) < Gap(b, h, n)
<1>1. Gap(Round(b, n), h, n) = Gap(b, h, n) - 1
  BY Gaps
<1>2. Gap(Round(b, n), i, n) = IF i = b THEN n - 1 ELSE Gap(b, i, n) - 1
  BY Gaps
<1>3. Gap(b, i, n) \in 0 .. n - 1 /\ Gap(b, h, n) \in 0 .. n - 1
  BY Gaps
<1> QED
  BY <1>1, <1>2, <1>3

(* The receive ring as the lemmas on rings need it.                         *)
LEMMA RxPlaces ==
  ASSUME CardTypes, RxOK
  PROVE  /\ RxDescs \in Nat \ {0} /\ RxRing = 0 .. RxDescs - 1
         /\ rxCur \in 0 .. RxDescs - 1 /\ rdh \in 0 .. RxDescs - 1
         /\ rdt \in 0 .. RxDescs - 1 /\ RxBase \in 0 .. RxDescs - 1
         /\ First \in 0 .. RxDescs - 1
         /\ First = RxBase \/ (First = Round(RxBase, RxDescs) /\ rdh # RxBase)
         /\ RingOf(Bufs(rx), RxDescs, Nat) /\ handed \in Seq(Nat) /\ taken \in Nat
<1>1. /\ RxDescs \in Nat \ {0} /\ RxRing = 0 .. RxDescs - 1
      /\ rxCur \in RxRing /\ rdh \in RxRing /\ rdt \in RxRing /\ k.d \in RxRing
      /\ RingOf(Bufs(rx), RxDescs, Nat) /\ handed \in Seq(Nat)
      /\ taken \in 0 .. MaxIn /\ MaxIn \in Nat
  BY Cards
<1>2. RxBase \in RxRing
  BY <1>1 DEF RxBase
<1>3. Round(rxCur, RxDescs) \in 0 .. RxDescs - 1
  BY <1>1, Within
<1>4. First \in 0 .. RxDescs - 1
  BY <1>1, <1>3 DEF First
<1>5. First = RxBase \/ (First = Round(RxBase, RxDescs) /\ rdh # RxBase)
  BY DEF First, RxBase, Given, Busy, RxOK, CardTypes
<1> QED
  BY <1>1, <1>2, <1>4, <1>5

(* Steps that leave the receive ring alone, and where kmain is at it.       *)
LEMMA RxStays ==
  ASSUME RxOK, UNCHANGED rxvars, Busy => k'.d = k.d, (k'.at = "handback") = (k.at = "handback"),
         (k'.at = "advance") = (k.at = "advance"), Busy' = Busy, Given' = Given
  PROVE  RxOK'
<1>1. k.at \in {"advance", "handback"} => k'.d = k.d
  BY DEF Busy
<1>2. RxBase' = RxBase /\ First' = First
  BY <1>1 DEF RxBase, First, rxvars
<1> QED
  BY <1>1, <1>2 DEF RxOK, rxvars

(* The card fills the descriptor at its head.                               *)
LEMMA TakesRx ==
  ASSUME CardTypes, RxOK, CardTakes
  PROVE  RxOK'
<1>1. /\ rdh # rdt /\ taken' = taken + 1 /\ rdh' = Round(rdh, RxDescs)
      /\ rx' = [rx EXCEPT ![rdh] = [dd |-> TRUE, buf |-> taken']]
      /\ rxCur' = rxCur /\ rdt' = rdt /\ handed' = handed /\ k' = k
  BY DEF CardTakes, Round
<1>2. /\ RxDescs \in Nat \ {0} /\ RxRing = 0 .. RxDescs - 1
      /\ rxCur \in 0 .. RxDescs - 1 /\ rdh \in 0 .. RxDescs - 1
      /\ rdt \in 0 .. RxDescs - 1 /\ RxBase \in 0 .. RxDescs - 1
      /\ First \in 0 .. RxDescs - 1
      /\ First = RxBase \/ (First = Round(RxBase, RxDescs) /\ rdh # RxBase)
      /\ RingOf(Bufs(rx), RxDescs, Nat) /\ handed \in Seq(Nat) /\ taken \in Nat
  BY RxPlaces
<1>3. RxBase' = RxBase /\ First' = First /\ Busy' = Busy
  BY <1>1 DEF RxBase, First, Busy, Given
<1>4. Round(rdh, RxDescs) # RxBase
  BY <1>1, <1>2, RoundsDiffer DEF RxOK
<1>5. Round(rdh, RxDescs) # First
  BY <1>2, <1>4, RoundsDiffer
<1>6. /\ rx \in [RxRing -> [dd : BOOLEAN, buf : 0 .. MaxIn]]
      /\ rx'[rdh].dd = TRUE /\ rx'[rdh].buf = taken + 1
      /\ DOMAIN rx' = RxRing /\ \A i \in RxRing \ {rdh} : rx'[i] = rx[i]
  BY <1>1, <1>2 DEF CardTypes, E1000TypeOK
<1>7. handed \o Window(Bufs(rx'), First, Round(rdh, RxDescs), RxDescs) = Count(taken + 1)
  <2> DEFINE w == Window(Bufs(rx), First, rdh, RxDescs)
  <2>1. Agree(Bufs(rx'), Bufs(rx), RxDescs, rdh) /\ Bufs(rx')[rdh] = taken + 1
    BY <1>2, <1>6 DEF Agree, Bufs
  <2>2. Ends(Bufs(rx'), Bufs(rx), First, rdh, RxDescs, taken + 1)
    BY <1>2, <1>5, <2>1, Pushed
  <2>3. Window(Bufs(rx'), First, Round(rdh, RxDescs), RxDescs) = Append(w, taken + 1)
    BY <2>2 DEF Ends
  <2>4. Shows(w, Gap(First, rdh, RxDescs), Bufs(rx), First, RxDescs, Nat)
    BY <1>2, Windows
  <2>5. w \in Seq(Nat)
    BY <2>4 DEF Shows
  <2>6. handed \o w = Count(taken)
    BY DEF RxOK
  <2> HIDE DEF w
  <2>7. Append(handed \o w, taken + 1) = handed \o Append(w, taken + 1)
    <3>1. handed \in Seq(Nat) /\ taken + 1 \in Nat
      BY <1>2
    <3>2. EndsBoth(handed, w, taken + 1)
      BY <2>5, <3>1, AppendLast
    <3> QED
      BY <3>2 DEF EndsBoth
  <2> QED
    BY <1>2, <2>3, <2>6, <2>7, CountOn
<1>8. ASSUME NEW i \in RxRing
      PROVE  rx'[i].dd <=> /\ Gap(RxBase, i, RxDescs) < Gap(RxBase, Round(rdh, RxDescs), RxDescs)
                           /\ ~(k.at \in {"advance", "handback"} /\ i = k.d)
  <2>1. Gap(RxBase, i, RxDescs) < Gap(RxBase, Round(rdh, RxDescs), RxDescs)
          <=> i = rdh \/ Gap(RxBase, i, RxDescs) < Gap(RxBase, rdh, RxDescs)
    BY <1>2, <1>4, Grown
  <2>2. k.at \in {"advance", "handback"} => k.d # rdh
    BY DEF RxOK, Busy, RxBase
  <2>3. rx[i].dd <=> /\ Gap(RxBase, i, RxDescs) < Gap(RxBase, rdh, RxDescs)
                     /\ ~(k.at \in {"advance", "handback"} /\ i = k.d)
    BY DEF RxOK
  <2> QED
    BY <1>6, <2>1, <2>2, <2>3
<1> QED
  BY <1>1, <1>2, <1>3, <1>4, <1>7, <1>8 DEF RxOK

(* kmain finds a frame.                                                     *)
LEMMA PollRx ==
  ASSUME CardTypes, RxOK, PollTest
  PROVE  RxOK'
<1>1. /\ k.at = "out" /\ rx[rxCur].dd /\ k' = [Out EXCEPT !.at = "deliver", !.d = rxCur]
      /\ UNCHANGED rxvars
  BY DEF PollTest
<1>2. k'.at = "deliver" /\ k'.d = rxCur /\ k'.back = "out" /\ k.back # "clear"
  BY <1>1 DEF Out, CardTypes
<1>3. ~Given /\ ~Given' /\ RxBase = rxCur /\ RxBase' = rxCur /\ First' = First
  BY <1>1, <1>2 DEF Given, RxBase, First, rxvars
<1>4. rdh # rxCur
  <2>1. Gap(rxCur, rxCur, RxDescs) < Gap(rxCur, rdh, RxDescs)
    BY <1>1, <1>3, RxPlaces DEF RxOK
  <2>2. Gap(rxCur, rxCur, RxDescs) \in Nat
    BY RxPlaces, Gaps
  <2> QED
    BY <2>1, <2>2
<1> QED
  BY <1>1, <1>2, <1>3, <1>4 DEF RxOK, rxvars

(* It gives the frame to the stack.                                         *)
LEMMA HandRx ==
  ASSUME CardTypes, RxOK, Hand
  PROVE  RxOK'
<1>1. /\ k.at = "deliver" /\ handed' = Append(handed, rx[k.d].buf)
      /\ UNCHANGED <<rx, rxCur, rdh, rdt, taken>>
      /\ k' = IF rx[k.d].buf \in Asking /\ made < MaxOut
              THEN [k EXCEPT !.at = "fill", !.back = "clear"] ELSE [k EXCEPT !.at = "clear"]
  BY DEF Hand
<1>2. k'.at \in {"fill", "clear"} /\ k'.d = k.d /\ Given' /\ ~Given /\ Busy /\ Busy'
  BY <1>1 DEF CardTypes, E1000TypeOK, Given, Busy
<1>3. k.d = rxCur /\ rdh # rxCur /\ RxBase = rxCur /\ RxBase' = rxCur /\ First = rxCur
      /\ First' = Round(rxCur, RxDescs)
  BY <1>1, <1>2 DEF RxOK, RxBase, First
<1>4. handed' \o Window(Bufs(rx), Round(rxCur, RxDescs), rdh, RxDescs) = Count(taken)
  <2>1. Passes(handed, Bufs(rx), rxCur, rdh, RxDescs)
    BY <1>3, RxPlaces, Popped
  <2>2. Bufs(rx)[rxCur] = rx[rxCur].buf
    BY RxPlaces DEF Bufs, CardTypes, E1000TypeOK
  <2> QED
    BY <1>1, <1>3, <2>1, <2>2 DEF Passes, RxOK
<1> QED
  BY <1>1, <1>2, <1>3, <1>4 DEF RxOK

(* The descriptor at the front is given back to the card: what is true of   *)
(* the statuses behind it.                                                  *)
LEMMA DescriptorBack ==
  ASSUME CardTypes, RxOK, rdh # RxBase, ~rx'[RxBase].dd,
         \A i \in RxRing \ {RxBase} : rx'[i].dd = rx[i].dd,
         k.at \in {"advance", "handback"} => k.d = RxBase, NEW i \in RxRing
  PROVE  rx'[i].dd <=> Gap(Round(RxBase, RxDescs), i, RxDescs)
                         < Gap(Round(RxBase, RxDescs), rdh, RxDescs)
<1>1. Gap(Round(RxBase, RxDescs), i, RxDescs) < Gap(Round(RxBase, RxDescs), rdh, RxDescs)
        <=> i # RxBase /\ Gap(RxBase, i, RxDescs) < Gap(RxBase, rdh, RxDescs)
  BY RxPlaces, Shrunk
<1>2. rx[i].dd <=> /\ Gap(RxBase, i, RxDescs) < Gap(RxBase, rdh, RxDescs)
                   /\ ~(k.at \in {"advance", "handback"} /\ i = k.d)
  BY DEF RxOK
<1> QED
  BY <1>1, <1>2

(* It clears the status of the descriptor.                                  *)
LEMMA ClearRx ==
  ASSUME CardTypes, RxOK, Clear
  PROVE  RxOK'
<1>1. /\ k.at = "clear" /\ rx' = [rx EXCEPT ![k.d].dd = FALSE]
      /\ k' = [k EXCEPT !.at = "advance", !.back = "out"]
      /\ UNCHANGED <<rxCur, rdh, rdt, handed, taken>>
  BY DEF Clear
<1>2. k'.at = "advance" /\ k'.d = k.d /\ Given' /\ Given /\ Busy /\ Busy'
  BY <1>1 DEF CardTypes, E1000TypeOK, Given, Busy
<1>3. k.d = rxCur /\ RxBase = rxCur /\ RxBase' = rxCur /\ First' = First
  BY <1>1, <1>2 DEF RxOK, RxBase, First
<1>4. /\ Bufs(rx') = Bufs(rx) /\ ~rx'[k.d].dd
      /\ \A i \in RxRing \ {k.d} : rx'[i].dd = rx[i].dd
  <2>1. rx \in [RxRing -> [dd : BOOLEAN, buf : 0 .. MaxIn]] /\ k.d \in RxRing
    BY DEF CardTypes, E1000TypeOK
  <2>2. DOMAIN rx' = DOMAIN rx /\ \A i \in DOMAIN rx : rx'[i].buf = rx[i].buf
    BY <1>1, <2>1
  <2>3. Bufs(rx') = Bufs(rx)
    BY <2>2 DEF Bufs
  <2> QED
    BY <1>1, <2>1, <2>3
<1>5. \A i \in RxRing : rx[i].dd <=> Gap(rxCur, i, RxDescs) < Gap(rxCur, rdh, RxDescs)
  BY <1>1, <1>3 DEF RxOK
<1>6. \A i \in RxRing : rx'[i].dd <=> /\ Gap(rxCur, i, RxDescs) < Gap(rxCur, rdh, RxDescs)
                                      /\ ~(k'.at \in {"advance", "handback"} /\ i = k'.d)
  BY <1>2, <1>3, <1>4, <1>5
<1> QED
  BY <1>1, <1>2, <1>3, <1>4, <1>6 DEF RxOK

(* It goes on to the next one.                                              *)
LEMMA AdvanceRx ==
  ASSUME CardTypes, RxOK, Advance
  PROVE  RxOK'
<1>1. /\ k.at = "advance" /\ rxCur' = Round(rxCur, RxDescs)
      /\ k' = [k EXCEPT !.at = "handback", !.d = rxCur]
      /\ UNCHANGED <<rx, rdh, rdt, handed, taken>>
  BY DEF Advance, Round
<1>2. k'.at = "handback" /\ k'.d = rxCur /\ ~Given' /\ Given /\ Busy /\ Busy'
  BY <1>1 DEF CardTypes, E1000TypeOK, Given, Busy
<1>3. k.d = rxCur /\ RxBase = rxCur /\ RxBase' = rxCur /\ First' = First
  BY <1>1, <1>2 DEF RxOK, RxBase, First
<1> QED
  BY <1>1, <1>2, <1>3 DEF RxOK

(* It gives the descriptor back to the card.                                *)
LEMMA HandBackRx ==
  ASSUME CardTypes, RxOK, HandBack
  PROVE  RxOK'
<1>1. /\ k.at = "handback" /\ rdt' = k.d /\ k' = Out
      /\ UNCHANGED <<rx, rxCur, rdh, handed, taken>>
  BY DEF HandBack, HandedBack
<1>2. k'.at = "out" /\ ~Given' /\ ~Given /\ Busy /\ ~Busy'
  BY <1>1 DEF CardTypes, Out, Given, Busy
<1>3. RxBase = k.d /\ rdh # k.d /\ rxCur = Round(k.d, RxDescs) /\ RxBase' = rxCur /\ First' = First
  BY <1>1, <1>2 DEF RxOK, RxBase, First
<1>4. ~rx[k.d].dd
  BY <1>1, Cards DEF RxOK
<1>5. \A i \in RxRing : rx'[i].dd <=> Gap(rxCur, i, RxDescs) < Gap(rxCur, rdh, RxDescs)
  BY <1>1, <1>3, <1>4, DescriptorBack
<1> QED
  BY <1>1, <1>2, <1>3, <1>5 DEF RxOK

(* The handler does it all at once, kmain being elsewhere.                  *)
LEMMA DrainRx ==
  ASSUME CardTypes, RxOK, IsrDrain, k.at = "out"
  PROVE  RxOK'
<1>1. /\ rx[rxCur].dd /\ handed' = Append(handed, rx[rxCur].buf)
      /\ rx' = [rx EXCEPT ![rxCur].dd = FALSE] /\ rdt' = rxCur /\ rxCur' = Round(rxCur, RxDescs)
      /\ UNCHANGED <<rdh, taken, k>>
  BY DEF IsrDrain, HandedBack, Round
<1>2. ~Given' /\ ~Given /\ ~Busy /\ ~Busy'
  BY <1>1 DEF CardTypes, Given, Busy
<1>3. RxBase = rxCur /\ First = rxCur /\ RxBase' = rxCur' /\ First' = rxCur'
  BY <1>1, <1>2 DEF RxBase, First
<1>4. rdh # rxCur
  <2>1. Gap(rxCur, rxCur, RxDescs) < Gap(rxCur, rdh, RxDescs)
    BY <1>1, <1>3, RxPlaces DEF RxOK
  <2>2. Gap(rxCur, rxCur, RxDescs) \in 0 .. RxDescs - 1
    BY RxPlaces, Gaps
  <2> QED
    BY <2>1, <2>2
<1>5. /\ Bufs(rx') = Bufs(rx) /\ ~rx'[rxCur].dd
      /\ \A i \in RxRing \ {rxCur} : rx'[i].dd = rx[i].dd
  <2>1. rx \in [RxRing -> [dd : BOOLEAN, buf : 0 .. MaxIn]] /\ rxCur \in RxRing
    BY DEF CardTypes, E1000TypeOK
  <2>2. DOMAIN rx' = DOMAIN rx /\ \A i \in DOMAIN rx : rx'[i].buf = rx[i].buf
    BY <1>1, <2>1
  <2> QED
    BY <1>1, <2>1, <2>2 DEF Bufs
<1>6. \A i \in RxRing : rx'[i].dd <=> Gap(rxCur', i, RxDescs) < Gap(rxCur', rdh, RxDescs)
  BY <1>1, <1>3, <1>4, <1>5, DescriptorBack
<1>7. handed' \o Window(Bufs(rx), rxCur', rdh, RxDescs) = Count(taken)
  <2>1. Passes(handed, Bufs(rx), rxCur, rdh, RxDescs)
    BY <1>4, RxPlaces, Popped
  <2>2. Bufs(rx)[rxCur] = rx[rxCur].buf
    BY RxPlaces DEF Bufs, CardTypes, E1000TypeOK
  <2> QED
    BY <1>1, <1>3, <2>1, <2>2 DEF Passes, RxOK
<1> QED
  BY <1>1, <1>2, <1>3, <1>5, <1>6, <1>7 DEF RxOK

(* Sending does not disturb the receive ring.                               *)
LEMMA SendRx ==
  ASSUME CardTypes, RxOK, CardSends \/ SendOwn \/ Fill \/ Slot \/ Copy \/ Post
                          \/ IsrEnter \/ IsrLeave
  PROVE  RxOK'
<1>1. UNCHANGED rxvars
  BY DEF CardSends, SendOwn, Fill, Slot, Copy, Post, IsrEnter, IsrLeave
<1>2. CASE CardSends \/ IsrEnter \/ IsrLeave
  <2>1. k' = k
    BY <1>2 DEF CardSends, IsrEnter, IsrLeave
  <2> QED
    BY <1>1, <2>1, RxStays DEF Busy, Given
<1>3. CASE SendOwn
  <2>1. k.at = "out" /\ k' = [Out EXCEPT !.at = "fill"] /\ k.back # "clear"
    BY <1>3 DEF SendOwn, CardTypes
  <2>2. ~Busy /\ ~Busy' /\ ~Given /\ ~Given' /\ k'.at = "fill"
    BY <2>1 DEF Busy, Given, Out
  <2>3. (k'.at = "handback") = (k.at = "handback") /\ (k'.at = "advance") = (k.at = "advance")
    BY <2>1, <2>2
  <2>4. Busy' = Busy /\ Given' = Given
    BY <2>2 DEF Busy, Given
  <2> QED
    BY <1>1, <2>2, <2>3, <2>4, RxStays
<1>4. CASE Fill \/ Slot \/ Copy
  <2>1. /\ k.at \in {"fill", "slot", "copy"} /\ k'.at \in {"slot", "copy", "post"}
        /\ k'.d = k.d /\ k'.back = k.back
    BY <1>4 DEF Fill, Slot, Copy, CardTypes, E1000TypeOK
  <2> QED
    BY <1>1, <2>1, RxStays DEF Busy, Given
<1>5. CASE Post
  <2>1. k.at = "post" /\ k'.at = k.back /\ k'.d = k.d /\ k'.back = k.back
        /\ k.back \in {"out", "clear"}
    BY <1>5 DEF Post, CardTypes, E1000TypeOK
  <2> QED
    BY <1>1, <2>1, RxStays DEF Busy, Given
<1> QED
  BY <1>2, <1>3, <1>4, <1>5

(* Steps that leave the transmit ring alone.                                *)
LEMMA TxStays ==
  ASSUME TxOK, UNCHANGED <<tx, txCur, tdh, tdt, txframe, wire, made>>,
         k' = k \/ (k.at \notin {"slot", "copy", "post"} /\ k'.at \notin {"slot", "copy", "post"})
  PROVE  TxOK'
BY DEF TxOK

(* The card sends what is at its head.                                      *)
LEMMA SendTx ==
  ASSUME CardTypes, TxOK, CardSends
  PROVE  TxOK'
<1>1. /\ tdh # tdt /\ wire' = Append(wire, tx[tdh].buf)
      /\ tx' = [tx EXCEPT ![tdh].dd = TRUE] /\ tdh' = Round(tdh, TxDescs)
      /\ UNCHANGED <<txCur, tdt, txframe, made, k>>
  BY DEF CardSends, Round
<1>2. /\ TxDescs \in Nat \ {0} /\ TxRing = 0 .. TxDescs - 1 /\ tdh \in 0 .. TxDescs - 1
      /\ tdt \in 0 .. TxDescs - 1 /\ RingOf(Bufs(tx), TxDescs, Nat) /\ wire \in Seq(Nat)
      /\ k.slot \in TxRing
  BY Cards
<1>3. /\ Bufs(tx') = Bufs(tx) /\ tx'[tdh].dd /\ Bufs(tx)[tdh] = tx[tdh].buf
      /\ \A i \in TxRing : tx'[i].buf = tx[i].buf
      /\ \A i \in TxRing \ {tdh} : tx'[i].dd = tx[i].dd
  <2>1. tx \in [TxRing -> [dd : BOOLEAN, buf : 0 .. MaxOut]]
    BY DEF CardTypes, E1000TypeOK
  <2>2. DOMAIN tx' = DOMAIN tx /\ \A i \in DOMAIN tx : tx'[i].buf = tx[i].buf
    BY <1>1, <2>1
  <2> QED
    BY <1>1, <1>2, <2>1, <2>2 DEF Bufs
<1>4. wire \o Window(Bufs(tx), tdh, tdt, TxDescs)
        = wire' \o Window(Bufs(tx'), tdh', tdt, TxDescs)
  <2>1. Passes(wire, Bufs(tx), tdh, tdt, TxDescs)
    BY <1>1, <1>2, Popped
  <2> QED
    BY <1>1, <1>3, <2>1 DEF Passes
<1>5. ASSUME NEW i \in TxRing
      PROVE  ~tx'[i].dd <=> Gap(tdh', i, TxDescs) < Gap(tdh', tdt, TxDescs)
  <2>1. Gap(Round(tdh, TxDescs), i, TxDescs) < Gap(Round(tdh, TxDescs), tdt, TxDescs)
          <=> i # tdh /\ Gap(tdh, i, TxDescs) < Gap(tdh, tdt, TxDescs)
    BY <1>1, <1>2, Shrunk
  <2>2. ~tx[i].dd <=> Gap(tdh, i, TxDescs) < Gap(tdh, tdt, TxDescs)
    BY DEF TxOK
  <2> QED
    BY <1>1, <1>3, <2>1, <2>2
<1>6. k.at = "post" => tx'[k.slot].buf = made
  BY <1>2, <1>3 DEF TxOK
<1> QED
  BY <1>1, <1>4, <1>5, <1>6 DEF TxOK

(* A descriptor goes to the card, whoever posts it.                         *)
LEMMA Posted ==
  ASSUME CardTypes, TxOK, UNCHANGED <<tdh, wire>>, PostSlot(txCur), ~full',
         NEW v \in Nat, DOMAIN tx' = TxRing, tx'[txCur].buf = v, ~tx'[txCur].dd,
         \A i \in TxRing \ {txCur} : tx'[i] = tx[i],
         wire \o Window(Bufs(tx), tdh, tdt, TxDescs) = Count(v - 1), v # 0
  PROVE  /\ tdt' = txCur'
         /\ \A i \in TxRing : ~tx'[i].dd <=> Gap(tdh, i, TxDescs) < Gap(tdh, tdt', TxDescs)
         /\ wire \o Window(Bufs(tx'), tdh, tdt', TxDescs) = Count(v)
<1>1. /\ TxDescs \in Nat \ {0} /\ TxRing = 0 .. TxDescs - 1 /\ tdh \in 0 .. TxDescs - 1
      /\ tdt \in 0 .. TxDescs - 1 /\ RingOf(Bufs(tx), TxDescs, Nat) /\ wire \in Seq(Nat)
      /\ tx \in [TxRing -> [dd : BOOLEAN, buf : 0 .. MaxOut]]
  BY Cards DEF CardTypes, E1000TypeOK
<1>2. /\ tdt = txCur /\ txCur' = Round(tdt, TxDescs) /\ tdt' = txCur'
      /\ Round(tdt, TxDescs) # tdh
  BY DEF PostSlot, Round, TxOK
<1>3. Agree(Bufs(tx'), Bufs(tx), TxDescs, tdt) /\ Bufs(tx')[tdt] = v
  BY <1>1, <1>2 DEF Agree, Bufs
<1>4. wire \o Window(Bufs(tx'), tdh, Round(tdt, TxDescs), TxDescs) = Count(v)
  <2> DEFINE w == Window(Bufs(tx), tdh, tdt, TxDescs)
  <2>1. Ends(Bufs(tx'), Bufs(tx), tdh, tdt, TxDescs, v)
    BY <1>1, <1>2, <1>3, Pushed
  <2>2. Window(Bufs(tx'), tdh, Round(tdt, TxDescs), TxDescs) = Append(w, v)
    BY <2>1 DEF Ends
  <2>3. Shows(w, Gap(tdh, tdt, TxDescs), Bufs(tx), tdh, TxDescs, Nat)
    BY <1>1, Windows
  <2>4. w \in Seq(Nat)
    BY <2>3 DEF Shows
  <2>5. wire \o w = Count(v - 1)
    OBVIOUS
  <2> HIDE DEF w
  <2>6. EndsBoth(wire, w, v)
    BY <1>1, <2>4, AppendLast
  <2>7. Append(Count(v - 1), v) = Count(v)
    <3> DEFINE m == v - 1
    <3>1. m \in Nat /\ m + 1 = v
      OBVIOUS
    <3> HIDE DEF m
    <3>2. Append(Count(m), m + 1) = Count(m + 1)
      BY <3>1, CountOn
    <3> QED
      BY <3>1, <3>2 DEF m
  <2> QED
    BY <2>2, <2>5, <2>6, <2>7 DEF EndsBoth
<1>5. ASSUME NEW i \in TxRing
      PROVE  ~tx'[i].dd <=> Gap(tdh, i, TxDescs) < Gap(tdh, Round(tdt, TxDescs), TxDescs)
  <2>1. Gap(tdh, i, TxDescs) < Gap(tdh, Round(tdt, TxDescs), TxDescs)
          <=> i = tdt \/ Gap(tdh, i, TxDescs) < Gap(tdh, tdt, TxDescs)
    BY <1>1, <1>2, Grown
  <2>2. ~tx[i].dd <=> Gap(tdh, i, TxDescs) < Gap(tdh, tdt, TxDescs)
    BY DEF TxOK
  <2> QED
    BY <1>2, <2>1, <2>2
<1> QED
  BY <1>2, <1>4, <1>5

(* kmain puts a frame together, finds its slot and copies the frame there.  *)
LEMMA CopyTx ==
  ASSUME CardTypes, TxOK, SendOwn \/ Fill \/ Slot \/ Copy
  PROVE  TxOK'
<1>1. UNCHANGED <<txCur, tdh, tdt, wire>>
  BY DEF SendOwn, Fill, Slot, Copy, txvars
<1>2. CASE SendOwn
  BY <1>2, TxStays DEF SendOwn, Out, txvars
<1>3. CASE Fill
  <2>1. /\ k.at = "fill" /\ k'.at = "slot" /\ made' = made + 1 /\ txframe' = made' /\ tx' = tx
    BY <1>3 DEF Fill, CardTypes, E1000TypeOK
  <2>2. made' - 1 = made /\ made' # 0
    <3>1. made \in 0 .. MaxOut /\ MaxOut \in Nat
      BY Cards
    <3> QED
      BY <2>1, <3>1
  <2> QED
    BY <1>1, <2>1, <2>2 DEF TxOK
<1>4. CASE Slot
  <2>1. k.at = "slot" /\ k'.at = "copy" /\ k'.slot = txCur /\ UNCHANGED <<tx, txframe, made>>
    BY <1>4 DEF Slot, CardTypes, E1000TypeOK
  <2> QED
    BY <1>1, <2>1 DEF TxOK
<1>5. CASE Copy
  <2>1. /\ k.at = "copy" /\ k'.at = "post" /\ k'.slot = k.slot /\ UNCHANGED <<txframe, made>>
        /\ tx' = [tx EXCEPT ![k.slot].buf = txframe]
    BY <1>5 DEF Copy, CardTypes, E1000TypeOK
  <2>2. k.slot = tdt /\ txframe = made
    BY <2>1 DEF TxOK
  <2>3. /\ TxDescs \in Nat \ {0} /\ TxRing = 0 .. TxDescs - 1
        /\ tdh \in 0 .. TxDescs - 1 /\ tdt \in 0 .. TxDescs - 1
        /\ tx \in [TxRing -> [dd : BOOLEAN, buf : 0 .. MaxOut]]
    BY Cards DEF CardTypes, E1000TypeOK
  <2>4. /\ tx'[k.slot].buf = made /\ \A i \in TxRing : tx'[i].dd = tx[i].dd
        /\ Agree(Bufs(tx'), Bufs(tx), TxDescs, tdt)
    BY <2>1, <2>2, <2>3 DEF Agree, Bufs
  <2>5. Window(Bufs(tx'), tdh, tdt, TxDescs) = Window(Bufs(tx), tdh, tdt, TxDescs)
    BY <2>3, <2>4, OtherSlots
  <2> QED
    BY <1>1, <2>1, <2>2, <2>4, <2>5 DEF TxOK
<1> QED
  BY <1>2, <1>3, <1>4, <1>5

(* kmain gives the frame it copied to the card.                             *)
LEMMA PostTx ==
  ASSUME CardTypes, TxOK, Post, ~full'
  PROVE  TxOK'
<1>1. /\ k.at = "post" /\ PostSlot(k.slot) /\ tx' = [tx EXCEPT ![k.slot].dd = FALSE]
      /\ k'.at = k.back /\ k.back \in {"out", "clear"} /\ UNCHANGED <<tdh, wire, made>>
  BY DEF Post, CardTypes, E1000TypeOK
<1>2. k.slot = txCur /\ made # 0 /\ tx[txCur].buf = made
  BY <1>1 DEF TxOK
<1>3. /\ DOMAIN tx' = TxRing /\ tx'[txCur].buf = made /\ ~tx'[txCur].dd
      /\ \A i \in TxRing \ {txCur} : tx'[i] = tx[i]
  BY <1>1, <1>2, Cards DEF CardTypes, E1000TypeOK
<1>4. made \in Nat
  BY Cards
<1>5. wire \o Window(Bufs(tx), tdh, tdt, TxDescs) = Count(made - 1)
  BY <1>1 DEF TxOK
<1>6. /\ tdt' = txCur'
      /\ \A i \in TxRing : ~tx'[i].dd <=> Gap(tdh, i, TxDescs) < Gap(tdh, tdt', TxDescs)
      /\ wire \o Window(Bufs(tx'), tdh, tdt', TxDescs) = Count(made)
  BY <1>1, <1>2, <1>3, <1>4, <1>5, Posted
<1> QED
  BY <1>1, <1>6 DEF TxOK

(* The handler answers while kmain is elsewhere.                            *)
LEMMA DrainTx ==
  ASSUME CardTypes, TxOK, IsrDrain, k.at = "out", ~full'
  PROVE  TxOK'
<1>1. k' = k /\ UNCHANGED <<tdh, wire>>
  BY DEF IsrDrain
<1>2. CASE rx[rxCur].buf \in Asking /\ IsrMaySend
  <2>1. /\ made' = made + 1 /\ PostSlot(txCur)
        /\ tx' = [tx EXCEPT ![txCur] = [dd |-> FALSE, buf |-> made']]
    BY <1>2 DEF IsrDrain
  <2> DEFINE v == made + 1
  <2>2. v \in Nat /\ v # 0 /\ v - 1 = made
    <3>1. made \in 0 .. MaxOut /\ MaxOut \in Nat
      BY Cards
    <3> QED
      BY <3>1
  <2>3. /\ DOMAIN tx' = TxRing /\ tx'[txCur].buf = v /\ ~tx'[txCur].dd
        /\ \A i \in TxRing \ {txCur} : tx'[i] = tx[i]
    BY <2>1, Cards DEF CardTypes, E1000TypeOK
  <2>4. made' = v
    BY <2>1
  <2> HIDE DEF v
  <2>5. wire \o Window(Bufs(tx), tdh, tdt, TxDescs) = Count(v - 1)
    BY <2>2 DEF TxOK
  <2>6. /\ tdt' = txCur'
        /\ \A i \in TxRing : ~tx'[i].dd <=> Gap(tdh, i, TxDescs) < Gap(tdh, tdt', TxDescs)
        /\ wire \o Window(Bufs(tx'), tdh, tdt', TxDescs) = Count(v)
    BY <1>1, <2>1, <2>2, <2>3, <2>5, Posted
  <2> QED
    BY <1>1, <2>4, <2>6 DEF TxOK
<1>3. CASE ~(rx[rxCur].buf \in Asking /\ IsrMaySend)
  BY <1>1, <1>3, TxStays DEF IsrDrain
<1> QED
  BY <1>2, <1>3

(* kmain at the receive ring, and the handler coming and going.             *)
LEMMA OtherTx ==
  ASSUME CardTypes, TxOK,
         CardTakes \/ PollTest \/ Hand \/ Clear \/ Advance \/ HandBack \/ IsrEnter \/ IsrLeave
  PROVE  TxOK'
<1>1. UNCHANGED <<tx, txCur, tdh, tdt, txframe, wire, made>>
  BY DEF CardTakes, PollTest, Hand, Clear, Advance, HandBack, IsrEnter, IsrLeave, txvars
<1>2. CASE CardTakes \/ IsrEnter \/ IsrLeave
  BY <1>1, <1>2, TxStays DEF CardTakes, IsrEnter, IsrLeave
<1>3. CASE PollTest \/ Hand \/ Clear \/ Advance \/ HandBack
  <2>1. k.at \in {"out", "deliver", "clear", "advance", "handback"}
    BY <1>3 DEF PollTest, Hand, Clear, Advance, HandBack
  <2>2. k'.at \in {"deliver", "fill", "clear", "advance", "handback", "out"}
    <3>1. CASE PollTest
      BY <3>1 DEF PollTest, Out
    <3>2. CASE HandBack
      BY <3>2 DEF HandBack, Out
    <3>3. CASE Hand
      BY <3>3 DEF Hand, CardTypes, E1000TypeOK
    <3>4. CASE Clear \/ Advance
      BY <3>4 DEF Clear, Advance, CardTypes, E1000TypeOK
    <3> QED
      BY <1>3, <3>1, <3>2, <3>3, <3>4
  <2> QED
    BY <1>1, <2>1, <2>2, TxStays
<1> QED
  BY <1>2, <1>3

(* The inductive invariant when the card has been set up.                   *)
LEMMA CardInitInv == E1000Init => CardInv
<1> SUFFICES ASSUME E1000Init PROVE CardInv
  OBVIOUS
<1>1. CardTypes
  BY CardTypesInit
<1>2. /\ RxDescs \in Nat \ {0, 1} /\ TxDescs \in Nat \ {0} /\ 0 \in 0 .. RxDescs - 1
      /\ 0 \in 0 .. TxDescs - 1 /\ RxDescs - 1 \in 0 .. RxDescs - 1
  BY E1000Assumption
<1>3. Count(0) = <<>>
  BY DEF Count
<1>4. RxOK
  <2>1. ~Busy /\ ~Given /\ RxBase = 0 /\ First = 0 /\ k.at = "out"
    BY DEF E1000Init, Out, Busy, Given, RxBase, First
  <2>2. Round(RxDescs - 1, RxDescs) = 0
    BY <1>2, RoundIs
  <2>3. Gap(0, 0, RxDescs) = 0 /\ \A i \in RxRing : Gap(0, i, RxDescs) \in Nat
    BY <1>2, Gaps DEF RxRing
  <2>4. handed \o Window(Bufs(rx), 0, 0, RxDescs) = <<>>
    BY <2>3 DEF E1000Init, Window
  <2>5. \A i \in RxRing : ~rx[i].dd
    BY DEF E1000Init
  <2>6. \A i \in RxRing : ~(Gap(0, i, RxDescs) < Gap(0, 0, RxDescs))
    BY <2>3
  <2> QED
    BY <1>3, <2>1, <2>2, <2>4, <2>5, <2>6 DEF RxOK, E1000Init
<1>5. TxOK
  <2>1. Gap(0, 0, TxDescs) = 0 /\ \A i \in TxRing : Gap(0, i, TxDescs) \in Nat
    BY <1>2, Gaps DEF TxRing
  <2>2. wire \o Window(Bufs(tx), 0, 0, TxDescs) = <<>>
    BY <2>1 DEF E1000Init, Window
  <2>3. \A i \in TxRing : tx[i].dd
    BY DEF E1000Init
  <2>4. \A i \in TxRing : ~(Gap(0, i, TxDescs) < Gap(0, 0, TxDescs))
    BY <2>1
  <2> QED
    BY <1>3, <2>2, <2>3, <2>4 DEF TxOK, E1000Init, Out
<1> QED
  BY <1>1, <1>4, <1>5 DEF CardInv

(* Each step keeps it.                                                      *)
LEMMA CardStepInv ==
  ASSUME CardInv, E1000Next
  PROVE  CardInv'
<1>1. CardTypes /\ CardTypes'
  BY CardTypesStep DEF CardInv
<1>2. CASE PollNothing
  <2>1. UNCHANGED e1000vars
    BY <1>2 DEF PollNothing
  <2> QED
    BY <1>1, <2>1 DEF CardInv, RxOK, TxOK, Busy, Given, RxBase, First, e1000vars, rxvars, txvars
<1>3. CASE IsrDrain
  <2>1. SUFFICES ASSUME ~nested' PROVE RxOK' /\ (~full' => TxOK')
    BY <1>1 DEF CardInv
  <2>2. ~nested /\ k.at = "out" /\ (full => full')
    BY <1>3, <2>1 DEF IsrDrain, PostSlot
  <2> QED
    BY <1>1, <1>3, <2>2, DrainRx, DrainTx DEF CardInv
<1>4. CASE CardTakes \/ PollTest \/ Hand \/ Clear \/ Advance \/ HandBack
  <2>1. nested' = nested /\ full' = full
    BY <1>4 DEF CardTakes, PollTest, Hand, Clear, Advance, HandBack, txvars
  <2> QED
    BY <1>1, <1>4, <2>1, TakesRx, PollRx, HandRx, ClearRx, AdvanceRx, HandBackRx, OtherTx
       DEF CardInv
<1>5. CASE CardSends \/ SendOwn \/ Fill \/ Slot \/ Copy \/ Post \/ IsrEnter \/ IsrLeave
  <2>1. nested' = nested
    BY <1>5 DEF CardSends, SendOwn, Fill, Slot, Copy, Post, IsrEnter, IsrLeave
  <2>2. full => full'
    <3>1. CASE Post
      BY <3>1 DEF Post, PostSlot
    <3>2. CASE Slot
      BY <3>2 DEF Slot
    <3>3. CASE CardSends \/ SendOwn \/ Fill \/ Copy \/ IsrEnter \/ IsrLeave
      BY <3>3 DEF CardSends, SendOwn, Fill, Copy, IsrEnter, IsrLeave, txvars
    <3> QED
      BY <1>5, <3>1, <3>2, <3>3
  <2> QED
    BY <1>1, <1>5, <2>1, <2>2, SendRx, SendTx, CopyTx, PostTx, OtherTx DEF CardInv
<1> QED
  BY <1>2, <1>3, <1>4, <1>5 DEF E1000Next

(* e1000.c, eth.c: the registers stay inside of the rings and kmain where   *)
(* its steps lead, for any sizes of the two and whatever is answered.       *)
THEOREM E1000Types == E1000Spec => []E1000TypeOK
<1>1. E1000Init => CardTypes
  BY CardTypesInit
<1>2. CardTypes /\ [E1000Next]_e1000vars => CardTypes'
  BY CardTypesStep
<1>3. CardTypes => E1000TypeOK
  BY DEF CardTypes
<1> QED
  BY <1>1, <1>2, <1>3, PTL DEF E1000Spec

(* rx_drain, e1000_send: as long as the handler drains nothing while kmain  *)
(* is at the rings, every frame taken comes up once and in order, and every *)
(* frame put together goes out so, unless the ring was full, for any sizes. *)
THEOREM FramesComeOnce == E1000Spec => []FramesOnce
<1>1. E1000Init => CardInv
  BY CardInitInv
<1>2. CardInv /\ [E1000Next]_e1000vars => CardInv'
  <2>1. ASSUME CardInv, UNCHANGED e1000vars PROVE CardInv'
    <3>1. CardTypes'
      BY <2>1, CardTypesStep DEF CardInv
    <3> QED
      BY <2>1, <3>1 DEF CardInv, RxOK, TxOK, Busy, Given, RxBase, First, e1000vars, rxvars, txvars
  <2> QED
    BY <2>1, CardStepInv
<1>3. CardInv => FramesOnce
  <2> SUFFICES ASSUME CardInv, ~nested
               PROVE  /\ handed \o Unread = Count(taken)
                      /\ ~full => wire \o Held(tx, tdh, tdt, TxDescs)
                           = Count(IF k.at \in {"slot", "copy", "post"} THEN made - 1 ELSE made)
    BY DEF FramesOnce, Count
  <2>1. CardTypes /\ RxOK /\ (~full => TxOK)
    BY DEF CardInv
  <2>2. Unread = Window(Bufs(rx), First, rdh, RxDescs)
    <3>1. Unread = Held(rx, First, rdh, RxDescs)
      BY DEF Unread, First, Given, Round
    <3>2. DOMAIN rx = 0 .. RxDescs - 1
      BY <2>1 DEF CardTypes, E1000TypeOK, RxRing
    <3> QED
      BY <2>1, <3>1, <3>2, RxPlaces, HeldIs
  <2>3. Held(tx, tdh, tdt, TxDescs) = Window(Bufs(tx), tdh, tdt, TxDescs)
    <3>1. DOMAIN tx = 0 .. TxDescs - 1
      BY <2>1 DEF CardTypes, E1000TypeOK, TxRing
    <3>2. TxDescs \in Nat \ {0} /\ tdh \in 0 .. TxDescs - 1 /\ tdt \in 0 .. TxDescs - 1
      BY <2>1, Cards
    <3> QED
      BY <3>1, <3>2, HeldIs
  <2> QED
    BY <2>1, <2>2, <2>3 DEF RxOK, TxOK
<1> QED
  BY <1>1, <1>2, <1>3, PTL DEF E1000Spec
=============================================================================
