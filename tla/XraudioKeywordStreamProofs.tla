--------------------- MODULE XraudioKeywordStreamProofs ---------------------
(***************************************************************************)
(* The ring buffer and the places where a stream reads it, the channel     *)
(* whose keyword the detector reports, and what the streams deliver, for   *)
(* every capacity, frame length and number of channels.                    *)
(***************************************************************************)
EXTENDS XraudioKeywordStream, WellFoundedInduction, TLAPS

Cells == 0 .. RingQty - 1
Rings == [Cells -> Nat \cup {Lost}]

\* The counters of the ring move in whole frames, and never past its end.
Whole(n) == \E k \in 0 .. RingFrames : n = k * FrameQty
\* A ring of which some samples have been converted in place.
Worn(a, b) == \A i \in Cells : b[i] \in {a[i], Lost}

-----------------------------------------------------------------------------
(* Arithmetic of whole frames.                                             *)

\* The sizes of a frame and of the ring are positive.
LEMMA Sizes == FrameQty \in Nat \ {0} /\ RingFrames \in Nat \ {0} /\ RingQty \in Nat \ {0}
<1>1. FrameQty \in Nat \ {0} /\ RingFrames \in Nat \ {0}
  BY SizesAssumption
<1>2. \A a, b \in Nat \ {0} : a * b \in Nat \ {0}
  OBVIOUS
<1> QED
  BY <1>1, <1>2 DEF RingQty

\* A ring that is not full, or not at its end, has room for one more frame.
LEMMA WholeStep ==
    ASSUME NEW n \in Nat, Whole(n), n < RingQty
    PROVE  n + FrameQty <= RingQty /\ Whole(n + FrameQty)
<1>1. PICK k \in 0 .. RingFrames : n = k * FrameQty
  BY DEF Whole
<1>2. FrameQty \in Nat \ {0} /\ RingFrames \in Nat \ {0}
  BY Sizes
<1>3. k < RingFrames
  <2>1. CASE k = RingFrames
    BY <1>1, <2>1 DEF RingQty
  <2> QED
    BY <2>1, <1>2
<1>4. (k + 1) * FrameQty = n + FrameQty
  BY <1>1, <1>2
<1>5. \A a, b, c \in Nat : a <= b => a * c <= b * c
  OBVIOUS
<1>6. (k + 1) * FrameQty <= RingFrames * FrameQty
  BY <1>2, <1>3, <1>5
<1> QED
  BY <1>2, <1>3, <1>4, <1>6 DEF Whole, RingQty

-----------------------------------------------------------------------------
(* The channel the loop takes last is one of them.                         *)

\* The loop over some channels ends with one of them.
LEMMA LastIsOne ==
    ASSUME NEW cs \in SUBSET Chans, cs # {}
    PROVE  LastOf(cs) \in cs
<1> DEFINE back == {n \in Nat : ChanQty - 1 - n \in cs}
<1>1. ChanQty \in Nat \ {0}
  BY SizesAssumption
<1>2. back # {} /\ back \subseteq Nat
  <2>1. PICK c \in cs : TRUE
    OBVIOUS
  <2>2. ChanQty - 1 - c \in Nat /\ ChanQty - 1 - (ChanQty - 1 - c) = c
    BY <1>1 DEF Chans
  <2> QED
    BY <2>1, <2>2
<1>3. PICK n \in back : \A m \in back : <<m, n>> \notin OpToRel(<, Nat)
  <2> HIDE DEF back
  <2> QED
    BY <1>2, NatLessThanWellFounded, WFMin
<1>4. n \in Nat /\ ChanQty - 1 - n \in cs
  OBVIOUS
<1>5. ASSUME NEW e \in cs PROVE e <= ChanQty - 1 - n
  <2> DEFINE m == ChanQty - 1 - e
  <2>1. m \in Nat /\ ChanQty - 1 - m = e /\ e \in Int
    BY <1>1 DEF Chans
  <2>2. m \in back
    BY <2>1
  <2>3. <<m, n>> \notin OpToRel(<, Nat)
    BY <1>3, <2>2
  <2>4. OpToRel(<, Nat) = {ss \in Nat \X Nat : ss[1] < ss[2]}
    BY DEF OpToRel
  <2>5. ~(m < n)
    <3> HIDE DEF m
    <3>1. ASSUME m < n PROVE <<m, n>> \in {ss \in Nat \X Nat : ss[1] < ss[2]}
      BY <1>4, <2>1, <3>1
    <3> QED
      BY <2>3, <2>4, <3>1
  <2> QED
    BY <1>1, <1>4, <2>1, <2>5
<1> QED
  BY <1>4, <1>5 DEF LastOf

\* Some channel is as sure as every other: the least bound of a set of channels
\* that has no such channel cannot be.
LEMMA SomeBest ==
    ASSUME NEW f \in [Nat -> Nat], NEW N \in Nat, NEW cs \in SUBSET (0 .. N), cs # {}
    PROVE  \E c \in cs : \A e \in cs : f[e] <= f[c]
<1> DEFINE Best(s) == \E c \in s : \A e \in s : f[e] <= f[c]
           Bad == {k \in Nat : \E s \in SUBSET (0 .. k) : s # {} /\ ~Best(s)}
<1>1. SUFFICES ASSUME Bad # {} PROVE FALSE
  BY DEF Best
<1>2. PICK k \in Bad : \A j \in Bad : <<j, k>> \notin OpToRel(<, Nat)
  <2> HIDE DEF Bad
  <2>1. Bad \subseteq Nat
    BY DEF Bad
  <2> QED
    BY <1>1, <2>1, NatLessThanWellFounded, WFMin
<1>3. PICK s \in SUBSET (0 .. k) : s # {} /\ ~Best(s)
  BY <1>2
<1>4. k - 1 \notin Bad
  <2>1. OpToRel(<, Nat) = {ss \in Nat \X Nat : ss[1] < ss[2]}
    BY DEF OpToRel
  <2>2. k \in Nat
    OBVIOUS
  <2> HIDE DEF Bad
  <2>3. ASSUME k - 1 \in Nat
        PROVE  <<k - 1, k>> \in {ss \in Nat \X Nat : ss[1] < ss[2]}
    BY <2>2, <2>3
  <2>4. k - 1 \in Bad => k - 1 \in Nat
    BY DEF Bad
  <2> QED
    BY <1>2, <2>1, <2>3, <2>4
<1>5. s \ {k} # {}
  <2>1. ASSUME s \ {k} = {} PROVE FALSE
    <3>1. s = {k} /\ k \in Nat
      BY <1>3, <2>1
    <3>2. f[k] <= f[k]
      BY <3>1
    <3> QED
      BY <1>3, <3>1, <3>2
  <2> QED
    BY <2>1
<1>6. s \ {k} \in SUBSET (0 .. k - 1) /\ k - 1 \in Nat
  <2>1. \A e \in s \ {k} : e \in 0 .. k - 1
    BY <1>3
  <2>2. PICK e \in s \ {k} : TRUE
    BY <1>5
  <2>3. k \in Nat /\ e \in 0 .. k - 1
    BY <2>1
  <2> QED
    BY <2>1, <2>3
<1>7. Best(s \ {k})
  <2> HIDE DEF Best
  <2> QED
    BY <1>4, <1>5, <1>6
<1>8. PICK c \in s \ {k} : \A e \in s \ {k} : f[e] <= f[c]
  BY <1>7
<1>9. k \in Nat /\ c \in Nat /\ (\A e \in s : e \in Nat)
  BY <1>3
<1>10. CASE f[k] <= f[c]
  BY <1>3, <1>8, <1>10
<1>11. CASE f[c] < f[k]
  <2>1. \A e \in s : f[e] <= f[k]
    BY <1>8, <1>9, <1>11
  <2>2. k \in s
    BY <1>3, <1>8, <1>10
  <2> QED
    BY <1>3, <2>1, <2>2
<1> QED
  BY <1>9, <1>10, <1>11

-----------------------------------------------------------------------------
(* The invariant.                                                          *)

ChanType == [triggered : BOOLEAN, post : Nat, begin : Int, score : Nat, at : Int]
DetType == [active : BOOLEAN, armed : BOOLEAN, triggered : BOOLEAN, ch : [Chans -> ChanType],
            chosen : Chans \cup {None}, begin : Int, end : Int, postTrigger : Nat,
            postCallback : Nat]
InstType == [on : BOOLEAN, dest : {"none", "pipe", "user"}, until : {"none", "stream", "speech"},
             qty : Nat \ {0}, pre : Nat]

RingShape == now \in Nat /\ ring \in Rings /\ Whole(avail) /\ Whole(write) /\ write < RingQty
DetOK(d)  == d \in DetType /\ (d.triggered => d.chosen \in Chans)
DetShape  == DetOK(det) /\ (~det.active => avail = 0)
InstShape == inst \in [Groups -> InstType] /\ \A g \in Groups : inst[g].pre <= avail
KeywordInv == RingShape /\ RingHoldsNewest /\ DetShape /\ InstShape /\ idx \in Nat

\* Counters in whole frames are inside the ring.
LEMMA WholeBounds == ASSUME NEW n, Whole(n) PROVE n \in 0 .. RingQty
<1>1. PICK k \in 0 .. RingFrames : n = k * FrameQty
  BY DEF Whole
<1>2. \A a, b, c \in Nat : a <= b => a * c <= b * c
  OBVIOUS
<1>3. \A a, b \in Nat : a * b \in Nat
  OBVIOUS
<1>4. FrameQty \in Nat /\ RingFrames \in Nat
  BY Sizes
<1> QED
  BY <1>1, <1>2, <1>3, <1>4 DEF RingQty

\* The invariant implies the types of XraudioKeywordStream.
LEMMA InvTypes == KeywordInv => TypeOK
BY Sizes, WholeBounds DEF KeywordInv, RingShape, DetShape, DetOK, InstShape, TypeOK, Rings, Cells,
   DetType, InstType

\* At the start the ring is empty and the detector inactive.
LEMMA InvInit == Init => KeywordInv
<1> SUFFICES ASSUME Init PROVE KeywordInv
  OBVIOUS
<1>1. Whole(0)
  BY Sizes DEF Whole
<1>2. RingShape
  BY <1>1, Sizes DEF Init, RingShape, Rings, Cells
<1>3. RingHoldsNewest
  BY DEF Init, RingHoldsNewest
<1>4. DetShape
  BY DEF Init, DetShape, DetOK, DetType, ChanType, NoChan
<1>5. InstShape
  BY DEF Init, InstShape, InstType, NoInst
<1> QED
  BY <1>2, <1>3, <1>4, <1>5 DEF Init, KeywordInv

-----------------------------------------------------------------------------
(* Reading: the chunks are the newest samples, oldest first.               *)

\* The operator that finds the chunks, against where the samples are (Place).
LEMMA ChunksAreNewest ==
    ASSUME RingShape, RingHoldsNewest, NEW n \in 0 .. avail, NEW i \in 1 .. n
    PROVE  Chunks(ring, n)[i] = ring[Place(n - i + 1)]
<1>1. avail \in 0 .. RingQty /\ write \in 0 .. RingQty /\ RingQty \in Nat
  BY WholeBounds, Sizes DEF RingShape
<1>2. avail < RingQty => write = avail
  BY DEF RingHoldsNewest
<1>3. Chunks(ring, n)[i] = IF i <= ChunkQty(n) THEN ring[ChunkBegin(n) + i - 1]
                           ELSE ring[i - ChunkQty(n) - 1]
  BY DEF Chunks
<1>4. CASE n <= write
  BY <1>1, <1>2, <1>3, <1>4 DEF ChunkBegin, ChunkQty, Place
<1>5. CASE write < n
  <2>1. avail = RingQty
    BY <1>1, <1>2, <1>5
  <2>2. ChunkBegin(n) = write - n + RingQty /\ ChunkQty(n) = n - write
    BY <1>1, <1>5, <2>1 DEF ChunkBegin, ChunkQty
  <2> QED
    BY <1>1, <1>3, <1>5, <2>2 DEF Place
<1> QED
  BY <1>1, <1>4, <1>5

\* The stream that begins in the past is given the last samples read, unless
\* some were converted.
LEMMA StreamBegins ==
    ASSUME RingShape, RingHoldsNewest, NEW n \in 0 .. avail, NEW i \in 1 .. n
    PROVE  Chunks(ring, n)[i] \in {now - n + i - 1, Lost}
<1>1. avail \in 0 .. RingQty /\ RingQty \in Nat /\ now \in Nat
  BY WholeBounds, Sizes DEF RingShape
<1>2. n - i + 1 \in 1 .. avail /\ now - (n - i + 1) = now - n + i - 1
  BY <1>1
<1>3. ring[Place(n - i + 1)] \in {now - (n - i + 1), Lost}
  BY <1>2 DEF RingHoldsNewest
<1> QED
  BY <1>2, <1>3, ChunksAreNewest

-----------------------------------------------------------------------------
(* Writing: one more frame, in a ring whose old samples may be worn.       *)

\* A frame written over the oldest samples leaves the newest ones in order.
LEMMA FrameKeepsRing ==
    ASSUME RingShape, RingHoldsNewest, NEW rg \in Rings, Worn(ring, rg),
           now' = now + FrameQty, ring' = RingWith(rg, now), avail' = AvailAfter,
           write' = WriteAfter
    PROVE  RingShape' /\ RingHoldsNewest' /\ avail <= avail'
<1>1. avail \in 0 .. RingQty /\ write \in 0 .. RingQty - 1 /\ RingQty \in Nat
      /\ FrameQty \in Nat \ {0} /\ now \in Nat
  BY WholeBounds, Sizes DEF RingShape
<1>2. write + FrameQty <= RingQty /\ Whole(write + FrameQty)
  BY <1>1, WholeStep DEF RingShape
<1>3. avail < RingQty => avail + FrameQty <= RingQty /\ Whole(avail + FrameQty)
  BY <1>1, WholeStep DEF RingShape
<1>4. Whole(0)
  BY Sizes DEF Whole
<1>5. /\ Whole(avail') /\ avail' \in 0 .. RingQty /\ avail <= avail' /\ avail' <= avail + FrameQty
      /\ avail < RingQty => avail' = avail + FrameQty
      /\ avail = RingQty => avail' = RingQty
  BY <1>1, <1>3 DEF RingShape, AvailAfter
<1>6. /\ Whole(write') /\ write' \in 0 .. RingQty - 1
      /\ write' = IF write + FrameQty = RingQty THEN 0 ELSE write + FrameQty
  BY <1>1, <1>2, <1>4 DEF WriteAfter
<1>7. ring' \in Rings
  BY <1>1 DEF RingWith, Rings, Cells
<1>8. \A i \in Cells : ring'[i] = IF write <= i /\ i < write + FrameQty
                                  THEN now + (i - write) ELSE rg[i]
  BY DEF RingWith, Cells
<1>9. ASSUME NEW n \in 1 .. avail' PROVE ring'[Place(n)'] \in {now' - n, Lost}
  <2>1. Place(n)' = IF n <= write' THEN write' - n ELSE write' - n + RingQty
    BY DEF Place, RingQty
  <2>2. CASE n <= FrameQty
    <3>1. Place(n)' = write + FrameQty - n
      BY <1>1, <1>2, <1>5, <1>6, <2>1, <2>2
    <3>2. Place(n)' \in Cells /\ write <= Place(n)' /\ Place(n)' < write + FrameQty
      BY <1>1, <1>2, <2>2, <3>1 DEF Cells
    <3> QED
      BY <1>1, <1>8, <3>1, <3>2
  <2>3. CASE FrameQty < n
    <3> DEFINE m == n - FrameQty
    <3>1. m \in 1 .. avail
      BY <1>1, <1>5, <2>3
    <3>2. ring[Place(m)] \in {now - m, Lost}
      BY <3>1 DEF RingHoldsNewest
    <3>3. Place(n)' = Place(m)
      BY <1>1, <1>2, <1>5, <1>6, <2>1, <2>3, <3>1 DEF Place
    <3>4. Place(m) \in Cells /\ ~(write <= Place(m) /\ Place(m) < write + FrameQty)
      BY <1>1, <1>2, <1>5, <2>3, <3>1 DEF Place, Cells
    <3>5. now - m = now' - n
      BY <1>1
    <3>6. ring'[Place(n)'] = rg[Place(m)]
      BY <1>8, <3>3, <3>4
    <3>7. rg[Place(m)] \in {ring[Place(m)], Lost}
      BY <3>4 DEF Worn
    <3> QED
      BY <3>2, <3>5, <3>6, <3>7
  <2> QED
    BY <1>1, <2>2, <2>3
<1>10. avail' < RingQty => write' = avail'
  BY <1>1, <1>3, <1>5, <1>6 DEF RingHoldsNewest
<1>11. RingQty' = RingQty
  BY DEF RingQty
<1>12. RingShape'
  <2>1. Whole(avail)' /\ Whole(write)'
    BY <1>5, <1>6 DEF Whole
  <2>2. now' \in Nat /\ write' < RingQty
    BY <1>1, <1>6
  <2>3. Rings' = Rings
    BY DEF Rings, Cells, RingQty
  <2> QED
    BY <1>7, <1>11, <2>1, <2>2, <2>3 DEF RingShape
<1>13. RingHoldsNewest'
  BY <1>9, <1>10, <1>11 DEF RingHoldsNewest
<1> QED
  BY <1>5, <1>12, <1>13

\* A ring that is only worn still holds the newest samples.
LEMMA WearKeepsRing ==
    ASSUME RingShape, RingHoldsNewest, ring' \in Rings, Worn(ring, ring'),
           UNCHANGED <<now, avail, write>>
    PROVE  RingShape' /\ RingHoldsNewest'
<1>1. avail \in 0 .. RingQty /\ write \in 0 .. RingQty - 1 /\ RingQty \in Nat
  BY WholeBounds, Sizes DEF RingShape
<1>2. ASSUME NEW n \in 1 .. avail PROVE ring'[Place(n)] \in {now - n, Lost}
  <2>1. Place(n) \in Cells
    BY <1>1 DEF Place, Cells, RingHoldsNewest
  <2>2. ring[Place(n)] \in {now - n, Lost}
    BY DEF RingHoldsNewest
  <2> QED
    BY <2>1, <2>2 DEF Worn
<1>3. RingShape'
  BY DEF RingShape, Rings, Cells, RingQty, Whole
<1>4. RingHoldsNewest'
  BY <1>2 DEF RingHoldsNewest, Place, RingQty
<1> QED
  BY <1>3, <1>4

-----------------------------------------------------------------------------
(* The writers wear the ring and use up what is left to be taken from it.  *)

StateShape(st) ==
    /\ st = [ring |-> st.ring, inst |-> st.inst, strm |-> st.strm]
    /\ st.ring \in Rings /\ st.inst \in [Groups -> InstType]
\* What a writer, or several, may do to the state.
Served(a, b) ==
    /\ StateShape(b) /\ Worn(a.ring, b.ring)
    /\ \A g \in Groups : b.inst[g].pre <= a.inst[g].pre

\* What two steps of serving do is again a serving.
LEMMA ServedTwice ==
    ASSUME NEW a, NEW b, NEW c, StateShape(a), Served(a, b), Served(b, c)
    PROVE  Served(a, c)
BY DEF Served, StateShape, Worn, InstType

\* To serve nobody is a serving.
LEMMA ServedNothing == ASSUME NEW a, StateShape(a) PROVE Served(a, a)
BY DEF Served, StateShape, Worn, InstType

\* A conversion in place only wears samples out.
LEMMA ConvertedWears ==
    ASSUME NEW rg \in Rings, NEW n
    PROVE  Converted(rg, n) \in Rings /\ Worn(rg, Converted(rg, n))
BY DEF Converted, Rings, Cells, Worn, Lost

\* One group that is given one frame.
LEMMA ServeServes ==
    ASSUME NEW st, StateShape(st), NEW g \in Groups, NEW k, NEW m
    PROVE  Served(st, Serve(st, g, k, m))
<1> DEFINE i == st.inst[g]
           rg == IF Pre(i) > 0 THEN Converted(st.ring, Pre(i)) ELSE st.ring
           in == [st.inst EXCEPT ![g].pre = @ - Pre(i)]
           sm == [st.strm EXCEPT ![g].out = @ \o Chunks(st.ring, Pre(i)) \o Live(i, k, m)]
<1>1. CASE ~i.on \/ i.dest = "none"
  <2>1. Serve(st, g, k, m) = st
    BY <1>1 DEF Serve
  <2> QED
    BY <2>1, ServedNothing
<1>2. CASE ~(~i.on \/ i.dest = "none")
  <2>1. Serve(st, g, k, m) = [ring |-> rg, inst |-> in, strm |-> sm]
    BY <1>2 DEF Serve
  <2>2. rg \in Rings /\ Worn(st.ring, rg)
    BY ConvertedWears DEF StateShape, Worn
  <2>3. in \in [Groups -> InstType] /\ \A h \in Groups : in[h].pre <= st.inst[h].pre
    BY DEF StateShape, InstType, Pre
  <2> QED
    BY <2>1, <2>2, <2>3 DEF Served, StateShape
<1> QED
  BY <1>1, <1>2

\* One group that is given all its frames.
LEMMA FlushServes ==
    ASSUME NEW st, StateShape(st), NEW g \in Groups, NEW k, NEW m
    PROVE  Served(st, Flush(st, g, k, m))
<1> DEFINE s1 == IF g = "tap" THEN st ELSE [st EXCEPT !.inst[g].qty = 1]
<1>1. Served(st, s1)
  <2>1. CASE g = "tap"
    BY <2>1, ServedNothing
  <2>2. CASE g # "tap"
    <3>1. s1 = [ring |-> st.ring, inst |-> [st.inst EXCEPT ![g].qty = 1], strm |-> st.strm]
      BY <2>2 DEF StateShape
    <3>2. /\ s1.inst \in [Groups -> InstType]
          /\ \A h \in Groups : s1.inst[h].pre <= st.inst[h].pre
      BY <3>1 DEF StateShape, InstType
    <3> QED
      BY <3>1, <3>2 DEF Served, StateShape, Worn
  <2> QED
    BY <2>1, <2>2
<1>2. Served(s1, Serve(s1, g, k, m))
  BY <1>1, ServeServes DEF Served
<1> QED
  BY <1>1, <1>2, ServedTwice DEF Flush

\* The end of speech, which gives every group its frames.
LEMMA EndServes ==
    ASSUME NEW st, StateShape(st), NEW k, NEW n
    PROVE  Served(st, SpeechEnds(st, k, n))
<1> DEFINE s1 == Flush(st, "default", k, n)
           s2 == SpeechEnds(st, k, n)
<1>1. "default" \in Groups /\ Served(st, s1)
  BY FlushServes DEF Groups
<1>2. /\ s2.ring = s1.ring
      /\ s2.inst = [s1.inst EXCEPT !["default"].until = "none",
                                   !["default"].dest = IF @ = "pipe" THEN "none" ELSE @]
      /\ s2 = [ring |-> s2.ring, inst |-> s2.inst, strm |-> s2.strm]
  <2>1. s1 = [ring |-> s1.ring, inst |-> s1.inst, strm |-> s1.strm]
    BY <1>1 DEF Served, StateShape
  <2>2. s2 = [s1 EXCEPT !.inst = [s1.inst EXCEPT !["default"].until = "none",
                                      !["default"].dest = IF @ = "pipe" THEN "none" ELSE @],
                        !.strm["default"] = UpTo(@, n)]
    BY DEF SpeechEnds
  <2> QED
    BY <2>1, <2>2
<1>3. s2.inst \in [Groups -> InstType] /\ \A g \in Groups : s2.inst[g].pre = s1.inst[g].pre
  BY <1>1, <1>2 DEF Served, StateShape, InstType
<1>4. Served(s1, s2)
  <2>1. s1.ring \in Rings /\ s2.ring = s1.ring
    BY <1>1, <1>2 DEF Served, StateShape
  <2>2. StateShape(s2)
    BY <1>2, <1>3, <2>1 DEF StateShape
  <2>3. Worn(s1.ring, s2.ring)
    BY <2>1 DEF Worn
  <2>4. \A g \in Groups : s2.inst[g].pre <= s1.inst[g].pre
    <3>1. \A g \in Groups : s1.inst[g].pre \in Nat
      BY <1>1 DEF Served, StateShape, InstType
    <3> QED
      BY <1>3, <3>1
  <2> HIDE DEF s1, s2
  <2> QED
    BY <2>2, <2>3, <2>4 DEF Served
<1> QED
  BY <1>1, <1>4, ServedTwice

-----------------------------------------------------------------------------
(* The detector.                                                           *)

HitType == [begin : Int, score : Nat, hit : BOOLEAN]

\* What a detector can report is typed.
LEMMA HitsTyped == ASSUME NEW n \in Nat PROVE Hits(n) \subseteq [Chans -> HitType]
<1> DEFINE began == {b \in Begins : -b <= AvailAfter /\ n + b >= armedAt}
           found == {[begin |-> b, score |-> s, hit |-> TRUE] : b \in began, s \in Scores}
<1>1. found \subseteq HitType
  <2>1. began \subseteq Int /\ Scores \subseteq Nat
    BY DetectorAssumption
  <2>2. ASSUME NEW h \in found PROVE h \in HitType
    <3>1. PICK b \in began, s \in Scores : h = [begin |-> b, score |-> s, hit |-> TRUE]
      BY <2>2
    <3>2. b \in Int /\ s \in Nat
      BY <2>1
    <3> QED
      BY <3>1, <3>2 DEF HitType
  <2> QED
    BY <2>2
<1>2. NoHit \in HitType
  BY DEF NoHit, HitType
<1>3. Hits(n) = [Chans -> {NoHit} \cup found]
  BY DEF Hits
<1> HIDE DEF found
<1> QED
  BY <1>1, <1>2, <1>3

\* Arming, disarming and releasing keep the shape of the detector.
LEMMA ArmedOK ==
    ASSUME NEW d, DetOK(d)
    PROVE  /\ DetOK(Disarmed(d)) /\ Disarmed(d).active = d.active
           /\ DetOK(Armed(d)) /\ Armed(d).active = d.active
<1>1. DetOK(Disarmed(d)) /\ Disarmed(d).active = d.active
  <2>1. [c \in Chans |-> NoChan] \in [Chans -> ChanType]
    BY DEF ChanType, NoChan
  <2>2. \A x \in [Chans -> ChanType] :
          /\ [d EXCEPT !.armed = FALSE, !.triggered = FALSE, !.ch = x] \in DetType
          /\ [d EXCEPT !.armed = FALSE, !.triggered = FALSE, !.ch = x].triggered = FALSE
          /\ [d EXCEPT !.armed = FALSE, !.triggered = FALSE, !.ch = x].active = d.active
    BY DEF DetOK, DetType
  <2> QED
    BY <2>1, <2>2 DEF DetOK, Disarmed
<1>2. Armed(d) = [Disarmed(d) EXCEPT !.armed = TRUE, !.chosen = None, !.postTrigger = 0,
                                     !.postCallback = 0]
  BY DEF Armed
<1>3. Disarmed(d).triggered = FALSE
  BY DEF DetOK, Disarmed, DetType
<1>4. DetOK(Armed(d)) /\ Armed(d).active = d.active
  <2> DEFINE e == Disarmed(d)
  <2>1. e \in DetType /\ e.triggered = FALSE /\ e.active = d.active
    BY <1>1, <1>3 DEF DetOK
  <2> HIDE DEF e
  <2>2. /\ [e EXCEPT !.armed = TRUE, !.chosen = None, !.postTrigger = 0,
                     !.postCallback = 0] \in DetType
        /\ [e EXCEPT !.armed = TRUE, !.chosen = None, !.postTrigger = 0,
                     !.postCallback = 0].triggered = FALSE
        /\ [e EXCEPT !.armed = TRUE, !.chosen = None, !.postTrigger = 0,
                     !.postCallback = 0].active = d.active
    BY <2>1 DEF DetType
  <2> QED
    BY <1>2, <2>2 DEF DetOK, e
<1> QED
  BY <1>1, <1>4

\* Some new hit is as sure as every other.
LEMMA SomeNewBest ==
    ASSUME NEW d, NEW hits \in [Chans -> HitType], New(d, hits) # {}
    PROVE  \E c \in New(d, hits) : \A e \in New(d, hits) : hits[e].score <= hits[c].score
<1> DEFINE f == [c \in Nat |-> IF c \in Chans THEN hits[c].score ELSE 0]
<1>1. f \in [Nat -> Nat]
  BY DEF HitType
<1>2. ChanQty - 1 \in Nat /\ New(d, hits) \in SUBSET (0 .. ChanQty - 1)
  BY SizesAssumption DEF New, Chans
<1>3. \E c \in New(d, hits) : \A e \in New(d, hits) : f[e] <= f[c]
  <2> HIDE DEF f
  <2> QED
    BY <1>1, <1>2, SomeBest
<1>4. \A c \in New(d, hits) : f[c] = hits[c].score
  BY DEF New, Chans
<1> QED
  BY <1>3, <1>4

\* The first hit is chosen: a detector that has triggered has a channel.
LEMMA FirstIsChosen ==
    ASSUME NEW d, DetOK(d), NEW hits \in [Chans -> HitType], New(d, hits) # {}, d.chosen = None
    PROVE  BestOf(d, hits) # {}
BY SomeNewBest DEF BestOf

\* A detector that has chosen a channel is typed.
LEMMA ChoiceTyped ==
    ASSUME NEW d \in DetType, NEW c \in Chans, NEW n \in Int
    PROVE  LET e == [d EXCEPT !.chosen = c, !.begin = n, !.end = 0] IN
           e \in DetType /\ e.chosen = c /\ e.active = d.active
<1> DEFINE e == [d EXCEPT !.chosen = c, !.begin = n, !.end = 0]
<1>1. e.chosen = c /\ e.active = d.active
  BY DEF DetType
<1>2. \A m \in Int, k \in Int : [d EXCEPT !.begin = m, !.end = k] \in DetType
  BY DEF DetType
<1>3. \A k \in DetType, m \in Chans \cup {None} : [k EXCEPT !.chosen = m] \in DetType
  BY DEF DetType
<1>4. e = [[d EXCEPT !.begin = n, !.end = 0] EXCEPT !.chosen = c]
  BY DEF DetType
<1>5. e \in DetType
  <2>1. 0 \in Int /\ c \in Chans \cup {None}
    OBVIOUS
  <2> HIDE DEF e
  <2> QED
    BY <1>2, <1>3, <1>4, <2>1
<1> QED
  BY <1>1, <1>5

\* A frame that the detector heard keeps its shape.
LEMMA HeardOK ==
    ASSUME NEW d, DetOK(d), NEW hits \in [Chans -> HitType], NEW n \in Nat
    PROVE  DetOK(Heard(d, hits, n)) /\ Heard(d, hits, n).active = d.active
<1> DEFINE d1 == [d EXCEPT !.ch = ChansAfter(d, hits, n),
                           !.triggered = @ \/ New(d, hits) # {}]
           b  == BestOf(d, hits)
<1>1. ChansAfter(d, hits, n) \in [Chans -> ChanType]
  <2>1. \A p \in Nat : (p + 1) % ByteQty \in Nat
    BY SizesAssumption
  <2> QED
    BY <2>1 DEF ChansAfter, DetOK, DetType, ChanType, HitType
<1>2. d1 \in DetType /\ d1.active = d.active /\ d1.chosen = d.chosen
      /\ (d1.triggered <=> d.triggered \/ New(d, hits) # {})
  <2>1. \A x \in [Chans -> ChanType], y \in BOOLEAN :
           /\ [d EXCEPT !.ch = x, !.triggered = y] \in DetType
           /\ [d EXCEPT !.ch = x, !.triggered = y].active = d.active
           /\ [d EXCEPT !.ch = x, !.triggered = y].chosen = d.chosen
           /\ [d EXCEPT !.ch = x, !.triggered = y].triggered = y
    BY DEF DetOK, DetType
  <2>2. (d.triggered \/ New(d, hits) # {}) \in BOOLEAN
    OBVIOUS
  <2> QED
    BY <1>1, <2>1, <2>2
<1>3. CASE b = {}
  <2>1. Heard(d, hits, n) = d1
    BY <1>3 DEF Heard
  <2>2. d1.triggered => d1.chosen \in Chans
    <3>1. d.chosen \in Chans \cup {None} /\ d.triggered \in BOOLEAN
      BY DEF DetOK, DetType
    <3> QED
      BY <1>2, <1>3, <3>1, FirstIsChosen DEF DetOK
  <2> QED
    BY <1>2, <2>1, <2>2 DEF DetOK
<1>4. CASE b # {}
  <2> DEFINE l == LastOf(b)
  <2>1. l \in Chans
    BY <1>4, LastIsOne DEF BestOf, New
  <2>2. Heard(d, hits, n) = [d1 EXCEPT !.chosen = l, !.begin = hits[l].begin, !.end = 0]
    BY <1>4 DEF Heard
  <2>3. hits[l].begin \in Int
    BY <2>1 DEF HitType
  <2> HIDE DEF d1, l
  <2>4. Heard(d, hits, n) \in DetType /\ Heard(d, hits, n).chosen = l
        /\ Heard(d, hits, n).active = d1.active
    <3>1. d1 \in DetType /\ hits[l].begin \in Int
      BY <1>2, <2>3
    <3> DEFINE e == [d1 EXCEPT !.chosen = l, !.begin = hits[l].begin, !.end = 0]
    <3>2. e \in DetType /\ e.chosen = l /\ e.active = d1.active
      <4> HIDE DEF e
      <4> QED
        BY <2>1, <3>1, ChoiceTyped DEF e
    <3> QED
      BY <2>2, <3>2
  <2> QED
    BY <1>2, <2>1, <2>4 DEF DetOK
<1> QED
  BY <1>3, <1>4

\* What the detector does with a frame keeps its shape.
LEMMA DetectorOK ==
    ASSUME DetOK(det), NEW n \in Nat, Detector(n)
    PROVE  DetOK(det') /\ det'.active = det.active
<1> DEFINE Counted(d) == [d EXCEPT !.postCallback = @ + 1]
           Ready(d)   == [d EXCEPT !.postTrigger = @ + 1]
<1>1. \A d : DetOK(d) => /\ DetOK(Counted(d)) /\ Counted(d).active = d.active
                         /\ DetOK(Ready(d)) /\ Ready(d).active = d.active
                         /\ Ready(d).triggered = d.triggered
  BY DEF DetOK, DetType
<1>2. \A d : DetOK(d) /\ d.triggered =>
        DetOK(Adjusted(d)) /\ Adjusted(d).active = d.active
  <2> TAKE d
  <2> HAVE DetOK(d) /\ d.triggered
  <2>1. d.ch[d.chosen].post * FrameQty \in Int
    <3>1. d.ch[d.chosen].post \in Nat /\ FrameQty \in Nat
      BY Sizes DEF DetOK, DetType, ChanType
    <3> QED
      BY <3>1
  <2> DEFINE back == d.ch[d.chosen].post * FrameQty
  <2>2. Adjusted(d) = [d EXCEPT !.begin = @ - back, !.end = @ - back]
    BY DEF Adjusted
  <2> HIDE DEF back
  <2>3. back \in Int
    BY <2>1 DEF back
  <2>4. \A x, y \in Int : /\ [d EXCEPT !.begin = x, !.end = y] \in DetType
                           /\ [d EXCEPT !.begin = x, !.end = y].active = d.active
                           /\ [d EXCEPT !.begin = x, !.end = y].chosen = d.chosen
    BY DEF DetOK, DetType
  <2>5. d.begin - back \in Int /\ d.end - back \in Int
    BY <2>3 DEF DetOK, DetType
  <2> QED
    BY <2>2, <2>4, <2>5 DEF DetOK
<1>3. CASE ~det.armed
  BY <1>1, <1>3 DEF Detector
<1>4. CASE det.armed
  <2>1. PICK hits \in Hits(n) :
          LET d0 == Counted(Heard(det, hits, n)) IN
          \/ det' = d0
          \/ det' = Ready(d0)
          \/ det' = Armed(Ready(d0))
          \/ d0.triggered /\ det' = [Disarmed(Adjusted(Ready(d0))) EXCEPT !.postCallback = 0]
    BY <1>4 DEF Detector
  <2> DEFINE d0 == Counted(Heard(det, hits, n))
  <2>2. DetOK(d0) /\ d0.active = det.active
    <3>1. hits \in [Chans -> HitType]
      BY HitsTyped
    <3>2. DetOK(Heard(det, hits, n)) /\ Heard(det, hits, n).active = det.active
      BY <3>1, HeardOK
    <3> QED
      BY <1>1, <3>2
  <2>3. DetOK(Ready(d0)) /\ Ready(d0).active = det.active /\ Ready(d0).triggered = d0.triggered
    BY <1>1, <2>2
  <2>4. DetOK(Armed(Ready(d0))) /\ Armed(Ready(d0)).active = det.active
    BY <2>3, ArmedOK
  <2>5. ASSUME d0.triggered, det' = [Disarmed(Adjusted(Ready(d0))) EXCEPT !.postCallback = 0]
        PROVE  DetOK(det') /\ det'.active = det.active
    <3> DEFINE d3 == Disarmed(Adjusted(Ready(d0)))
    <3>1. DetOK(d3) /\ d3.active = det.active
      <4>1. DetOK(Adjusted(Ready(d0))) /\ Adjusted(Ready(d0)).active = det.active
        BY <1>2, <2>3, <2>5
      <4> QED
        BY <4>1, ArmedOK
    <3> HIDE DEF d3
    <3>2. det' = [d3 EXCEPT !.postCallback = 0]
      BY <2>5 DEF d3
    <3> QED
      BY <3>1, <3>2 DEF DetOK, DetType
  <2> QED
    BY <2>1, <2>2, <2>3, <2>4, <2>5
<1> QED
  BY <1>3, <1>4

-----------------------------------------------------------------------------
(* The steps.                                                              *)

\* What the invariant says of the state the writers work on.
LEMMA StateShaped == ASSUME KeywordInv PROVE StateShape(State)
BY DEF KeywordInv, RingShape, InstShape, StateShape, State

\* No stream is to take more than the ring holds after a serving.
LEMMA ServedInst ==
    ASSUME KeywordInv, NEW st, Served(State, st), inst' = st.inst, avail <= avail', avail \in Nat,
           avail' \in Nat
    PROVE  InstShape'
<1>1. \A g \in Groups : st.inst[g].pre <= inst[g].pre /\ inst[g].pre <= avail
      /\ st.inst[g].pre \in Nat /\ inst[g].pre \in Nat
  BY DEF Served, State, StateShape, KeywordInv, InstShape, InstType
<1>2. \A g \in Groups : st.inst[g].pre <= avail'
  BY <1>1
<1> QED
  BY <1>2 DEF InstShape, Served, StateShape

\* One group's instance is replaced.
LEMMA InstGiven ==
    ASSUME InstShape, avail \in Nat, avail' = avail, NEW g \in Groups,
           NEW i \in InstType, i.pre <= avail, inst' = [inst EXCEPT ![g] = i]
    PROVE  InstShape'
<1>1. inst' \in [Groups -> InstType]
  BY DEF InstShape
<1>2. ASSUME NEW h \in Groups PROVE inst'[h].pre <= avail'
  <2>1. CASE h = g
    BY <2>1 DEF InstShape
  <2>2. CASE h # g
    BY <2>2 DEF InstShape
  <2> QED
    BY <2>1, <2>2
<1> QED
  BY <1>1, <1>2 DEF InstShape

\* The samples of the ring fit in it.
LEMMA AvailNat == KeywordInv => avail \in 0 .. RingQty
BY WholeBounds DEF KeywordInv, RingShape

\* A detect request.
LEMMA DetectKeeps == ASSUME KeywordInv, Detect PROVE KeywordInv'
<1>1. DetOK(Armed(det)) /\ Armed(det).active = det.active
  BY ArmedOK DEF KeywordInv, DetShape
<1>2. inst' = [inst EXCEPT !["default"] = NoInst] /\ NoInst \in InstType /\ NoInst.pre = 0
  BY DEF Detect, NoInst, InstType
<1>3. "default" \in Groups /\ avail \in Nat
  BY AvailNat, Sizes DEF Groups
<1>4. idx' \in Nat /\ now' = now
  BY DEF Detect
<1>5. CASE det.active
  <2>1. det' = Armed(det) /\ UNCHANGED kept
    BY <1>5 DEF Detect
  <2>2. RingShape' /\ RingHoldsNewest'
    BY <1>4, <2>1, WearKeepsRing DEF KeywordInv, kept, RingShape, Rings, Worn
  <2>3. DetShape'
    BY <1>1, <1>5, <2>1 DEF DetShape, DetOK
  <2>4. InstShape'
    <3>1. InstShape /\ avail' = avail /\ NoInst.pre <= avail
      BY <1>2, <1>3, <2>1 DEF kept, KeywordInv
    <3> QED
      BY <1>2, <1>3, <3>1, InstGiven
  <2> QED
    BY <1>4, <2>2, <2>3, <2>4 DEF KeywordInv
<1>6. CASE ~det.active
  <2>1. det' = [Armed(det) EXCEPT !.active = TRUE]
        /\ ring' = [i \in 0 .. RingQty - 1 |-> 0] /\ avail' = 0 /\ write' = 0 /\ avail = 0
    BY <1>6 DEF Detect, KeywordInv, DetShape
  <2>2. RingShape' /\ RingHoldsNewest'
    <3>1. Whole(0)
      BY Sizes DEF Whole
    <3>2. Whole(avail)' /\ Whole(write)'
      BY <2>1, <3>1 DEF Whole
    <3>3. ring' \in Rings /\ Rings' = Rings /\ RingQty' = RingQty
      BY <2>1 DEF Rings, Cells, RingQty
    <3>4. RingShape'
      BY <1>4, <2>1, <3>2, <3>3, Sizes DEF KeywordInv, RingShape
    <3> QED
      BY <2>1, <3>4 DEF RingHoldsNewest
  <2>3. DetShape'
    <3> DEFINE a == Armed(det)
    <3>1. a \in DetType /\ (a.triggered => a.chosen \in Chans)
      BY <1>1 DEF DetOK
    <3> HIDE DEF a
    <3>2. [a EXCEPT !.active = TRUE] \in DetType
          /\ [a EXCEPT !.active = TRUE].active = TRUE
          /\ [a EXCEPT !.active = TRUE].triggered = a.triggered
          /\ [a EXCEPT !.active = TRUE].chosen = a.chosen
      BY <3>1 DEF DetType
    <3>3. det' = [a EXCEPT !.active = TRUE]
      BY <2>1 DEF a
    <3> QED
      BY <3>1, <3>2, <3>3 DEF DetShape, DetOK
  <2>4. InstShape'
    <3>1. InstShape /\ avail' = avail /\ NoInst.pre <= avail
      BY <1>2, <1>3, <2>1 DEF KeywordInv
    <3> QED
      BY <1>2, <1>3, <3>1, InstGiven
  <2> QED
    BY <1>4, <2>2, <2>3, <2>4 DEF KeywordInv
<1> QED
  BY <1>5, <1>6

\* A stream never takes more from the ring than is there.
LEMMA PreIsThere ==
    ASSUME KeywordInv, NEW r \in Requests, NEW d \in DetType
    PROVE  PreQty(r, d) \in Nat /\ PreQty(r, d) <= avail
<1> DEFINE qty == CASE r.from = "live"         -> 0
                    [] r.from = "beginning"    -> avail - r.offset
                    [] r.from = "keywordBegin" -> -d.begin - r.offset
                    [] r.from = "keywordEnd"   -> -r.offset
           n == (qty + Post(r, d) * FrameQty) % WordQty
<1>1. r.from \in Froms /\ r.offset \in Int
  BY ClientsAssumption DEF RequestType
<1>2. qty \in Int
  BY <1>1, AvailNat, Sizes DEF Froms, DetType
<1>3. Post(r, d) \in Nat
  BY DEF Post, DetType
<1>4. Post(r, d) * FrameQty \in Int
  BY <1>3, Sizes
<1>5. n \in Nat
  <2>1. \A a, b \in Int : (a + b) % WordQty \in Nat
    BY SizesAssumption
  <2> HIDE DEF qty
  <2> QED
    BY <1>2, <1>4, <2>1
<1>6. PreQty(r, d) = IF n > avail THEN avail ELSE n
  BY DEF PreQty
<1>7. avail \in Nat
  BY AvailNat, Sizes
<1> HIDE DEF n
<1> QED
  BY <1>5, <1>6, <1>7

\* The start of a stream.
LEMMA RecordStartKeeps == ASSUME KeywordInv, RecordStart PROVE KeywordInv'
<1>1. PICK r \in Requests :
        LET d == IF r.from = "keywordEnd" /\ ~det.triggered
                 THEN [det EXCEPT !.postCallback = 0] ELSE det
        IN  /\ inst' = [inst EXCEPT ![r.group] =
                          [on |-> TRUE, dest |-> r.dest, until |-> r.until, qty |-> r.qty,
                           pre |-> PreQty(r, d)]]
            /\ det' = IF r.group = "tap" THEN d ELSE Disarmed(d)
  BY DEF RecordStart
<1> DEFINE d == IF r.from = "keywordEnd" /\ ~det.triggered
                THEN [det EXCEPT !.postCallback = 0] ELSE det
<1>2. DetOK(d) /\ d.active = det.active
  BY DEF KeywordInv, DetShape, DetOK, DetType
<1>3. DetOK(det') /\ det'.active = det.active
  BY <1>1, <1>2, ArmedOK
<1>4. r.dest \in {"none", "pipe", "user"} /\ r.until \in {"none", "stream", "speech"}
      /\ r.qty \in Nat \ {0} /\ r.group \in Groups
  BY ClientsAssumption DEF RequestType
<1>5. PreQty(r, d) \in Nat /\ PreQty(r, d) <= avail
  BY <1>2, PreIsThere DEF DetOK
<1>6. /\ now' = now /\ ring' = ring /\ avail' = avail /\ write' = write /\ idx' = 0
  BY DEF RecordStart, kept
<1>7. InstShape'
  <2> DEFINE new == [on |-> TRUE, dest |-> r.dest, until |-> r.until, qty |-> r.qty,
                     pre |-> PreQty(r, d)]
  <2>1. new \in InstType /\ new.pre <= avail
    BY <1>4, <1>5 DEF InstType
  <2>2. inst' = [inst EXCEPT ![r.group] = new]
    BY <1>1
  <2> HIDE DEF new
  <2> QED
    <3>1. InstShape /\ avail \in Nat
      BY AvailNat, Sizes DEF KeywordInv
    <3> QED
      BY <1>4, <1>6, <2>1, <2>2, <3>1, InstGiven
<1>8. RingShape' /\ RingHoldsNewest'
  BY <1>6, WearKeepsRing DEF KeywordInv, RingShape, Rings, Worn
<1> QED
  BY <1>3, <1>6, <1>7, <1>8 DEF KeywordInv, DetShape

\* The stop of a stream, which flushes what is left.
LEMMA RecordStopKeeps == ASSUME KeywordInv, RecordStop PROVE KeywordInv'
<1>1. PICK g \in Groups : /\ ring' = Flush(State, g, idx, now).ring
                          /\ inst' = [inst EXCEPT ![g] = NoInst]
  BY DEF RecordStop
<1>2. now' = now /\ avail' = avail /\ write' = write /\ det' = det /\ idx' = idx
  BY DEF RecordStop
<1> DEFINE st == Flush(State, g, idx, now)
<1>3. Served(State, st) /\ ring' = st.ring
  BY <1>1, StateShaped, FlushServes
<1> HIDE DEF st
<1>4. RingShape' /\ RingHoldsNewest'
  BY <1>2, <1>3, WearKeepsRing DEF KeywordInv, Served, StateShape, State
<1>5. NoInst \in InstType /\ InstShape /\ avail \in Nat /\ NoInst.pre <= avail
  BY AvailNat, Sizes DEF NoInst, InstType, KeywordInv
<1>6. InstShape'
  BY <1>1, <1>2, <1>5, InstGiven
<1> QED
  BY <1>2, <1>4, <1>6 DEF KeywordInv, DetShape

\* A frame of the microphone.
LEMMA MicFrameKeeps == ASSUME KeywordInv, MicFrame PROVE KeywordInv'
<1> DEFINE n  == now + FrameQty
           k  == idx + 1
           s1 == Serve(State, "default", k, n)
           st == Serve(s1, "tap", k, n)
           left == IF k >= inst["default"].qty THEN 0 ELSE k
           end == SpeechEnds(st, left, n)
<1>1. "default" \in Groups /\ "tap" \in Groups
  BY DEF Groups
<1>2. Served(State, st)
  <2>1. Served(State, s1)
    BY <1>1, StateShaped, ServeServes
  <2>2. Served(s1, st)
    BY <1>1, <2>1, ServeServes DEF Served
  <2> QED
    BY <2>1, <2>2, StateShaped, ServedTwice
<1>3. Served(State, end)
  BY <1>2, EndServes, StateShaped, ServedTwice DEF Served
<1>4. /\ now' = n
      /\ \/ inst' = st.inst /\ idx' = left
         \/ inst' = end.inst /\ idx' = 0
      /\ IF det.active
         THEN /\ ring' = RingWith(st.ring, now) /\ avail' = AvailAfter /\ write' = WriteAfter
              /\ Detector(n)
         ELSE ring' = st.ring /\ UNCHANGED <<avail, write, det>>
  BY DEF MicFrame
<1> HIDE DEF st, end
<1>5. now \in Nat /\ n \in Nat /\ avail \in Nat /\ st.ring \in Rings /\ Worn(ring, st.ring)
  BY <1>2, Sizes, AvailNat DEF KeywordInv, RingShape, Served, StateShape, State
<1>6. /\ RingShape' /\ RingHoldsNewest' /\ avail <= avail'
      /\ DetShape'
  <2>1. CASE det.active
    <3>1. RingShape' /\ RingHoldsNewest' /\ avail <= avail'
      BY <1>4, <1>5, <2>1, FrameKeepsRing DEF KeywordInv
    <3>2. DetOK(det') /\ det'.active = det.active
      BY <1>4, <1>5, <2>1, DetectorOK DEF KeywordInv, DetShape
    <3> QED
      BY <2>1, <3>1, <3>2 DEF DetShape
  <2>2. CASE ~det.active
    <3>1. avail = 0 /\ avail' = 0 /\ write' = write /\ det' = det /\ ring' = st.ring
      BY <1>4, <2>2 DEF KeywordInv, DetShape
    <3>2. RingShape'
      <4>1. Rings' = Rings /\ RingQty' = RingQty
        BY DEF Rings, Cells, RingQty
      <4>2. Whole(avail)' /\ Whole(write)'
        BY <3>1 DEF KeywordInv, RingShape, Whole
      <4> QED
        BY <1>4, <1>5, <3>1, <4>1, <4>2 DEF KeywordInv, RingShape
    <3>3. RingHoldsNewest'
      BY <3>1 DEF KeywordInv, RingHoldsNewest, RingQty
    <3> QED
      BY <3>1, <3>2, <3>3 DEF KeywordInv, DetShape
  <2> QED
    BY <2>1, <2>2
<1>7. avail' \in Nat
  BY <1>6, WholeBounds, Sizes DEF RingShape
<1>8. InstShape'
  BY <1>2, <1>3, <1>4, <1>5, <1>6, <1>7, ServedInst
<1>9. idx' \in Nat
  BY <1>4 DEF KeywordInv
<1> QED
  BY <1>6, <1>8, <1>9 DEF KeywordInv

\* Every step.
LEMMA StepKeeps == KeywordInv /\ [Next]_vars => KeywordInv'
<1> SUFFICES ASSUME KeywordInv, [Next]_vars PROVE KeywordInv'
  OBVIOUS
<1>1. CASE UNCHANGED vars
  BY <1>1 DEF vars, kept, KeywordInv, RingShape, RingHoldsNewest, Place, DetShape, DetOK,
              InstShape, Rings, Cells, RingQty, Whole
<1> QED
  BY <1>1, DetectKeeps, RecordStartKeeps, RecordStopKeeps, MicFrameKeeps DEF Next

\* The inductive invariant holds of every reachable state: the ring in whole frames
\* and in order, a triggered detector with a chosen channel, and no stream that is to
\* take more than the ring has (xraudio_thread.c:2896, 1043).
THEOREM KeywordInvariant == Spec => []KeywordInv
BY InvInit, StepKeeps, PTL DEF Spec

\* No counter of the ring and no place it is read from leaves it, whatever the
\* clients ask for and the detectors find.
THEOREM KeywordTypes == Spec => []TypeOK
BY KeywordInvariant, InvTypes, PTL

\* The ring holds the last samples read, but for those converted in place, for
\* every capacity that is a number of whole frames.
THEOREM RingIsNewest == Spec => []RingHoldsNewest
<1>1. KeywordInv => RingHoldsNewest
  BY DEF KeywordInv
<1> QED
  BY <1>1, KeywordInvariant, PTL

\* What a stream that begins in the past would be given are the last samples
\* read, oldest first, wherever the ring has wrapped.
ReadsNewest ==
    \A n \in 0 .. avail : \A i \in 1 .. n : Chunks(ring, n)[i] \in {now - n + i - 1, Lost}

\* However the frames and the requests come, the two chunks that a stream takes
\* from the ring are the samples just before now, in their order.
THEOREM ReadsAreNewest == Spec => []ReadsNewest
<1>1. KeywordInv => ReadsNewest
  BY StreamBegins DEF KeywordInv, ReadsNewest
<1> QED
  BY <1>1, KeywordInvariant, PTL

-----------------------------------------------------------------------------
(* The keyword event.                                                      *)

\* A channel that triggered k frames before sample n counts them in post, which
\* wraps, and says where its keyword began.
Counts(x, n) ==
    \E k \in Nat, m \in Nat :
        /\ x.post + m * ByteQty = k /\ x.post < ByteQty
        /\ x.at = n - k * FrameQty + x.begin
        /\ k * FrameQty + FrameQty <= n

\* The detector has chosen a channel that is as sure as any that triggered, and has
\* kept its begin.
Best(d) ==
    /\ d.chosen \in Chans /\ d.ch[d.chosen].triggered
    /\ d.begin = d.ch[d.chosen].begin
    /\ \A e \in Chans : d.ch[e].triggered => d.ch[e].score <= d.ch[d.chosen].score
ChoiceOK(d, n) ==
    /\ d.armed => d.active
    /\ d.triggered => d.armed /\ Best(d)
    /\ ~d.triggered => \A c \in Chans : ~d.ch[c].triggered
    /\ d.armed /\ ~d.triggered => d.chosen = None
    /\ \A c \in Chans : d.ch[c].triggered => Counts(d.ch[c], n)

\* The begin told is that of such a channel, late by whole turns of post.
Late(r, n) ==
    \E b \in r.heard \cap Int, m \in Nat :
        /\ r.begin = b + (m * ByteQty) * FrameQty
        /\ m # 0 => (m * ByteQty) * FrameQty + FrameQty <= n
\* The microphone is read in frames.
Read(n)  == \E k \in 0 .. MaxFrames : n = k * FrameQty
EventInv == ChoiceOK(det, now) /\ Late(report, now) /\ Read(now)

\* One more frame since the channel triggered.
LEMMA CountsOn ==
    ASSUME NEW x \in ChanType, NEW n \in Nat, Counts(x, n)
    PROVE  Counts([x EXCEPT !.post = (@ + 1) % ByteQty], n + FrameQty)
<1> DEFINE y == [x EXCEPT !.post = (@ + 1) % ByteQty]
<1>1. PICK k \in Nat, m \in Nat :
        /\ x.post + m * ByteQty = k /\ x.post < ByteQty
        /\ x.at = n - k * FrameQty + x.begin
        /\ k * FrameQty + FrameQty <= n
  BY DEF Counts
<1>2. FrameQty \in Nat \ {0} /\ ByteQty \in Nat \ {0}
  BY SizesAssumption
<1>3. /\ x.post \in Nat /\ x.begin \in Int /\ x.at \in Int
      /\ y.post = (x.post + 1) % ByteQty /\ y.begin = x.begin /\ y.at = x.at
  BY DEF ChanType
<1> HIDE DEF y
<1>4. k * FrameQty \in Nat /\ (k + 1) * FrameQty = k * FrameQty + FrameQty
  <2>1. \A a, b \in Nat : a * b \in Nat /\ (a + 1) * b = a * b + b
    OBVIOUS
  <2> QED
    BY <1>2, <2>1
<1>5. /\ y.at = (n + FrameQty) - (k + 1) * FrameQty + y.begin
      /\ (k + 1) * FrameQty + FrameQty <= n + FrameQty
  BY <1>1, <1>2, <1>3, <1>4
<1>6. CASE x.post + 1 < ByteQty
  <2>1. y.post = x.post + 1
    BY <1>2, <1>3, <1>6
  <2>2. m * ByteQty \in Nat
    <3>1. \A a, b \in Nat : a * b \in Nat
      OBVIOUS
    <3> QED
      BY <1>2, <3>1
  <2>3. y.post + m * ByteQty = k + 1
    <3> DEFINE p == m * ByteQty
    <3>1. p \in Nat /\ x.post + p = k
      BY <1>1, <2>2
    <3> HIDE DEF p
    <3>2. y.post + p = k + 1
      BY <1>3, <2>1, <3>1
    <3> QED
      BY <3>2 DEF p
  <2>4. y.post < ByteQty
    BY <1>6, <2>1
  <2> QED
    BY <1>5, <2>3, <2>4 DEF Counts, y
<1>7. CASE x.post + 1 = ByteQty
  <2>1. y.post = 0
    BY <1>2, <1>3, <1>7
  <2>2. m * ByteQty \in Nat /\ (m + 1) * ByteQty = m * ByteQty + ByteQty
    <3>1. \A a, b \in Nat : a * b \in Nat /\ (a + 1) * b = a * b + b
      OBVIOUS
    <3> QED
      BY <1>2, <3>1
  <2>3. y.post + (m + 1) * ByteQty = k + 1
    <3> DEFINE p == m * ByteQty
               r == (m + 1) * ByteQty
    <3>1. p \in Nat /\ r = p + ByteQty /\ x.post + p = k
      BY <1>1, <2>2
    <3> HIDE DEF p, r
    <3>2. y.post + r = k + 1
      BY <1>2, <1>3, <1>7, <2>1, <3>1
    <3> QED
      BY <3>2 DEF r
  <2>4. y.post < ByteQty
    BY <1>2, <2>1
  <2>5. Counts(y, n + FrameQty)
    <3>1. k + 1 \in Nat /\ m + 1 \in Nat
      OBVIOUS
    <3>2. \E i \in Nat, j \in Nat :
            /\ y.post + j * ByteQty = i /\ y.post < ByteQty
            /\ y.at = (n + FrameQty) - i * FrameQty + y.begin
            /\ i * FrameQty + FrameQty <= n + FrameQty
      <4> WITNESS k + 1 \in Nat, m + 1 \in Nat
      <4> QED
        BY <1>5, <2>3, <2>4
    <3> QED
      BY <3>2 DEF Counts
  <2> QED
    BY <2>5 DEF y
<1>8. x.post + 1 < ByteQty \/ x.post + 1 = ByteQty
  <2>1. x.post < ByteQty /\ x.post \in Nat /\ ByteQty \in Nat
    BY <1>1, <1>2, <1>3
  <2>2. \A a, b \in Nat : a < b => a + 1 < b \/ a + 1 = b
    OBVIOUS
  <2> QED
    BY <2>1, <2>2
<1> QED
  BY <1>6, <1>7, <1>8

\* A channel that triggers in the frame that ends with sample n.
LEMMA CountsFirst ==
    ASSUME NEW x, NEW n \in Nat, FrameQty <= n, x.post = 0, x.begin \in Int, x.at = n + x.begin
    PROVE  Counts(x, n)
<1>1. FrameQty \in Nat \ {0} /\ ByteQty \in Nat \ {0}
  BY SizesAssumption
<1>2. 0 * FrameQty = 0 /\ 0 * ByteQty = 0
  BY <1>1
<1>3. /\ x.post + 0 * ByteQty = 0 /\ x.post < ByteQty
      /\ x.at = n - 0 * FrameQty + x.begin
      /\ 0 * FrameQty + FrameQty <= n
  BY <1>1, <1>2
<1> QED
  BY <1>3 DEF Counts

\* What hearing a frame does to the channels.
LEMMA ChansHeard ==
    ASSUME NEW d \in DetType, NEW hits \in [Chans -> HitType], NEW n \in Nat, NEW c \in Chans
    PROVE  LET x == ChansAfter(d, hits, n + FrameQty)[c] IN
           /\ d.ch[c].triggered => /\ x = [d.ch[c] EXCEPT !.post = (@ + 1) % ByteQty]
                                   /\ x.triggered /\ x.score = d.ch[c].score
                                   /\ x.begin = d.ch[c].begin
           /\ c \in New(d, hits) => /\ x.triggered /\ x.post = 0 /\ x.score = hits[c].score
                                    /\ x.begin = hits[c].begin
                                    /\ x.at = n + FrameQty + hits[c].begin
           /\ x.triggered <=> d.ch[c].triggered \/ c \in New(d, hits)
BY DEF ChansAfter, New, DetType, ChanType, HitType

\* After a frame every channel that has triggered counts right.
LEMMA HeardCounts ==
    ASSUME NEW d \in DetType, NEW hits \in [Chans -> HitType], NEW n \in Nat,
           \A c \in Chans : d.ch[c].triggered => Counts(d.ch[c], n), NEW c \in Chans,
           ChansAfter(d, hits, n + FrameQty)[c].triggered
    PROVE  Counts(ChansAfter(d, hits, n + FrameQty)[c], n + FrameQty)
<1> DEFINE x == ChansAfter(d, hits, n + FrameQty)[c]
<1>1. n + FrameQty \in Nat /\ FrameQty <= n + FrameQty
  BY Sizes
<1>2. d.ch[c] \in ChanType
  BY DEF DetType
<1>3. CASE d.ch[c].triggered
  <2>1. x = [d.ch[c] EXCEPT !.post = (@ + 1) % ByteQty] /\ Counts(d.ch[c], n)
    BY <1>3, ChansHeard
  <2> QED
    BY <1>2, <2>1, CountsOn
<1>4. CASE ~d.ch[c].triggered
  <2>1. c \in New(d, hits)
    BY <1>4, ChansHeard
  <2>2. x.post = 0 /\ x.begin = hits[c].begin /\ x.at = n + FrameQty + hits[c].begin
    BY <1>4, <2>1 DEF ChansAfter, New
  <2>3. hits[c].begin \in Int
    BY DEF HitType
  <2> HIDE DEF x
  <2>4. Counts(x, n + FrameQty)
    <3>1. x.begin \in Int /\ x.at = n + FrameQty + x.begin
      BY <2>2, <2>3
    <3> QED
      BY <1>1, <2>2, <3>1, CountsFirst
  <2> QED
    BY <2>4 DEF x
<1> QED
  BY <1>3, <1>4

\* Where no new hit is taken, all of them are less sure than the channel chosen.
LEMMA NoneTaken ==
    ASSUME NEW d \in DetType, NEW hits \in [Chans -> HitType], d.chosen \in Chans,
           BestOf(d, hits) = {}
    PROVE  \A e \in New(d, hits) : hits[e].score <= d.ch[d.chosen].score
<1> SUFFICES ASSUME NEW e \in New(d, hits)
             PROVE  hits[e].score <= d.ch[d.chosen].score
  OBVIOUS
<1>1. PICK c \in New(d, hits) : \A x \in New(d, hits) : hits[x].score <= hits[c].score
  BY SomeNewBest
<1>2. ~(d.ch[d.chosen].score <= hits[c].score)
  BY <1>1 DEF BestOf
<1>3. hits[e].score <= hits[c].score
  BY <1>1
<1>4. d.ch[d.chosen].score \in Nat /\ hits[c].score \in Nat /\ hits[e].score \in Nat
  BY DEF DetType, ChanType, HitType, New
<1> QED
  BY <1>2, <1>3, <1>4

\* A frame that is heard keeps the choice the best.
LEMMA HeardChoice ==
    ASSUME NEW d \in DetType, d.armed, NEW hits \in [Chans -> HitType], NEW n \in Nat,
           ChoiceOK(d, n)
    PROVE  ChoiceOK(Heard(d, hits, n + FrameQty), n + FrameQty)
<1> DEFINE h  == Heard(d, hits, n + FrameQty)
           y  == ChansAfter(d, hits, n + FrameQty)
           d1 == [d EXCEPT !.ch = y, !.triggered = @ \/ New(d, hits) # {}]
           b  == BestOf(d, hits)
           l  == LastOf(b)
<1>1. y \in [Chans -> ChanType]
  <2>1. \A p \in Nat : (p + 1) % ByteQty \in Nat
    BY SizesAssumption
  <2>2. n + FrameQty \in Nat
    BY Sizes
  <2> QED
    BY <2>1, <2>2 DEF ChansAfter, DetType, ChanType, HitType
<1>2. \A c \in Chans :
        /\ d.ch[c].triggered => /\ y[c].score = d.ch[c].score /\ y[c].begin = d.ch[c].begin
        /\ c \in New(d, hits) => /\ y[c].score = hits[c].score /\ y[c].begin = hits[c].begin
        /\ y[c].triggered <=> d.ch[c].triggered \/ c \in New(d, hits)
  BY DEF ChansAfter, New, DetType, ChanType, HitType
<1>3. \A c \in Chans : y[c].triggered => Counts(y[c], n + FrameQty)
  BY HeardCounts DEF ChoiceOK
<1>4. /\ d1.ch = y /\ (d1.triggered <=> d.triggered \/ New(d, hits) # {})
      /\ d1.armed = d.armed /\ d1.active = d.active /\ d1.chosen = d.chosen /\ d1.begin = d.begin
      /\ d1 = [d1 EXCEPT !.ch = d1.ch]
  BY <1>1 DEF DetType
<1>5. New(d, hits) \subseteq Chans /\ b \subseteq New(d, hits)
  BY DEF New, BestOf
<1>6. d.chosen = None \/ d.chosen \in Chans
  BY DEF DetType
<1> SUFFICES ChoiceOK(h, n + FrameQty)
  OBVIOUS
<1> HIDE DEF y
<1>7. CASE b = {}
  <2>1. h = d1
    BY <1>7 DEF Heard, y
  <2> HIDE DEF h, d1, b
  <2>2. ASSUME d.triggered
        PROVE  Best(h)
    <3>1. Best(d)
      BY <2>2 DEF ChoiceOK
    <3>2. \A e \in New(d, hits) : hits[e].score <= d.ch[d.chosen].score
      BY <1>7, <3>1, NoneTaken DEF Best, b
    <3>3. y[d.chosen].triggered /\ y[d.chosen].begin = d.begin
          /\ y[d.chosen].score = d.ch[d.chosen].score
      BY <1>2, <3>1 DEF Best
    <3>4. \A e \in Chans : y[e].triggered => y[e].score <= y[d.chosen].score
      BY <1>2, <3>1, <3>2, <3>3 DEF Best
    <3> QED
      BY <1>4, <2>1, <3>1, <3>3, <3>4 DEF Best
  <2>3. ~d.triggered => New(d, hits) = {}
    BY <1>7, FirstIsChosen DEF ChoiceOK, DetOK, b
  <2>4. h.triggered <=> d.triggered
    BY <1>4, <2>1, <2>3
  <2>5. ~d.triggered => \A c \in Chans : ~y[c].triggered
    BY <1>2, <2>3 DEF ChoiceOK
  <2> QED
    BY <1>3, <1>4, <2>1, <2>2, <2>4, <2>5 DEF ChoiceOK
<1>8. CASE b # {}
  <2>1. l \in b
    BY <1>5, <1>8, LastIsOne
  <2>2. h = [d1 EXCEPT !.chosen = l, !.begin = hits[l].begin, !.end = 0]
    BY <1>8 DEF Heard, y
  <2>3. /\ h.ch = y /\ h.triggered /\ h.armed /\ h.active = d.active
        /\ h.chosen = l /\ h.begin = hits[l].begin
    <3>1. d1 \in DetType
      BY <1>1, <1>4 DEF DetType
    <3>2. l \in Chans /\ hits[l].begin \in Int
      BY <1>5, <2>1 DEF HitType
    <3>3. d1.triggered
      BY <1>4, <1>5, <2>1
    <3> HIDE DEF d1, h, l, b
    <3>4. /\ h.ch = d1.ch /\ h.triggered = d1.triggered /\ h.armed = d1.armed
          /\ h.active = d1.active /\ h.chosen = l /\ h.begin = hits[l].begin
      BY <2>2, <3>1 DEF DetType
    <3>5. h.ch = y /\ h.active = d.active /\ h.chosen = l /\ h.begin = hits[l].begin
      BY <1>4, <3>4
    <3>6. h.triggered /\ h.armed
      BY <1>4, <3>3, <3>4
    <3> QED
      BY <3>5, <3>6
  <2>4. /\ \A e \in New(d, hits) : hits[e].score <= hits[l].score
        /\ d.chosen # None => d.ch[d.chosen].score <= hits[l].score
    BY <2>1 DEF BestOf
  <2> HIDE DEF h, d1, l, b
  <2>5. l \in Chans /\ l \in New(d, hits)
    BY <1>5, <2>1
  <2>6. y[l].triggered /\ y[l].begin = hits[l].begin /\ y[l].score = hits[l].score
    BY <1>2, <2>5
  <2>7. \A e \in Chans : d.ch[e].triggered => d.ch[e].score <= hits[l].score
    <3> SUFFICES ASSUME NEW e \in Chans, d.ch[e].triggered
                 PROVE  d.ch[e].score <= hits[l].score
      OBVIOUS
    <3>1. Best(d)
      BY DEF ChoiceOK
    <3>2. d.ch[e].score <= d.ch[d.chosen].score /\ d.chosen \in Chans
      BY <3>1 DEF Best
    <3>3. d.chosen # None
      BY <3>2 DEF None, Chans
    <3>4. d.ch[e].score \in Nat /\ d.ch[d.chosen].score \in Nat /\ hits[l].score \in Nat
      BY <2>5, <3>2 DEF DetType, ChanType, HitType
    <3> QED
      BY <2>4, <3>2, <3>3, <3>4
  <2>8. \A e \in Chans : y[e].triggered => y[e].score <= y[l].score
    BY <1>2, <2>4, <2>6, <2>7
  <2>9. Best(h)
    BY <2>3, <2>5, <2>6, <2>8 DEF Best
  <2>10. h.active
    BY <2>3 DEF ChoiceOK
  <2> QED
    BY <1>3, <2>3, <2>9, <2>10 DEF ChoiceOK
<1> QED
  BY <1>7, <1>8

\* The counters of the detector have no part in the choice.
LEMMA CountedChoice ==
    ASSUME NEW d \in DetType, NEW n, ChoiceOK(d, n), NEW i \in Nat
    PROVE  /\ ChoiceOK([d EXCEPT !.postCallback = i], n)
           /\ ChoiceOK([d EXCEPT !.postTrigger = i], n)
<1> DEFINE e == [d EXCEPT !.postCallback = i]
           f == [d EXCEPT !.postTrigger = i]
<1>1. /\ e.ch = d.ch /\ e.triggered = d.triggered /\ e.armed = d.armed /\ e.active = d.active
      /\ e.chosen = d.chosen /\ e.begin = d.begin
      /\ f.ch = d.ch /\ f.triggered = d.triggered /\ f.armed = d.armed /\ f.active = d.active
      /\ f.chosen = d.chosen /\ f.begin = d.begin
  BY DEF DetType
<1> HIDE DEF e, f
<1>2. ChoiceOK(e, n) /\ ChoiceOK(f, n)
  BY <1>1 DEF ChoiceOK, Best
<1> QED
  BY <1>2 DEF e, f

\* A detector that is disarmed is typed and has chosen nothing.
LEMMA DisarmedTyped ==
    ASSUME NEW d \in DetType
    PROVE  /\ Disarmed(d).armed = FALSE /\ Disarmed(d).triggered = FALSE
           /\ Disarmed(d).ch = [c \in Chans |-> NoChan] /\ Disarmed(d) \in DetType
           /\ Disarmed(d).active = d.active
<1> DEFINE none == [c \in Chans |-> NoChan]
<1>1. none \in [Chans -> ChanType]
  BY DEF ChanType, NoChan
<1>2. Disarmed(d) = [d EXCEPT !.armed = FALSE, !.triggered = FALSE, !.ch = none]
  BY DEF Disarmed
<1> HIDE DEF none
<1>3. /\ Disarmed(d).armed = FALSE /\ Disarmed(d).triggered = FALSE
      /\ Disarmed(d).ch = none /\ Disarmed(d) \in DetType /\ Disarmed(d).active = d.active
  BY <1>1, <1>2 DEF DetType
<1> QED
  BY <1>3 DEF none

\* A detector that is disarmed, or armed again, has chosen nothing.
LEMMA EmptyChoice ==
    ASSUME NEW d \in DetType, NEW n
    PROVE  ChoiceOK(Disarmed(d), n) /\ (d.active => ChoiceOK(Armed(d), n))
<1>2. /\ Armed(d).armed = TRUE /\ Armed(d).triggered = FALSE /\ Armed(d).active = d.active
      /\ Armed(d).ch = [c \in Chans |-> NoChan] /\ Armed(d).chosen = None
  <2> DEFINE e == Disarmed(d)
  <2>1. /\ e \in DetType /\ e.triggered = FALSE /\ e.active = d.active
        /\ e.ch = [c \in Chans |-> NoChan]
    BY DisarmedTyped
  <2>2. Armed(d) = [e EXCEPT !.armed = TRUE, !.chosen = None, !.postTrigger = 0,
                             !.postCallback = 0]
    BY DEF Armed
  <2> HIDE DEF e
  <2> QED
    BY <2>1, <2>2 DEF DetType
<1>3. \A c \in Chans : ~[x \in Chans |-> NoChan][c].triggered
  BY DEF NoChan
<1> QED
  BY <1>2, <1>3, DisarmedTyped DEF ChoiceOK

\* The event counts back what the channel it chose has counted.
LEMMA ToldLate ==
    ASSUME NEW d \in DetType, NEW n \in Nat, ChoiceOK(d, n), d.triggered
    PROVE  Late(Told(Adjusted(d), n), n)
<1> DEFINE x == d.ch[d.chosen]
           a == Adjusted(d)
           r == Told(a, n)
<1>1. /\ d.chosen \in Chans /\ x.triggered /\ d.begin = x.begin /\ Counts(x, n)
      /\ \A e \in Chans : d.ch[e].triggered => d.ch[e].score <= x.score
  BY DEF ChoiceOK, Best
<1>2. x \in ChanType
  BY <1>1 DEF DetType
<1>3. x.post * FrameQty \in Nat
  <2>1. \A i, j \in Nat : i * j \in Nat
    OBVIOUS
  <2> QED
    BY <1>2, <2>1, Sizes DEF ChanType
<1>4. a.begin = d.begin - x.post * FrameQty /\ a.ch = d.ch
  BY DEF Adjusted, DetType
<1>5. r.begin = n + a.begin
  BY DEF Told
<1>6. x.at \in r.heard \cap Int
  <2>1. r.heard = {a.ch[c].at : c \in {c \in Chans : /\ a.ch[c].triggered
                      /\ \A e \in Chans : a.ch[e].triggered => a.ch[e].score <= a.ch[c].score}}
    BY DEF Told
  <2> HIDE DEF a, r
  <2> QED
    BY <1>1, <1>2, <1>4, <2>1 DEF ChanType
<1> HIDE DEF x, a, r
<1>7. PICK k \in Nat, m \in Nat :
        /\ x.post + m * ByteQty = k /\ x.post < ByteQty
        /\ x.at = n - k * FrameQty + x.begin
        /\ k * FrameQty + FrameQty <= n
  BY <1>1 DEF Counts
<1>8. m * ByteQty \in Nat /\ x.post \in Nat /\ FrameQty \in Nat /\ x.begin \in Int
  <2>1. \A i, j \in Nat : i * j \in Nat
    OBVIOUS
  <2> QED
    BY <1>2, <2>1, SizesAssumption DEF ChanType
<1>9. k * FrameQty = x.post * FrameQty + (m * ByteQty) * FrameQty
  <2>1. \A i, j, f \in Nat : (i + j) * f = i * f + j * f
    OBVIOUS
  <2> DEFINE w == m * ByteQty
  <2>2. w \in Nat /\ k = x.post + w
    BY <1>7, <1>8
  <2> HIDE DEF w
  <2>3. k * FrameQty = x.post * FrameQty + w * FrameQty
    BY <1>8, <2>1, <2>2
  <2> QED
    BY <2>3 DEF w
<1>10. (m * ByteQty) * FrameQty \in Nat
  <2>1. \A i, j \in Nat : i * j \in Nat
    OBVIOUS
  <2> QED
    BY <1>8, <2>1
<1>11. /\ r.begin = x.at + (m * ByteQty) * FrameQty
       /\ (m * ByteQty) * FrameQty + FrameQty <= n
  <2> DEFINE w == (m * ByteQty) * FrameQty
             p == x.post * FrameQty
             t == k * FrameQty
  <2>1. w \in Nat /\ p \in Nat /\ t = p + w /\ t + FrameQty <= n
        /\ x.at = n - t + x.begin /\ r.begin = n + (x.begin - p)
    BY <1>1, <1>3, <1>4, <1>5, <1>7, <1>9, <1>10
  <2> HIDE DEF w, p, t
  <2>2. r.begin = x.at + w /\ w + FrameQty <= n
    BY <1>8, <2>1
  <2> QED
    BY <2>2 DEF w
<1>12. Late(r, n)
  BY <1>6, <1>11 DEF Late
<1> QED
  BY <1>12 DEF r, a

\* What was late stays as late as it was.
LEMMA LateOn ==
    ASSUME NEW r, NEW now0 \in Nat, NEW n \in Nat, now0 <= n, Late(r, now0)
    PROVE  Late(r, n)
<1>1. PICK b \in r.heard \cap Int, m \in Nat :
        /\ r.begin = b + (m * ByteQty) * FrameQty
        /\ m # 0 => (m * ByteQty) * FrameQty + FrameQty <= now0
  BY DEF Late
<1>2. (m * ByteQty) * FrameQty + FrameQty \in Nat
  <2>1. \A i, j \in Nat : i * j \in Nat /\ i + j \in Nat
    OBVIOUS
  <2> QED
    BY <2>1, SizesAssumption
<1> DEFINE w == (m * ByteQty) * FrameQty + FrameQty
<1>3. w \in Nat /\ (m # 0 => w <= now0)
  BY <1>1, <1>2
<1> HIDE DEF w
<1>4. m # 0 => w <= n
  BY <1>3
<1> QED
  BY <1>1, <1>4 DEF Late, w

\* What the detector does with a frame keeps the choice and the event.
LEMMA DetectorChoice ==
    ASSUME DetOK(det), now \in Nat, ChoiceOK(det, now), Late(report, now),
           Detector(now + FrameQty)
    PROVE  ChoiceOK(det', now + FrameQty) /\ Late(report', now + FrameQty)
<1> DEFINE n == now + FrameQty
           Counted(d) == [d EXCEPT !.postCallback = @ + 1]
           Ready(d)   == [d EXCEPT !.postTrigger = @ + 1]
<1> SUFFICES ChoiceOK(det', n) /\ Late(report', n)
  OBVIOUS
<1>1. n \in Nat /\ now <= n
  BY Sizes
<1>2. Late(report, n)
  BY <1>1, LateOn
<1>3. \A d \in DetType : ChoiceOK(d, n) =>
        /\ Counted(d) \in DetType /\ Ready(d) \in DetType
        /\ ChoiceOK(Counted(d), n) /\ ChoiceOK(Ready(d), n)
        /\ Counted(d).active = d.active /\ Ready(d).active = d.active
        /\ Counted(d).triggered = d.triggered /\ Ready(d).triggered = d.triggered
        /\ Counted(d).armed = d.armed /\ Ready(d).armed = d.armed
  <2> SUFFICES ASSUME NEW d \in DetType, ChoiceOK(d, n)
               PROVE  /\ Counted(d) \in DetType /\ Ready(d) \in DetType
                      /\ ChoiceOK(Counted(d), n) /\ ChoiceOK(Ready(d), n)
                      /\ Counted(d).active = d.active /\ Ready(d).active = d.active
                      /\ Counted(d).triggered = d.triggered /\ Ready(d).triggered = d.triggered
                      /\ Counted(d).armed = d.armed /\ Ready(d).armed = d.armed
    OBVIOUS
  <2>1. d.postCallback + 1 \in Nat /\ d.postTrigger + 1 \in Nat
    BY DEF DetType
  <2>2. ChoiceOK(Counted(d), n) /\ ChoiceOK(Ready(d), n)
    BY <2>1, CountedChoice
  <2>3. /\ Counted(d) \in DetType /\ Ready(d) \in DetType
        /\ Counted(d).active = d.active /\ Ready(d).active = d.active
        /\ Counted(d).triggered = d.triggered /\ Ready(d).triggered = d.triggered
        /\ Counted(d).armed = d.armed /\ Ready(d).armed = d.armed
    BY DEF DetType
  <2> QED
    BY <2>2, <2>3
<1>4. det \in DetType
  BY DEF DetOK
<1>5. CASE ~det.armed
  <2>1. det' = Counted(det) /\ report' = report
    BY <1>5 DEF Detector
  <2>2. ChoiceOK(det, n)
    BY <1>5 DEF ChoiceOK
  <2> QED
    BY <1>2, <1>3, <1>4, <2>1, <2>2
<1>6. CASE det.armed
  <2>1. PICK hits \in Hits(n) :
          LET d1 == Ready(Counted(Heard(det, hits, n))) IN
          \/ det' = Counted(Heard(det, hits, n)) /\ report' = report
          \/ det' = d1 /\ report' = report
          \/ det' = Armed(d1) /\ report' = report
          \/ /\ Counted(Heard(det, hits, n)).triggered
             /\ report' = Told(Adjusted(d1), n)
             /\ det' = [Disarmed(Adjusted(d1)) EXCEPT !.postCallback = 0]
    BY <1>6 DEF Detector
  <2> DEFINE h  == Heard(det, hits, n)
             d0 == Counted(h)
             d1 == Ready(d0)
  <2>2. h \in DetType /\ h.active = det.active /\ ChoiceOK(h, n)
    <3>1. hits \in [Chans -> HitType]
      BY <1>1, HitsTyped
    <3>2. DetOK(h) /\ h.active = det.active
      BY <1>1, <3>1, HeardOK
    <3> QED
      BY <1>4, <1>6, <3>1, <3>2, HeardChoice DEF DetOK
  <2>3. det.active
    BY <1>6 DEF ChoiceOK
  <2> HIDE DEF h
  <2>4. d0 \in DetType /\ ChoiceOK(d0, n) /\ d0.active = h.active
    BY <1>3, <2>2
  <2> HIDE DEF d0
  <2>5. d1 \in DetType /\ ChoiceOK(d1, n) /\ d1.active = d0.active
        /\ d1.triggered = d0.triggered
    BY <1>3, <2>4
  <2> HIDE DEF d1, n
  <2>6. CASE det' = d0 /\ report' = report
    BY <1>2, <2>4, <2>6
  <2>7. CASE det' = d1 /\ report' = report
    BY <1>2, <2>5, <2>7
  <2>8. CASE det' = Armed(d1) /\ report' = report
    BY <1>2, <2>2, <2>3, <2>4, <2>5, <2>8, EmptyChoice
  <2>9. CASE /\ d0.triggered /\ report' = Told(Adjusted(d1), n)
             /\ det' = [Disarmed(Adjusted(d1)) EXCEPT !.postCallback = 0]
    <3>1. Late(report', n)
      BY <1>1, <2>5, <2>9, ToldLate
    <3>2. Adjusted(d1) \in DetType
      <4> DEFINE back == d1.ch[d1.chosen].post * FrameQty
      <4>1. d1.chosen \in Chans
        BY <2>5, <2>9 DEF ChoiceOK, Best
      <4>2. back \in Int
        <5>1. d1.ch[d1.chosen].post \in Nat /\ FrameQty \in Nat
          BY <2>5, <4>1, Sizes DEF DetType, ChanType
        <5> QED
          BY <5>1
      <4>3. Adjusted(d1) = [d1 EXCEPT !.begin = @ - back, !.end = @ - back]
        BY DEF Adjusted
      <4> HIDE DEF back
      <4>4. d1.begin - back \in Int /\ d1.end - back \in Int
        BY <2>5, <4>2 DEF DetType
      <4>5. \A x, y \in Int : [d1 EXCEPT !.begin = x, !.end = y] \in DetType
        BY <2>5 DEF DetType
      <4> QED
        BY <4>3, <4>4, <4>5
    <3> DEFINE e == Disarmed(Adjusted(d1))
    <3>3. ChoiceOK(e, n) /\ e \in DetType
      BY <3>2, EmptyChoice, DisarmedTyped
    <3> HIDE DEF e
    <3>4. ChoiceOK([e EXCEPT !.postCallback = 0], n)
      <4>1. 0 \in Nat
        OBVIOUS
      <4> QED
        BY <3>3, <4>1, CountedChoice
    <3> QED
      BY <2>9, <3>1, <3>4 DEF e
  <2> QED
    BY <2>1, <2>6, <2>7, <2>8, <2>9 DEF h, d0, d1
<1> QED
  BY <1>5, <1>6

\* At the start nothing has been told.
LEMMA EventInit == Init => EventInv
<1> SUFFICES ASSUME Init PROVE EventInv
  OBVIOUS
<1>1. ChoiceOK(det, now)
  BY DEF Init, ChoiceOK, NoChan
<1>2. Late(report, now)
  <2>1. 0 * ByteQty = 0 /\ 0 * FrameQty = 0
    BY SizesAssumption
  <2>2. report.begin = 0 + (0 * ByteQty) * FrameQty /\ 0 \in report.heard \cap Int
    BY <2>1 DEF Init, NoReport
  <2> QED
    BY <2>2 DEF Late
<1>3. Read(now)
  <2>1. 0 \in 0 .. MaxFrames /\ 0 * FrameQty = 0
    BY SizesAssumption
  <2> QED
    BY <2>1 DEF Init, Read
<1> QED
  BY <1>1, <1>2, <1>3 DEF EventInv

\* A report that is no longer fresh tells the same.
LEMMA StaleLate ==
    ASSUME Late(report, now), report' = [report EXCEPT !.fresh = FALSE]
    PROVE  Late(report', now)
<1>1. report'.begin = report.begin /\ report'.heard = report.heard
  OBVIOUS
<1> QED
  BY <1>1 DEF Late

\* One more frame is read.
LEMMA ReadOn ==
    ASSUME NEW n, Read(n), n < MaxFrames * FrameQty
    PROVE  Read(n + FrameQty)
<1>1. PICK k \in 0 .. MaxFrames : n = k * FrameQty
  BY DEF Read
<1>2. FrameQty \in Nat /\ MaxFrames \in Nat
  BY SizesAssumption
<1>3. k # MaxFrames
  <2>1. \A i, j \in Nat : i * j \in Nat
    OBVIOUS
  <2> QED
    BY <1>1, <1>2, <2>1
<1>4. k + 1 \in 0 .. MaxFrames
  BY <1>2, <1>3
<1>5. n + FrameQty = (k + 1) * FrameQty
  <2>1. \A i, j \in Nat : (i + 1) * j = i * j + j
    OBVIOUS
  <2> QED
    BY <1>1, <1>2, <2>1
<1> QED
  BY <1>4, <1>5 DEF Read

\* Every step keeps the choice and the event.
LEMMA EventStep == KeywordInv /\ EventInv /\ [Next]_vars => EventInv'
<1> SUFFICES ASSUME KeywordInv, EventInv, [Next]_vars PROVE EventInv'
  OBVIOUS
<1>1. det \in DetType /\ DetOK(det) /\ now \in Nat
  BY DEF KeywordInv, DetShape, DetOK, RingShape
<1>2. CASE UNCHANGED vars
  BY <1>2 DEF vars, EventInv, ChoiceOK, Best, Counts, Late, Read
<1>3. CASE Detect
  <2>1. now' = now /\ report' = [report EXCEPT !.fresh = FALSE]
        /\ det' = IF det.active THEN Armed(det) ELSE [Armed(det) EXCEPT !.active = TRUE]
    BY <1>3 DEF Detect
  <2> DEFINE a == [det EXCEPT !.active = TRUE]
  <2>2. a \in DetType /\ a.active
    BY <1>1 DEF DetType
  <2>3. det' = Armed(a)
    <3>1. det.active => det = a
      BY <1>1 DEF DetType
    <3>2. Armed(a) = [Armed(det) EXCEPT !.active = TRUE]
      <4> DEFINE none == [c \in Chans |-> NoChan]
      <4>1. /\ Armed(det) = [[det EXCEPT !.armed = FALSE, !.triggered = FALSE, !.ch = none]
                             EXCEPT !.armed = TRUE, !.chosen = None, !.postTrigger = 0,
                                    !.postCallback = 0]
            /\ Armed(a) = [[a EXCEPT !.armed = FALSE, !.triggered = FALSE, !.ch = none]
                             EXCEPT !.armed = TRUE, !.chosen = None, !.postTrigger = 0,
                                    !.postCallback = 0]
        BY DEF Armed, Disarmed
      <4> HIDE DEF none
      <4> QED
        BY <1>1, <4>1 DEF DetType
    <3> QED
      BY <2>1, <3>1, <3>2
  <2> HIDE DEF a
  <2>4. ChoiceOK(det', now)
    BY <2>2, <2>3, EmptyChoice
  <2>5. Late(report', now)
    BY <2>1, StaleLate DEF EventInv
  <2> QED
    BY <2>1, <2>4, <2>5 DEF EventInv
<1>4. CASE RecordStart
  <2> DEFINE d(r) == IF r.from = "keywordEnd" /\ ~det.triggered
                     THEN [det EXCEPT !.postCallback = 0] ELSE det
  <2>1. PICK r \in Requests : det' = IF r.group = "tap" THEN d(r) ELSE Disarmed(d(r))
    BY <1>4 DEF RecordStart
  <2>2. now' = now /\ report' = [report EXCEPT !.fresh = FALSE]
    BY <1>4 DEF RecordStart
  <2>3. d(r) \in DetType /\ ChoiceOK(d(r), now)
    <3>1. 0 \in Nat
      OBVIOUS
    <3>2. [det EXCEPT !.postCallback = 0] \in DetType
      BY <1>1 DEF DetType
    <3>3. ChoiceOK(det, now) /\ ChoiceOK([det EXCEPT !.postCallback = 0], now)
      BY <1>1, <3>1, CountedChoice DEF EventInv
    <3> QED
      BY <1>1, <3>2, <3>3
  <2> HIDE DEF d
  <2>4. ChoiceOK(det', now)
    BY <2>1, <2>3, EmptyChoice
  <2>5. Late(report', now)
    BY <2>2, StaleLate DEF EventInv
  <2> QED
    BY <2>2, <2>4, <2>5 DEF EventInv
<1>5. CASE RecordStop
  <2>1. now' = now /\ det' = det /\ report' = report
    BY <1>5 DEF RecordStop
  <2> QED
    BY <2>1 DEF EventInv
<1>6. CASE MicFrame
  <2>1. now < MaxFrames * FrameQty /\ now' = now + FrameQty
        /\ IF det.active THEN Detector(now + FrameQty) ELSE UNCHANGED <<det, report>>
    BY <1>6 DEF MicFrame
  <2>2. Read(now')
    BY <2>1, ReadOn DEF EventInv
  <2>3. CASE det.active
    BY <1>1, <2>1, <2>2, <2>3, DetectorChoice DEF EventInv
  <2>4. CASE ~det.active
    <3>1. ChoiceOK(det, now')
      BY <2>4 DEF EventInv, ChoiceOK
    <3>2. Late(report, now')
      BY <1>1, <2>1, Sizes, LateOn DEF EventInv
    <3> QED
      BY <2>1, <2>2, <2>4, <3>1, <3>2 DEF EventInv
  <2> QED
    BY <2>3, <2>4
<1> QED
  BY <1>2, <1>3, <1>4, <1>5, <1>6 DEF Next

\* The choice and the event are right in every reachable state.
LEMMA EventAlways == Spec => []EventInv
BY KeywordInvariant, EventInit, EventStep, PTL DEF Spec

\* Where the event is late at all, it is late by whole turns of the 8-bit count of
\* frames since the keyword.
ReportLate == \E b \in report.heard, m \in Nat : report.begin = b + (m * ByteQty) * FrameQty

\* However many channels trigger, and in whichever frames, the begin of the event is
\* that of a channel that is as sure as any, but for turns of post_frame_count.
THEOREM ReportNearlyTrue == Spec => []ReportLate
<1>1. EventInv => ReportLate
  BY DEF EventInv, Late, ReportLate
<1> QED
  BY <1>1, EventAlways, PTL

\* Within the first 256 frames the event tells the truth: the counts of the channels
\* cannot have turned, and what they count back leads to where the keyword began
\* (xraudio_thread.c:2772).
THEOREM ReportIsTrue ==
    ASSUME MaxFrames <= ByteQty
    PROVE  Spec => []ReportTrue
<1>1. EventInv => ReportTrue
  <2> SUFFICES ASSUME EventInv PROVE ReportTrue
    OBVIOUS
  <2>1. PICK b \in report.heard \cap Int, m \in Nat :
          /\ report.begin = b + (m * ByteQty) * FrameQty
          /\ m # 0 => (m * ByteQty) * FrameQty + FrameQty <= now
    BY DEF EventInv, Late
  <2>2. PICK k \in 0 .. MaxFrames : now = k * FrameQty
    BY DEF EventInv, Read
  <2>3. FrameQty \in Nat \ {0} /\ ByteQty \in Nat \ {0} /\ MaxFrames \in Nat
    BY SizesAssumption
  <2>4. m = 0
    <3> SUFFICES ASSUME m # 0 PROVE FALSE
      OBVIOUS
    <3>1. \A i, j \in Nat : i # 0 => j <= i * j
      OBVIOUS
    <3> DEFINE w == m * ByteQty
    <3>2. w \in Nat /\ k <= w
      <4>1. \A i, j \in Nat : i * j \in Nat
        OBVIOUS
      <4>2. w \in Nat /\ ByteQty <= w
        BY <2>3, <3>1, <4>1
      <4> HIDE DEF w
      <4> QED
        BY <2>3, <4>2
    <3>3. w * FrameQty + FrameQty <= k * FrameQty
      BY <2>1, <2>2
    <3> HIDE DEF w
    <3>4. \A i, j, f \in Nat : i <= j => i * f <= j * f
      OBVIOUS
    <3>5. \A i, j \in Nat : i * j \in Nat
      OBVIOUS
    <3>6. k * FrameQty <= w * FrameQty /\ k * FrameQty \in Nat /\ w * FrameQty \in Nat
      BY <2>3, <3>2, <3>4, <3>5
    <3> QED
      BY <2>3, <3>3, <3>6
  <2>5. (m * ByteQty) * FrameQty = 0
    <3>1. m * ByteQty = 0 /\ 0 * FrameQty = 0
      BY <2>3, <2>4
    <3> QED
      BY <3>1
  <2> DEFINE w == (m * ByteQty) * FrameQty
  <2>6. w = 0 /\ report.begin = b + w
    BY <2>1, <2>5
  <2> HIDE DEF w
  <2>7. report.begin = b
    BY <2>6
  <2> QED
    BY <2>1, <2>7 DEF ReportTrue
<1> QED
  BY <1>1, EventAlways, PTL

-----------------------------------------------------------------------------
(* The streams, sample by sample.                                          *)

\* The clients take all the cares of Care, a stream that begins in the past goes to a
\* pipe and begins at a keyword, what the end of speech ends is a pipe, and less is
\* read than pre_detection_sample_qty can count.
AsIntended ==
    /\ Care = Cares /\ MaxFrames * FrameQty < WordQty
    /\ \A r \in Requests :
          /\ r.from = "live" \/ (r.from = "keywordBegin" /\ r.dest = "pipe")
          /\ r.until = "speech" => r.dest = "pipe"

\* The samples from m on that a ring still has are undamaged.
IntactIn(rg, m) == \A n \in 1 .. avail : m <= now - n => rg[Place(n)] = now - n
Intact(m) == IntactIn(ring, m)
\* The last p samples of a ring are those from n on.
Past(rg, p, n) == \A j \in 1 .. p : Chunks(rg, p)[j] = n + j - 1
\* A stream that delivers; one that has still to take its past from the ring.
Flows(i) == i.on /\ i.dest # "none"
Pends(g) == Flows(inst[g]) /\ Pre(inst[g]) > 0

StrmType == [want : Int, out : Seq(Int), upTo : Int]
Follows(s) == \A i \in DOMAIN s.out : s.out[i] = s.want + i - 1
Done(s)    == s.upTo # None => Len(s.out) = s.upTo - s.want
\* A stream has delivered all before sample n, and goes on.
Delivered(s, n) == s.upTo = None /\ s.want + Len(s.out) = n

\* The fields of a report.
ReportShape(r) ==
    r = [begin |-> r.begin, end |-> r.end, heard |-> r.heard, fresh |-> r.fresh]
\* While an event is fresh, what the detector kept and the frames since tell where
\* the keyword began, and nothing is to be taken from the ring.
FreshOK ==
    /\ ReportShape(report)
    /\ report.fresh => /\ det.active /\ ~det.armed
                       /\ report.begin = (now - det.postCallback * FrameQty) + det.begin
                       /\ \A g \in Groups : ~Pends(g)
\* What was heard since the detector was armed is undamaged until the event is used.
UnreadOK == armedAt \in Nat /\ (det.armed \/ report.fresh => Intact(armedAt))
\* A stream takes its past before another frame comes, and no other one does.
PendsOK ==
    \A g \in Groups : Pends(g) =>
        /\ Intact(now - inst[g].pre) /\ (det.armed => armedAt = now) /\ idx = 0
        /\ strm[g].out = <<>> /\ strm[g].want = now - inst[g].pre /\ strm[g].upTo = None
        /\ \A h \in Groups : Pends(h) => h = g
\* The frames counted are those of the default group; beside the tap none are left over.
GroupsOK ==
    /\ \A g \in Groups : /\ ~inst[g].on => inst[g] = NoInst
                         /\ inst[g].until = "speech" => inst[g].dest # "user"
                         /\ inst[g].on /\ inst[g].dest = "none" => strm[g].upTo # None
    /\ inst["default"].on => idx < inst["default"].qty
    /\ inst["tap"].on => idx = 0 /\ inst["tap"].qty = 1 /\ inst["default"].qty = 1
\* A stream has delivered all but the frames that are counted.
StreamsOK ==
    /\ strm \in [Groups -> StrmType]
    /\ \A g \in Groups :
          /\ Follows(strm[g]) /\ Done(strm[g])
          /\ Flows(inst[g]) /\ ~Pends(g) => Delivered(strm[g], now - idx * FrameQty)
StreamInv == FreshOK /\ UnreadOK /\ PendsOK /\ GroupsOK /\ StreamsOK

\* More samples, that go on where the stream is.
LEMMA MoreFollows ==
    ASSUME NEW s \in StrmType, Follows(s), NEW t \in Seq(Int),
           \A j \in 1 .. Len(t) : t[j] = s.want + Len(s.out) + j - 1
    PROVE  LET b == [s EXCEPT !.out = @ \o t] IN
           /\ b \in StrmType /\ Follows(b) /\ b.want = s.want /\ b.upTo = s.upTo
           /\ Len(b.out) = Len(s.out) + Len(t)
<1> DEFINE b == [s EXCEPT !.out = @ \o t]
<1>1. s.out \in Seq(Int) /\ s.want \in Int
  BY DEF StrmType
<1>2. s.out \o t \in Seq(Int) /\ Len(s.out \o t) = Len(s.out) + Len(t)
  BY <1>1
<1>3. b \in StrmType /\ b.want = s.want /\ b.upTo = s.upTo /\ b.out = s.out \o t
  BY <1>2 DEF StrmType
<1>4. ASSUME NEW i \in 1 .. Len(s.out) + Len(t) PROVE (s.out \o t)[i] = s.want + i - 1
  <2>1. CASE i <= Len(s.out)
    <3>1. i \in DOMAIN s.out /\ (s.out \o t)[i] = s.out[i]
      BY <1>1, <2>1
    <3> QED
      BY <3>1 DEF Follows
  <2>2. CASE Len(s.out) < i
    <3>1. i - Len(s.out) \in 1 .. Len(t) /\ (s.out \o t)[i] = t[i - Len(s.out)]
      BY <1>1, <2>2
    <3>2. t[i - Len(s.out)] = s.want + Len(s.out) + (i - Len(s.out)) - 1
      BY <3>1
    <3>3. Len(s.out) \in Nat
      BY <1>1
    <3> QED
      BY <1>1, <3>1, <3>2, <3>3
  <2>3. Len(s.out) \in Nat /\ Len(t) \in Nat
    BY <1>1
  <2> QED
    BY <2>1, <2>2, <2>3
<1>5. DOMAIN (s.out \o t) = 1 .. Len(s.out) + Len(t)
  BY <1>1, <1>2
<1> HIDE DEF b
<1>6. Follows(b)
  BY <1>3, <1>4, <1>5 DEF Follows
<1> QED
  BY <1>2, <1>3, <1>6 DEF b

\* What a group collects are whole frames.
LiveQty(i, k) == IF k >= i.qty THEN k * FrameQty ELSE 0

\* The frames collected are the last ones read.
LEMMA LiveIs ==
    ASSUME NEW i \in InstType, NEW k \in Nat, NEW m \in Int
    PROVE  /\ Live(i, k, m) \in Seq(Int) /\ Len(Live(i, k, m)) = LiveQty(i, k)
           /\ LiveQty(i, k) \in Nat
           /\ \A j \in 1 .. LiveQty(i, k) : Live(i, k, m)[j] = m - k * FrameQty + j - 1
<1>1. k * FrameQty \in Nat
  <2>1. \A a, b \in Nat : a * b \in Nat
    OBVIOUS
  <2> QED
    BY <2>1, Sizes
<1> DEFINE q == k * FrameQty
<1>2. CASE k >= i.qty
  <2>1. Live(i, k, m) = [j \in 1 .. q |-> m - q + j - 1] /\ LiveQty(i, k) = q
    BY <1>2 DEF Live, LiveQty, Newest
  <2>2. q \in Nat
    BY <1>1
  <2> HIDE DEF q
  <2>3. [j \in 1 .. q |-> m - q + j - 1] \in Seq(Int)
        /\ Len([j \in 1 .. q |-> m - q + j - 1]) = q
    BY <2>2
  <2> QED
    BY <2>1, <2>2, <2>3 DEF q
<1>3. CASE ~(k >= i.qty)
  BY <1>3 DEF Live, LiveQty
<1> QED
  BY <1>2, <1>3

-----------------------------------------------------------------------------
(* The writers, for a stream that delivers.                                *)

\* What a writer has done that gave group g the p samples from the ring, and the
\* frames that end before sample n.
Given(a, b, g, p, n) ==
    /\ b.inst = [a.inst EXCEPT ![g].pre = @ - p]
    /\ b.strm \in [Groups -> StrmType]
    /\ \A h \in Groups : h # g => b.strm[h] = a.strm[h]
    /\ Follows(b.strm[g]) /\ Delivered(b.strm[g], n)
    /\ b.ring = IF p > 0 THEN Converted(a.ring, p) ELSE a.ring

\* A writer gives a stream its past, in one go, and the frames collected.
LEMMA ServeFlows ==
    ASSUME NEW st, StateShape(st), st.strm \in [Groups -> StrmType], NEW g \in Groups,
           NEW k \in Nat, NEW m \in Int, NEW e \in Int, e = m - k * FrameQty, Flows(st.inst[g]), Follows(st.strm[g]),
           NEW p \in Nat, p = Pre(st.inst[g]),
           Delivered(st.strm[g], e - p), Past(st.ring, p, e - p)
    PROVE  Given(st, Serve(st, g, k, m), g, p, e + LiveQty(st.inst[g], k))
<1> DEFINE i == st.inst[g]
           s == st.strm[g]
           c == Chunks(st.ring, p)
           l == Live(i, k, m)
           s1 == [s EXCEPT !.out = @ \o c]
           s2 == [s1 EXCEPT !.out = @ \o l]
           b  == Serve(st, g, k, m)
<1>1. i \in InstType /\ s \in StrmType
  BY DEF StateShape
<1>2. s.upTo = None /\ s.want + Len(s.out) = e - p /\ s.want \in Int /\ Len(s.out) \in Nat
  BY <1>1 DEF Delivered, StrmType
<1>3. b = [ring |-> IF p > 0 THEN Converted(st.ring, p) ELSE st.ring,
           inst |-> [st.inst EXCEPT ![g].pre = @ - p],
           strm |-> [st.strm EXCEPT ![g].out = @ \o c \o l]]
  BY DEF Serve, Flows
<1>4. c \in Seq(Int) /\ Len(c) = p /\ \A j \in 1 .. p : c[j] = e - p + j - 1
  <2>1. c = [j \in 1 .. p |-> c[j]]
    BY DEF Chunks
  <2>2. \A j \in 1 .. p : c[j] = e - p + j - 1
    BY DEF Past
  <2>3. \A j \in 1 .. p : c[j] \in Int
    BY <2>2
  <2> HIDE DEF c
  <2> QED
    BY <2>1, <2>2, <2>3 DEF c
<1>5. l \in Seq(Int) /\ Len(l) = LiveQty(i, k) /\ LiveQty(i, k) \in Nat
      /\ \A j \in 1 .. LiveQty(i, k) : l[j] = e + j - 1
  <2>1. l \in Seq(Int) /\ Len(l) = LiveQty(i, k) /\ LiveQty(i, k) \in Nat
        /\ \A j \in 1 .. LiveQty(i, k) : l[j] = m - k * FrameQty + j - 1
    BY <1>1, LiveIs
  <2> QED
    BY <2>1
<1> HIDE DEF c, l, i, b
<1>6. /\ s1 \in StrmType /\ Follows(s1) /\ s1.want = s.want /\ s1.upTo = s.upTo
      /\ Len(s1.out) = Len(s.out) + p
  <2>1. \A j \in 1 .. Len(c) : c[j] = s.want + Len(s.out) + j - 1
    BY <1>1, <1>2, <1>4
  <2> HIDE DEF s
  <2>2. Follows(s)
    BY DEF s
  <2> QED
    BY <1>1, <1>4, <2>1, <2>2, MoreFollows
<1>7. /\ s2 \in StrmType /\ Follows(s2) /\ s2.want = s1.want /\ s2.upTo = s1.upTo
      /\ Len(s2.out) = Len(s1.out) + Len(l)
  <2>1. s1.want + Len(s1.out) = e
    <3>1. \A x \in Int, l1, l2 \in Nat : x + l1 = e - p /\ l2 = l1 + p => x + l2 = e
      BY <1>1
    <3> HIDE DEF s1, s2, s
    <3>2. Len(s1.out) \in Nat
      BY <1>2, <1>6
    <3> QED
      BY <1>2, <1>6, <3>1, <3>2
  <2>2. \A j \in 1 .. Len(l) : l[j] = s1.want + Len(s1.out) + j - 1
    BY <1>1, <1>5, <2>1
  <2> HIDE DEF s1
  <2> QED
    BY <1>5, <1>6, <2>2, MoreFollows
<1>8. b.strm = [st.strm EXCEPT ![g] = s2]
  <2>1. s2 = [s EXCEPT !.out = @ \o c \o l]
    BY <1>1 DEF StrmType
  <2> HIDE DEF s2
  <2>2. b.strm = [st.strm EXCEPT ![g] = [s EXCEPT !.out = @ \o c \o l]]
    BY <1>3
  <2> QED
    BY <2>1, <2>2
<1>9. s2.upTo = None /\ s2.want + Len(s2.out) = e + LiveQty(i, k)
  <2> DEFINE v == LiveQty(i, k)
  <2>6. v \in Nat
    BY <1>5
  <2> HIDE DEF s2, s1, s, v
  <2>1. \A x \in Int, l1, l2 \in Nat :
          x + l1 = e - p /\ l2 = l1 + p + v => x + l2 = e + v
    BY <2>6
  <2>2. Len(s2.out) = Len(s.out) + p + v
    BY <1>5, <1>6, <1>7 DEF v
  <2>3. Len(s2.out) \in Nat
    BY <1>2, <1>5, <2>2 DEF v
  <2>4. s2.upTo = None /\ s2.want = s.want
    BY <1>2, <1>6, <1>7
  <2>5. s2.want + Len(s2.out) = e + v
    <3>1. s.want \in Int /\ Len(s.out) \in Nat /\ s.want + Len(s.out) = e - p
      BY <1>2
    <3> QED
      BY <2>1, <2>2, <2>3, <2>4, <3>1
  <2> QED
    BY <2>4, <2>5 DEF v
<1> HIDE DEF s2
<1>10. b.strm \in [Groups -> StrmType] /\ b.strm[g] = s2
       /\ \A h \in Groups : h # g => b.strm[h] = st.strm[h]
  BY <1>7, <1>8
<1>11. Delivered(b.strm[g], e + LiveQty(i, k)) /\ Follows(b.strm[g])
  BY <1>7, <1>9, <1>10 DEF Delivered
<1> QED
  BY <1>3, <1>10, <1>11 DEF Given, i, b

\* A writer gives nothing to a group that does not stream.
LEMMA ServeNone ==
    ASSUME NEW st, NEW g, NEW k, NEW m, ~Flows(st.inst[g])
    PROVE  Serve(st, g, k, m) = st
BY DEF Serve, Flows

\* What a flush has done to group g: it has all that was read before sample n.
Flushed(a, b, g, p, n) ==
    /\ StateShape(b) /\ b.strm \in [Groups -> StrmType]
    /\ \A h \in Groups : h # g => b.strm[h] = a.strm[h] /\ b.inst[h] = a.inst[h]
    /\ b.inst[g] = [a.inst[g] EXCEPT !.pre = @ - p, !.qty = IF g = "tap" THEN @ ELSE 1]
    /\ Follows(b.strm[g]) /\ Delivered(b.strm[g], n)
    /\ b.ring = IF p > 0 THEN Converted(a.ring, p) ELSE a.ring

\* What is flushed is all that was collected.
LEMMA FlushFlows ==
    ASSUME NEW st, StateShape(st), st.strm \in [Groups -> StrmType], NEW g \in Groups,
           NEW k \in Nat, NEW m \in Int, NEW e \in Int, e = m - k * FrameQty, Flows(st.inst[g]), Follows(st.strm[g]),
           NEW p \in Nat, p = Pre(st.inst[g]),
           g = "tap" => k = 0,
           Delivered(st.strm[g], e - p), Past(st.ring, p, e - p)
    PROVE  Flushed(st, Flush(st, g, k, m), g, p, m)
<1> DEFINE s1 == IF g = "tap" THEN st ELSE [st EXCEPT !.inst[g].qty = 1]
           b  == Flush(st, g, k, m)
           i  == st.inst[g]
<1>1. b = Serve(s1, g, k, m) /\ StateShape(b)
  BY FlushServes DEF Flush, Served
<1>2. i \in InstType
  BY DEF StateShape
<1>3. /\ s1.ring = st.ring /\ s1.strm = st.strm /\ StateShape(s1)
      /\ s1.inst = [st.inst EXCEPT ![g] = [i EXCEPT !.qty = IF g = "tap" THEN @ ELSE 1]]
  <2>1. CASE g = "tap"
    <3>1. s1 = st /\ st.inst = [st.inst EXCEPT ![g] = i] /\ i = [i EXCEPT !.qty = @]
      BY <1>2, <2>1 DEF StateShape, InstType
    <3> QED
      BY <2>1, <3>1
  <2>2. CASE g # "tap"
    <3>1. s1 = [ring |-> st.ring, inst |-> [st.inst EXCEPT ![g].qty = 1], strm |-> st.strm]
      BY <2>2 DEF StateShape
    <3>2. s1.inst = [st.inst EXCEPT ![g] = [i EXCEPT !.qty = 1]]
      BY <3>1
    <3>3. [i EXCEPT !.qty = 1] \in InstType
      BY <1>2 DEF InstType
    <3>4. s1.inst \in [Groups -> InstType]
      BY <3>2, <3>3 DEF StateShape
    <3> QED
      BY <2>2, <3>1, <3>2, <3>4 DEF StateShape
  <2> QED
    BY <2>1, <2>2
<1> DEFINE j1 == [i EXCEPT !.qty = IF g = "tap" THEN @ ELSE 1]
<1>4. s1.inst[g] = j1 /\ \A h \in Groups : h # g => s1.inst[h] = st.inst[h]
  BY <1>3 DEF StateShape
<1>5. j1.pre = i.pre /\ j1.dest = i.dest /\ j1.on = i.on /\ (g # "tap" => j1.qty = 1)
      /\ j1.qty \in Nat \ {0} /\ (g = "tap" => j1.qty = i.qty)
  BY <1>2 DEF InstType
<1>10. [j1 EXCEPT !.pre = @ - p] = [i EXCEPT !.pre = @ - p, !.qty = IF g = "tap" THEN @ ELSE 1]
  <2>1. \A x : [[i EXCEPT !.qty = x] EXCEPT !.pre = @ - p] = [i EXCEPT !.pre = @ - p, !.qty = x]
    BY <1>2 DEF InstType
  <2> DEFINE x == IF g = "tap" THEN i.qty ELSE 1
  <2>2. j1 = [i EXCEPT !.qty = x]
    OBVIOUS
  <2>3. [i EXCEPT !.pre = @ - p, !.qty = IF g = "tap" THEN @ ELSE 1] = [i EXCEPT !.pre = @ - p, !.qty = x]
    BY <1>2 DEF InstType
  <2> HIDE DEF x, j1
  <2> QED
    BY <2>1, <2>2, <2>3
<1> HIDE DEF s1, b, j1
<1>6. Flows(s1.inst[g]) /\ p = Pre(s1.inst[g])
  BY <1>4, <1>5 DEF Flows, Pre
<1>7. Given(s1, b, g, p, e + LiveQty(s1.inst[g], k))
  <2>1. StateShape(s1) /\ s1.strm \in [Groups -> StrmType] /\ Follows(s1.strm[g])
        /\ Delivered(s1.strm[g], e - p) /\ Past(s1.ring, p, e - p)
    BY <1>3
  <2> QED
    BY <1>1, <1>6, <2>1, ServeFlows
<1>8. e + LiveQty(s1.inst[g], k) = m
  <2>1. 0 * FrameQty = 0 /\ k * FrameQty \in Nat
    <3>1. \A x, y \in Nat : x * y \in Nat /\ 0 * y = 0
      OBVIOUS
    <3> QED
      BY <3>1, Sizes
  <2>2. CASE k = 0
    BY <1>4, <1>5, <2>1, <2>2 DEF LiveQty
  <2>3. CASE k # 0
    <3>1. LiveQty(s1.inst[g], k) = k * FrameQty
      BY <1>4, <1>5, <2>3 DEF LiveQty
    <3> QED
      BY <2>1, <3>1
  <2> QED
    BY <2>2, <2>3
<1>9. /\ b.inst[g] = [j1 EXCEPT !.pre = @ - p]
      /\ \A h \in Groups : h # g => b.inst[h] = st.inst[h]
  <2>1. s1.inst \in [Groups -> InstType]
    BY <1>3 DEF StateShape
  <2> QED
    BY <1>4, <1>7, <2>1 DEF Given
<1> QED
  BY <1>1, <1>3, <1>7, <1>8, <1>9, <1>10 DEF b, Given, Flushed

\* An undamaged past is what a stream is given.
LEMMA PastIs ==
    ASSUME RingShape, RingHoldsNewest, NEW p \in 0 .. avail, Intact(now - p)
    PROVE  Past(ring, p, now - p)
<1>1. avail \in Nat /\ now \in Nat
  BY WholeBounds, Sizes DEF RingShape
<1>2. ASSUME NEW j \in 1 .. p PROVE Chunks(ring, p)[j] = now - p + j - 1
  <2>1. p - j + 1 \in 1 .. avail /\ now - p <= now - (p - j + 1)
        /\ now - (p - j + 1) = now - p + j - 1
    BY <1>1
  <2>2. ring[Place(p - j + 1)] = now - (p - j + 1)
    BY <2>1 DEF Intact, IntactIn
  <2>3. Chunks(ring, p)[j] = ring[Place(p - j + 1)]
    BY ChunksAreNewest
  <2> QED
    BY <2>1, <2>2, <2>3
<1> QED
  BY <1>2 DEF Past

\* How many frames a microphone frame leaves collected.
Left == IF idx + 1 >= inst["default"].qty THEN 0 ELSE idx + 1
\* What a stream has been given once the writers have had a frame.
Fed(st, g) ==
    IF Flows(inst[g])
    THEN /\ st.inst[g] = [inst[g] EXCEPT !.pre = @ - Pre(inst[g])]
         /\ Follows(st.strm[g]) /\ Delivered(st.strm[g], (now + FrameQty) - Left * FrameQty)
    ELSE st.inst[g] = inst[g] /\ st.strm[g] = strm[g]

\* Where a stream is that delivers: at the frames collected, or at its past.
LEMMA WhereFlows ==
    ASSUME KeywordInv, StreamInv, NEW g \in Groups, Flows(inst[g])
    PROVE  LET p == Pre(inst[g])
               e == now - idx * FrameQty
           IN  /\ p \in Nat /\ e \in Int /\ Delivered(strm[g], e - p) /\ Past(ring, p, e - p)
               /\ Pends(g) => e = now
<1> DEFINE p == Pre(inst[g])
           e == now - idx * FrameQty
<1>1. inst[g] \in InstType /\ now \in Nat /\ idx \in Nat /\ inst[g].pre <= avail
  BY DEF KeywordInv, InstShape, RingShape
<1>2. p \in Nat /\ (p > 0 => p = inst[g].pre)
  BY <1>1 DEF Pre, InstType
<1>3. e \in Int /\ (idx = 0 => e = now)
  <2>1. \A x, y \in Nat : x * y \in Nat /\ 0 * y = 0
    OBVIOUS
  <2>2. idx * FrameQty \in Nat /\ (idx = 0 => idx * FrameQty = 0)
    BY <1>1, <2>1, Sizes
  <2> QED
    BY <1>1, <2>2
<1> HIDE DEF e, p
<1>4. CASE p > 0
  <2>1. Pends(g)
    BY <1>4 DEF Pends, p
  <2>2. /\ Intact(now - inst[g].pre) /\ idx = 0
        /\ strm[g].out = <<>> /\ strm[g].want = now - inst[g].pre /\ strm[g].upTo = None
    BY <2>1 DEF StreamInv, PendsOK
  <2>3. e = now /\ p = inst[g].pre
    BY <1>2, <1>3, <1>4, <2>2
  <2>4. Delivered(strm[g], e - p)
    BY <1>1, <1>2, <2>2, <2>3 DEF Delivered
  <2>5. p \in 0 .. avail
    <3>1. avail \in Nat
      BY AvailNat, Sizes
    <3> QED
      BY <1>1, <1>2, <2>3, <3>1
  <2>6. Past(ring, p, now - p)
    BY <2>2, <2>3, <2>5, PastIs DEF KeywordInv
  <2> QED
    BY <1>2, <1>3, <2>3, <2>4, <2>6 DEF e, p
<1>5. CASE ~(p > 0)
  <2>1. ~Pends(g) /\ p = 0
    BY <1>2, <1>5 DEF Pends, p
  <2>2. Delivered(strm[g], e)
    BY <2>1 DEF StreamInv, StreamsOK, e
  <2>3. Delivered(strm[g], e - p) /\ Past(ring, p, e - p)
    BY <1>3, <2>1, <2>2 DEF Past
  <2> QED
    BY <1>2, <1>3, <2>1, <2>3 DEF e, p
<1> QED
  BY <1>4, <1>5

\* A writer feeds its group, and leaves the others and, but for the past, the ring.
LEMMA GroupFed ==
    ASSUME KeywordInv, StreamInv, NEW g \in Groups, NEW a, StateShape(a),
           a.strm \in [Groups -> StrmType], a.inst[g] = inst[g], a.strm[g] = strm[g],
           Pends(g) => a.ring = ring
    PROVE  LET b == Serve(a, g, idx + 1, now + FrameQty) IN
           /\ StateShape(b) /\ b.strm \in [Groups -> StrmType] /\ Fed(b, g)
           /\ \A h \in Groups : h # g => b.inst[h] = a.inst[h] /\ b.strm[h] = a.strm[h]
           /\ ~Pends(g) => b.ring = a.ring
<1> DEFINE b == Serve(a, g, idx + 1, now + FrameQty)
           k == idx + 1
           n == now + FrameQty
           p == Pre(inst[g])
           e == now - idx * FrameQty
<1>1. StateShape(b)
  BY ServeServes DEF Served
<1>2. CASE ~Flows(inst[g])
  <2>1. b = a /\ ~Pends(g)
    BY <1>2, ServeNone DEF Pends
  <2>2. Fed(a, g)
    BY <1>2 DEF Fed
  <2> QED
    BY <1>1, <2>1, <2>2
<1>3. CASE Flows(inst[g])
  <2>1. /\ p \in Nat /\ e \in Int /\ Delivered(strm[g], e - p) /\ Past(ring, p, e - p)
    BY <1>3, WhereFlows
  <2>2. idx \in Nat /\ k \in Nat /\ now \in Nat /\ n \in Int /\ inst[g] \in InstType
    BY Sizes DEF KeywordInv, RingShape, InstShape
  <2>3. idx * FrameQty \in Nat /\ k * FrameQty \in Nat /\ FrameQty \in Nat
        /\ k * FrameQty = idx * FrameQty + FrameQty
    <3>1. \A x, y \in Nat : x * y \in Nat /\ (x + 1) * y = x * y + y
      OBVIOUS
    <3> QED
      BY <2>2, <3>1, Sizes
  <2>4. e = n - k * FrameQty
    BY <2>2, <2>3
  <2>5. Past(a.ring, p, e - p)
    <3>1. CASE p > 0
      <4>1. Pends(g)
        BY <1>3, <3>1 DEF Pends
      <4> QED
        BY <2>1, <4>1
    <3>2. CASE ~(p > 0)
      BY <2>1, <3>2 DEF Past
    <3> QED
      BY <3>1, <3>2
  <2> HIDE DEF e, n, k, p
  <2>6. Given(a, b, g, p, e + LiveQty(inst[g], k))
    <3>1. Flows(a.inst[g]) /\ Follows(a.strm[g]) /\ p = Pre(a.inst[g])
          /\ Delivered(a.strm[g], e - p)
      BY <1>3, <2>1 DEF p, StreamInv, StreamsOK
    <3>2. Given(a, Serve(a, g, k, n), g, p, e + LiveQty(a.inst[g], k))
      BY <2>1, <2>2, <2>4, <2>5, <3>1, ServeFlows
    <3> QED
      BY <3>2 DEF k, n
  <2>7. e + LiveQty(inst[g], k) = n - Left * FrameQty
    <3>0. Left = IF k >= inst["default"].qty THEN 0 ELSE k
      BY DEF Left, k
    <3>1. 0 * FrameQty = 0
      BY <2>3
    <3>2. CASE g = "default"
      <4>1. CASE k >= inst[g].qty
        <5>1. Left = 0 /\ LiveQty(inst[g], k) = k * FrameQty
          BY <3>0, <3>2, <4>1 DEF LiveQty
        <5>2. e + k * FrameQty = n
          BY <2>2, <2>3, <2>4
        <5> QED
          BY <2>2, <3>1, <5>1, <5>2
      <4>2. CASE ~(k >= inst[g].qty)
        <5>1. Left = k /\ LiveQty(inst[g], k) = 0
          BY <3>0, <3>2, <4>2 DEF LiveQty
        <5> QED
          BY <2>1, <2>4, <5>1
      <4> QED
        BY <4>1, <4>2
    <3>3. CASE g = "tap"
      <4>1. idx = 0 /\ inst[g].qty = 1 /\ inst["default"].qty = 1
        BY <1>3, <3>3 DEF StreamInv, GroupsOK, Flows
      <4>2. k = 1
        BY <4>1 DEF k
      <4>3. Left = 0 /\ LiveQty(inst[g], k) = k * FrameQty
        BY <3>0, <4>1, <4>2 DEF LiveQty
      <4>4. e + k * FrameQty = n
        BY <2>2, <2>3, <2>4
      <4> QED
        BY <2>2, <3>1, <4>3, <4>4
    <3> QED
      BY <3>2, <3>3 DEF Groups
  <2>8. /\ b.inst = [a.inst EXCEPT ![g].pre = @ - p]
        /\ b.strm \in [Groups -> StrmType]
        /\ \A h \in Groups : h # g => b.strm[h] = a.strm[h]
        /\ Follows(b.strm[g]) /\ Delivered(b.strm[g], n - Left * FrameQty)
        /\ b.ring = IF p > 0 THEN Converted(a.ring, p) ELSE a.ring
    BY <2>6, <2>7 DEF Given
  <2> HIDE DEF b
  <2>9. b.inst[g] = [inst[g] EXCEPT !.pre = @ - p]
        /\ \A h \in Groups : h # g => b.inst[h] = a.inst[h]
    BY <2>8 DEF StateShape
  <2>10. Fed(b, g)
    <3>1. Delivered(b.strm[g], (now + FrameQty) - Left * FrameQty) /\ Follows(b.strm[g])
      BY <2>8 DEF n
    <3>2. b.inst[g] = [inst[g] EXCEPT !.pre = @ - Pre(inst[g])]
      BY <2>9 DEF p
    <3> QED
      BY <1>3, <3>1, <3>2 DEF Fed
  <2>11. ~Pends(g) => b.ring = a.ring
    BY <1>3, <2>8 DEF Pends, p
  <2> QED
    BY <1>1, <2>8, <2>9, <2>10, <2>11 DEF b
<1> QED
  BY <1>2, <1>3

\* What the writers leave of a frame.
FrameState ==
    Serve(Serve(State, "default", idx + 1, now + FrameQty), "tap", idx + 1, now + FrameQty)

\* A microphone frame feeds both groups.
LEMMA BothFed ==
    ASSUME KeywordInv, StreamInv
    PROVE  /\ StateShape(FrameState) /\ FrameState.strm \in [Groups -> StrmType]
           /\ \A g \in Groups : Fed(FrameState, g)
           /\ (\A g \in Groups : ~Pends(g)) => FrameState.ring = ring
<1> DEFINE a == State
           b == Serve(a, "default", idx + 1, now + FrameQty)
           c == Serve(b, "tap", idx + 1, now + FrameQty)
<1>1. "default" \in Groups /\ "tap" \in Groups /\ \A g \in Groups : g = "default" \/ g = "tap"
  BY DEF Groups
<1>2. /\ StateShape(a) /\ a.ring = ring /\ a.inst = inst /\ a.strm = strm
      /\ a.strm \in [Groups -> StrmType]
  BY StateShaped DEF State, StreamInv, StreamsOK
<1> HIDE DEF a
<1>3. /\ StateShape(b) /\ b.strm \in [Groups -> StrmType] /\ Fed(b, "default")
      /\ b.inst["tap"] = inst["tap"] /\ b.strm["tap"] = strm["tap"]
      /\ ~Pends("default") => b.ring = ring
  BY <1>1, <1>2, GroupFed
<1>4. Pends("tap") => b.ring = ring
  BY <1>1, <1>3 DEF StreamInv, PendsOK
<1> HIDE DEF b
<1>5. /\ StateShape(c) /\ c.strm \in [Groups -> StrmType] /\ Fed(c, "tap")
      /\ c.inst["default"] = b.inst["default"] /\ c.strm["default"] = b.strm["default"]
      /\ ~Pends("tap") => c.ring = b.ring
  BY <1>1, <1>3, <1>4, GroupFed
<1>6. FrameState = c
  BY DEF FrameState, a, b
<1> HIDE DEF c
<1>7. Fed(c, "default")
  BY <1>3, <1>5 DEF Fed
<1>8. (\A g \in Groups : ~Pends(g)) => c.ring = ring
  BY <1>1, <1>3, <1>5
<1> QED
  BY <1>1, <1>5, <1>6, <1>7, <1>8

-----------------------------------------------------------------------------
(* The ring and the detector, under a frame.                               *)

\* What is undamaged in the ring stays so, and a new frame is.
LEMMA FrameIntact ==
    ASSUME RingShape, RingHoldsNewest, NEW rg \in Rings, NEW m \in Int, IntactIn(rg, m),
           now' = now + FrameQty, ring' = RingWith(rg, now), avail' = AvailAfter,
           write' = WriteAfter
    PROVE  Intact(m)'
<1>1. avail \in 0 .. RingQty /\ write \in 0 .. RingQty - 1 /\ RingQty \in Nat
      /\ FrameQty \in Nat \ {0} /\ now \in Nat
  BY WholeBounds, Sizes DEF RingShape
<1>2. write + FrameQty <= RingQty
  BY <1>1, WholeStep DEF RingShape
<1>3. avail < RingQty => avail + FrameQty <= RingQty
  BY <1>1, WholeStep DEF RingShape
<1>5. /\ avail' \in 0 .. RingQty /\ avail <= avail' /\ avail' <= avail + FrameQty
      /\ avail < RingQty => avail' = avail + FrameQty
      /\ avail = RingQty => avail' = RingQty
  BY <1>1, <1>3 DEF AvailAfter
<1>6. /\ write' \in 0 .. RingQty - 1
      /\ write' = IF write + FrameQty = RingQty THEN 0 ELSE write + FrameQty
  BY <1>1, <1>2 DEF WriteAfter
<1>8. \A i \in Cells : ring'[i] = IF write <= i /\ i < write + FrameQty
                                  THEN now + (i - write) ELSE rg[i]
  BY DEF RingWith, Cells
<1>9. ASSUME NEW n \in 1 .. avail', m <= now' - n PROVE ring'[Place(n)'] = now' - n
  <2>1. Place(n)' = IF n <= write' THEN write' - n ELSE write' - n + RingQty
    BY DEF Place, RingQty
  <2>2. CASE n <= FrameQty
    <3>1. Place(n)' = write + FrameQty - n
      BY <1>1, <1>2, <1>5, <1>6, <2>1, <2>2
    <3>2. Place(n)' \in Cells /\ write <= Place(n)' /\ Place(n)' < write + FrameQty
      BY <1>1, <1>2, <2>2, <3>1 DEF Cells
    <3> QED
      BY <1>1, <1>8, <3>1, <3>2
  <2>3. CASE FrameQty < n
    <3> DEFINE j == n - FrameQty
    <3>1. j \in 1 .. avail
      BY <1>1, <1>5, <2>3
    <3>3. Place(n)' = Place(j)
      BY <1>1, <1>2, <1>5, <1>6, <2>1, <2>3, <3>1 DEF Place, RingHoldsNewest
    <3>4. Place(j) \in Cells /\ ~(write <= Place(j) /\ Place(j) < write + FrameQty)
      BY <1>1, <1>2, <1>5, <2>3, <3>1 DEF Place, Cells, RingHoldsNewest
    <3>5. now - j = now' - n /\ m <= now - j
      BY <1>1, <1>9
    <3>6. rg[Place(j)] = now - j
      BY <3>1, <3>5 DEF IntactIn
    <3>7. ring'[Place(n)'] = rg[Place(j)]
      BY <1>8, <3>3, <3>4
    <3> QED
      BY <3>5, <3>6, <3>7
  <2> QED
    BY <1>1, <2>2, <2>3
<1> QED
  BY <1>9 DEF Intact, IntactIn

\* What the detector does with a frame: it counts on, it hears on or is armed again,
\* or it tells the event.
LEMMA DetectorDoes ==
    ASSUME DetOK(det), NEW n \in Nat, Detector(n)
    PROVE  \/ /\ ~det.armed /\ ~det'.armed /\ UNCHANGED <<report, armedAt>>
              /\ det'.begin = det.begin /\ det'.postCallback = det.postCallback + 1
           \/ det.armed /\ report' = report /\ armedAt' \in {armedAt, n}
           \/ /\ det.armed /\ ~det'.armed /\ armedAt' = armedAt
              /\ report'.begin = n + det'.begin /\ det'.postCallback = 0
              /\ ReportShape(report')
<1> DEFINE Counted(d) == [d EXCEPT !.postCallback = @ + 1]
           Ready(d)   == [d EXCEPT !.postTrigger = @ + 1]
<1>1. \A d : DetOK(d) => DetOK(Counted(d)) /\ DetOK(Ready(d)) /\ Ready(d).triggered = d.triggered
  BY DEF DetOK, DetType
<1>3. CASE ~det.armed
  <2>1. det' = Counted(det) /\ UNCHANGED <<report, armedAt>>
    BY <1>3 DEF Detector
  <2> QED
    BY <1>3, <2>1 DEF DetOK, DetType
<1>4. CASE det.armed
  <2>1. PICK hits \in Hits(n) :
          LET d0 == Counted(Heard(det, hits, n)) IN
          \/ report' = report /\ armedAt' \in {armedAt, n}
          \/ /\ d0.triggered /\ report' = Told(Adjusted(Ready(d0)), n) /\ armedAt' = armedAt
             /\ det' = [Disarmed(Adjusted(Ready(d0))) EXCEPT !.postCallback = 0]
    BY <1>4 DEF Detector
  <2> DEFINE d0 == Counted(Heard(det, hits, n))
             d1 == Ready(d0)
             d2 == Adjusted(d1)
             d3 == Disarmed(d2)
  <2>2. DetOK(d1) /\ d1.triggered = d0.triggered
    <3>1. hits \in [Chans -> HitType]
      BY HitsTyped
    <3>2. DetOK(Heard(det, hits, n))
      BY <3>1, HeardOK
    <3> QED
      BY <1>1, <3>2
  <2> HIDE DEF d1
  <2>3. ASSUME d0.triggered, report' = Told(d2, n), det' = [d3 EXCEPT !.postCallback = 0]
        PROVE  ~det'.armed /\ report'.begin = n + det'.begin /\ det'.postCallback = 0
               /\ ReportShape(report')
    <3> DEFINE back == d1.ch[d1.chosen].post * FrameQty
    <3>1. back \in Int
      <4>1. d1.chosen \in Chans /\ d1 \in DetType
        BY <2>2, <2>3 DEF DetOK
      <4>2. d1.ch[d1.chosen].post \in Nat /\ FrameQty \in Nat
        BY <4>1, Sizes DEF DetType, ChanType
      <4> QED
        BY <4>2
    <3>2. d2 = [d1 EXCEPT !.begin = @ - back, !.end = @ - back]
      BY DEF Adjusted
    <3> HIDE DEF back
    <3>3. d2 \in DetType
      <4>1. \A x, y \in Int : [d1 EXCEPT !.begin = x, !.end = y] \in DetType
        BY <2>2 DEF DetOK, DetType
      <4>2. d1.begin - back \in Int /\ d1.end - back \in Int
        BY <2>2, <3>1 DEF DetOK, DetType
      <4> QED
        BY <3>2, <4>1, <4>2
    <3>4. report'.begin = n + d2.begin /\ ReportShape(report')
      BY <2>3 DEF Told, ReportShape
    <3> HIDE DEF d2
    <3>5. d3 \in DetType /\ d3.armed = FALSE /\ d3.begin = d2.begin
      <4>1. d3.begin = d2.begin
        BY <3>3 DEF Disarmed, DetType
      <4> QED
        BY <3>3, <4>1, DisarmedTyped
    <3> HIDE DEF d3
    <3> QED
      BY <2>3, <3>4, <3>5 DEF DetType
  <2> QED
    BY <1>4, <2>1, <2>3 DEF d1
<1> QED
  BY <1>3, <1>4

-----------------------------------------------------------------------------
(* The steps.                                                              *)

\* At the start there is no stream.
LEMMA StreamInit == Init => StreamInv
<1> SUFFICES ASSUME Init PROVE StreamInv
  OBVIOUS
<1>1. FreshOK
  BY DEF Init, FreshOK, NoReport, ReportShape
<1>2. UnreadOK
  BY DEF Init, UnreadOK, NoReport
<1>3. \A g \in Groups : inst[g] = NoInst /\ ~NoInst.on /\ ~Flows(inst[g])
  BY DEF Init, NoInst, Flows
<1>4. PendsOK
  BY <1>3 DEF PendsOK, Pends
<1>5. GroupsOK
  <2>1. NoInst.until # "speech"
    BY DEF NoInst
  <2> QED
    BY <1>3, <2>1 DEF GroupsOK, Groups
<1>6. StreamsOK
  <2>1. NoStrm \in StrmType /\ Follows(NoStrm) /\ Done(NoStrm)
    BY DEF NoStrm, StrmType, Follows, Done, None
  <2> QED
    BY <1>3, <2>1 DEF Init, StreamsOK
<1> QED
  BY <1>1, <1>2, <1>4, <1>5, <1>6 DEF StreamInv

\* A ring that is left alone is as undamaged as it was.
LEMMA IntactKept ==
    ASSUME UNCHANGED <<now, ring, avail, write>>, NEW m
    PROVE  Intact(m)' <=> Intact(m)
BY DEF Intact, IntactIn, Place, RingQty

\* The report is no longer fresh.
LEMMA Stale ==
    ASSUME FreshOK, report' = [report EXCEPT !.fresh = FALSE]
    PROVE  FreshOK' /\ ~report'.fresh
<1>1. ReportShape(report)
  BY DEF FreshOK
<1>2. ReportShape(report') /\ ~report'.fresh
  BY <1>1 DEF ReportShape
<1>3. ReportShape(report)'
  BY <1>2 DEF ReportShape
<1> QED
  BY <1>2, <1>3 DEF FreshOK

\* A detect request, for which no default stream is there.
LEMMA DetectStreams == ASSUME KeywordInv, StreamInv, Detect PROVE StreamInv'
<1>1. /\ ~inst["default"].on /\ inst' = [inst EXCEPT !["default"] = NoInst]
      /\ now' = now /\ strm' = strm /\ idx' = 0 /\ armedAt' = now
      /\ report' = [report EXCEPT !.fresh = FALSE]
  BY DEF Detect
<1>2. "default" \in Groups /\ "tap" \in Groups /\ \A g \in Groups : g = "default" \/ g = "tap"
  BY DEF Groups
<1>3. inst' = inst
  <2>1. inst["default"] = NoInst /\ inst \in [Groups -> InstType]
    BY <1>1, <1>2 DEF StreamInv, GroupsOK, KeywordInv, InstShape
  <2> QED
    BY <1>1, <2>1
<1>4. now \in Nat /\ avail \in Nat /\ avail' \in Nat
  <2>1. now \in Nat /\ avail \in Nat
    BY AvailNat, Sizes DEF KeywordInv, RingShape
  <2> QED
    BY <2>1 DEF Detect, kept
<1>5. FreshOK' /\ ~report'.fresh
  BY <1>1, Stale DEF StreamInv
<1>6. UnreadOK'
  <2>1. Intact(now)'
    BY <1>1, <1>4 DEF Intact, IntactIn
  <2> QED
    BY <1>1, <1>4, <2>1 DEF UnreadOK
<1>7. \A m : Intact(m) => Intact(m)'
  <2>1. CASE det.active
    BY <1>1, <2>1, IntactKept DEF Detect, kept
  <2>2. CASE ~det.active
    BY <1>1, <2>2 DEF Detect, Intact, IntactIn
  <2> QED
    BY <2>1, <2>2
<1>8. PendsOK'
  <2> SUFFICES ASSUME NEW g \in Groups, Pends(g)'
               PROVE  /\ Intact(now - inst[g].pre)' /\ (det'.armed => armedAt' = now') /\ idx' = 0
                      /\ strm'[g].out = <<>> /\ strm'[g].want = now' - inst'[g].pre
                      /\ strm'[g].upTo = None
                      /\ \A h \in Groups : Pends(h)' => h = g
    BY DEF PendsOK
  <2>1. \A h \in Groups : Pends(h)' <=> Pends(h)
    BY <1>3 DEF Pends
  <2>2. /\ Intact(now - inst[g].pre)
        /\ strm[g].out = <<>> /\ strm[g].want = now - inst[g].pre /\ strm[g].upTo = None
        /\ \A h \in Groups : Pends(h) => h = g
    BY <2>1 DEF StreamInv, PendsOK
  <2>3. Intact(now - inst[g].pre)'
    <3>1. \A m : m = now - inst[g].pre => Intact(m)'
      BY <1>7, <2>2
    <3> QED
      BY <1>1, <1>3, <3>1 DEF Intact
  <2> QED
    BY <1>1, <1>3, <2>1, <2>2, <2>3
<1>9. GroupsOK'
  BY <1>1, <1>3 DEF StreamInv, GroupsOK
<1>10. StreamsOK'
  <2>1. ASSUME NEW g \in Groups, Flows(inst[g]), ~Pends(g)
        PROVE  Delivered(strm[g], now - 0 * FrameQty)
    <3>1. g = "tap"
      BY <1>1, <1>2, <2>1 DEF Flows
    <3>2. idx = 0
      BY <2>1, <3>1 DEF StreamInv, GroupsOK, Flows
    <3> QED
      BY <2>1, <3>2 DEF StreamInv, StreamsOK
  <2>2. \A g \in Groups : Pends(g)' <=> Pends(g)
    BY <1>3 DEF Pends
  <2> QED
    BY <1>1, <1>3, <2>1, <2>2 DEF StreamInv, StreamsOK
<1> QED
  BY <1>5, <1>6, <1>8, <1>9, <1>10 DEF StreamInv

\* What is undamaged from some sample on is so from a later one on.
LEMMA IntactLater ==
    ASSUME KeywordInv, NEW m \in Int, NEW n \in Int, m <= n, Intact(m)
    PROVE  Intact(n)
<1>1. now \in Int /\ avail \in Nat
  BY AvailNat, Sizes DEF KeywordInv, RingShape
<1> QED
  BY <1>1 DEF Intact, IntactIn

\* A number of samples that the counter holds is not changed by it.
LEMMA FitsWord == ASSUME NEW x \in Nat, x < WordQty PROVE x % WordQty = x
BY SizesAssumption

\* No more samples are read than the counter holds.
LEMMA NowFits == ASSUME AsIntended, EventInv PROVE now \in Nat /\ now < WordQty
<1>1. PICK k \in 0 .. MaxFrames : now = k * FrameQty
  BY DEF EventInv, Read
<1>2. \A i, j, f \in Nat : i * f \in Nat /\ (i <= j => i * f <= j * f)
  OBVIOUS
<1>3. FrameQty \in Nat /\ MaxFrames \in Nat /\ WordQty \in Nat
  BY SizesAssumption
<1>4. k * FrameQty \in Nat /\ k * FrameQty <= MaxFrames * FrameQty /\ MaxFrames * FrameQty \in Nat
  BY <1>2, <1>3
<1> QED
  BY <1>1, <1>3, <1>4 DEF AsIntended

\* What is to be taken from the ring is what came between where the stream is to begin
\* and now, and none of it has been taken before.
LEMMA PreIsWish ==
    ASSUME AsIntended, KeywordInv, EventInv, StreamInv, NEW r \in Requests, Careful(r)
    PROVE  /\ Oldest(Wish(r)) \in Int /\ PreQty(r, det) = now - Oldest(Wish(r))
           /\ r.from = "live" => PreQty(r, det) = 0
           /\ PreQty(r, det) > 0 => report.fresh /\ Intact(Oldest(Wish(r)))
<1>1. now \in Nat /\ now < WordQty /\ avail \in Nat /\ r.offset \in Int
      /\ FrameQty \in Nat /\ WordQty \in Nat \ {0}
  BY NowFits, AvailNat, Sizes, SizesAssumption, ClientsAssumption DEF RequestType
<1>2. CASE r.from = "live"
  <2>1. Wish(r) = now /\ Oldest(now) = now
    BY <1>1, <1>2 DEF Wish, Oldest
  <2>2. Post(r, det) = 0
    BY <1>2 DEF Post
  <2>3. PreQty(r, det) = IF (0 + 0 * FrameQty) % WordQty > avail THEN avail
                         ELSE (0 + 0 * FrameQty) % WordQty
    BY <1>2, <2>2 DEF PreQty
  <2>4. 0 + 0 * FrameQty = 0
    BY <1>1
  <2>5. 0 % WordQty = 0
    BY <1>1, FitsWord
  <2>6. PreQty(r, det) = 0
    BY <1>1, <2>3, <2>4, <2>5
  <2> QED
    BY <1>1, <2>1, <2>6
<1>3. CASE r.from = "keywordBegin"
  <2> DEFINE pf == det.postCallback * FrameQty
             w  == Wish(r)
             x  == now - w
  <2>1. report.fresh
    BY <1>3 DEF Careful, AsIntended, Cares
  <2>2. report.begin = (now - pf) + det.begin /\ Intact(armedAt) /\ armedAt \in Nat
    BY <2>1 DEF StreamInv, FreshOK, UnreadOK
  <2>3. pf \in Nat /\ det.begin \in Int
    <3>1. det.postCallback \in Nat /\ det.begin \in Int
      BY DEF KeywordInv, DetShape, DetOK, DetType
    <3>2. \A i, j \in Nat : i * j \in Nat
      OBVIOUS
    <3> QED
      BY <1>1, <3>1, <3>2
  <2>4. w = report.begin + r.offset
    BY <1>3 DEF Wish
  <2>5. w <= now /\ (w >= armedAt \/ w >= now)
    BY DEF Careful, AsIntended, Cares
  <2>6. PreQty(r, det) = IF (-det.begin - r.offset + pf) % WordQty > avail THEN avail
                         ELSE (-det.begin - r.offset + pf) % WordQty
    BY <1>3 DEF PreQty, Post
  <2> HIDE DEF pf, w
  <2>7. w \in Int /\ -det.begin - r.offset + pf = x
    BY <1>1, <2>2, <2>3, <2>4
  <2>8. x \in Nat /\ x < WordQty
    BY <1>1, <2>2, <2>5, <2>7
  <2>9. x % WordQty = x
    <3> HIDE DEF x
    <3> QED
      BY <2>8, FitsWord
  <2>10. PreQty(r, det) = IF x > avail THEN avail ELSE x
    BY <2>6, <2>7, <2>9
  <2>11. Oldest(w) = IF w < now - avail THEN now - avail ELSE w
    BY DEF Oldest
  <2>12. Oldest(w) \in Int /\ PreQty(r, det) = now - Oldest(w) /\ w <= Oldest(w)
    BY <1>1, <2>7, <2>8, <2>10, <2>11
  <2>13. ASSUME PreQty(r, det) > 0 PROVE Intact(Oldest(w))
    <3>1. w < now
      BY <1>1, <2>7, <2>8, <2>10, <2>13
    <3>2. armedAt <= Oldest(w)
      BY <1>1, <2>2, <2>5, <2>7, <2>12, <3>1
    <3> QED
      BY <2>2, <2>12, <3>2, IntactLater
  <2> QED
    BY <1>3, <2>1, <2>12, <2>13 DEF w
<1> QED
  BY <1>2, <1>3 DEF AsIntended

\* The start of a stream.
LEMMA StartStreams ==
    ASSUME AsIntended, KeywordInv, EventInv, StreamInv, RecordStart
    PROVE  StreamInv'
<1> DEFINE d(r) == IF r.from = "keywordEnd" /\ ~det.triggered
                   THEN [det EXCEPT !.postCallback = 0] ELSE det
           i(r, e) == [on |-> TRUE, dest |-> r.dest, until |-> r.until, qty |-> r.qty,
                       pre |-> PreQty(r, e)]
           s(r) == [want |-> Oldest(Wish(r)), out |-> <<>>, upTo |-> None]
<1>1. PICK r \in Requests :
        /\ ~inst[r.group].on /\ Careful(r)
        /\ inst' = [inst EXCEPT ![r.group] = i(r, d(r))]
        /\ det' = IF r.group = "tap" THEN d(r) ELSE Disarmed(d(r))
        /\ strm' = [strm EXCEPT ![r.group] = s(r)]
  BY DEF RecordStart
<1> DEFINE g == r.group
           new == i(r, det)
<1>2. /\ now' = now /\ ring' = ring /\ avail' = avail /\ write' = write /\ idx' = 0
      /\ armedAt' = armedAt /\ report' = [report EXCEPT !.fresh = FALSE]
  BY DEF RecordStart, kept
<1>3. /\ r.from = "live" \/ (r.from = "keywordBegin" /\ r.dest = "pipe")
      /\ r.until = "speech" => r.dest = "pipe"
  BY DEF AsIntended
<1>4. d(r) = det
  BY <1>3
<1>5. inst' = [inst EXCEPT ![g] = new] /\ strm' = [strm EXCEPT ![g] = s(r)]
      /\ (det'.armed => det.armed)
  <2>1. ~Disarmed(det).armed
    BY DisarmedTyped DEF KeywordInv, DetShape, DetOK
  <2> QED
    BY <1>1, <1>4, <2>1
<1>6. g \in Groups /\ r.dest \in {"pipe", "user"} /\ r.qty \in Nat \ {0} /\ r.group = g
  BY ClientsAssumption DEF RequestType
<1>7. /\ Oldest(Wish(r)) \in Int /\ PreQty(r, det) = now - Oldest(Wish(r))
      /\ r.from = "live" => PreQty(r, det) = 0
      /\ PreQty(r, det) > 0 => report.fresh /\ Intact(Oldest(Wish(r)))
  BY <1>1, PreIsWish
<1>8. PreQty(r, det) \in Nat /\ now \in Nat
  BY PreIsThere DEF KeywordInv, RingShape, DetShape, DetOK
<1>9. new.on /\ new.dest = r.dest /\ new.until = r.until /\ new.qty = r.qty
      /\ new.pre = PreQty(r, det)
  OBVIOUS
<1>10. s(r).want = Oldest(Wish(r)) /\ s(r).out = <<>> /\ s(r).upTo = None /\ s(r) \in StrmType
  BY <1>7 DEF StrmType, None
<1>11. inst'[g] = new /\ strm'[g] = s(r)
       /\ \A h \in Groups : h # g => inst'[h] = inst[h] /\ strm'[h] = strm[h]
  BY <1>5, <1>6 DEF KeywordInv, InstShape, StreamInv, StreamsOK
<1> HIDE DEF d, i, s, new, g
<1>12. FreshOK' /\ ~report'.fresh
  BY <1>2, Stale DEF StreamInv
<1>13. \A m : Intact(m)' <=> Intact(m)
  BY <1>2, IntactKept
<1>14. UnreadOK'
  <2>1. det'.armed => Intact(armedAt)
    BY <1>5 DEF StreamInv, UnreadOK
  <2>2. Intact(armedAt) => Intact(armedAt)'
    BY <1>2 DEF Intact, IntactIn, Place, RingQty
  <2> QED
    BY <1>2, <1>12, <2>1, <2>2 DEF UnreadOK, StreamInv
<1>15. \A h \in Groups : h # g => (Pends(h)' <=> Pends(h)) /\ (Flows(inst'[h]) <=> Flows(inst[h]))
  BY <1>11 DEF Pends
<1>16. Pends(g)' => /\ PreQty(r, det) > 0 /\ report.fresh /\ Intact(Oldest(Wish(r)))
                    /\ \A h \in Groups : ~Pends(h)
  <2> SUFFICES ASSUME Pends(g)' PROVE report.fresh /\ PreQty(r, det) > 0
    BY <1>7 DEF StreamInv, FreshOK
  <2>1. Pre(new) > 0
    BY <1>11 DEF Pends
  <2>2. PreQty(r, det) > 0
    BY <1>9, <2>1 DEF Pre
  <2> QED
    BY <1>7, <2>2
<1>17. PendsOK'
  <2> SUFFICES ASSUME NEW h \in Groups, Pends(h)'
               PROVE  /\ Intact(now - inst[h].pre)' /\ (det'.armed => armedAt' = now') /\ idx' = 0
                      /\ strm'[h].out = <<>> /\ strm'[h].want = now' - inst'[h].pre
                      /\ strm'[h].upTo = None
                      /\ \A f \in Groups : Pends(f)' => f = h
    BY DEF PendsOK
  <2>1. CASE h = g
    <3>1. report.fresh /\ Intact(Oldest(Wish(r))) /\ \A f \in Groups : ~Pends(f)
      BY <1>16, <2>1
    <3>2. ~det'.armed
      BY <1>5, <3>1 DEF StreamInv, FreshOK
    <3>3. now - PreQty(r, det) = Oldest(Wish(r))
      BY <1>7, <1>8
    <3>4. inst'[h].pre = PreQty(r, det)
      BY <1>9, <1>11, <2>1
    <3>5. Intact(now - inst[h].pre)'
      <4>1. \A m : m = Oldest(Wish(r)) => Intact(m)'
        BY <1>13, <3>1
      <4> QED
        BY <1>2, <3>3, <3>4, <4>1 DEF Intact
    <3>6. \A f \in Groups : Pends(f)' => f = h
      BY <1>15, <2>1, <3>1
    <3> QED
      BY <1>2, <1>10, <1>11, <2>1, <3>2, <3>3, <3>4, <3>5, <3>6
  <2>2. CASE h # g
    <3>1. Pends(h) /\ inst'[h] = inst[h] /\ strm'[h] = strm[h]
      BY <1>11, <1>15, <2>2
    <3>2. /\ Intact(now - inst[h].pre) /\ (det.armed => armedAt = now)
          /\ strm[h].out = <<>> /\ strm[h].want = now - inst[h].pre /\ strm[h].upTo = None
          /\ \A f \in Groups : Pends(f) => f = h
      BY <3>1 DEF StreamInv, PendsOK
    <3>3. ~Pends(g)'
      BY <1>16, <3>1
    <3>4. Intact(now - inst[h].pre)'
      <4>1. \A m : m = now - inst[h].pre => Intact(m)'
        BY <1>13, <3>2
      <4> QED
        BY <1>2, <3>1, <4>1 DEF Intact
    <3>5. \A f \in Groups : Pends(f)' => f = h
      BY <1>15, <3>2, <3>3
    <3> QED
      BY <1>2, <1>5, <3>1, <3>2, <3>4, <3>5
  <2> QED
    BY <2>1, <2>2
<1>18. \/ r.qty = 1 /\ \A h \in Groups : inst[h].on => inst[h].qty = 1
       \/ g = "default" /\ ~inst["tap"].on
  BY <1>1 DEF Careful, AsIntended, Cares, g
<1>19. "default" \in Groups /\ "tap" \in Groups /\ \A h \in Groups : h = "default" \/ h = "tap"
  BY DEF Groups
<1>20. GroupsOK'
  <2>1. ASSUME NEW h \in Groups
        PROVE  /\ ~inst'[h].on => inst'[h] = NoInst
               /\ inst'[h].until = "speech" => inst'[h].dest # "user"
               /\ inst'[h].on /\ inst'[h].dest = "none" => strm'[h].upTo # None
    <3>1. CASE h = g
      BY <1>3, <1>6, <1>9, <1>11, <3>1
    <3>2. CASE h # g
      BY <1>11, <3>2 DEF StreamInv, GroupsOK
    <3> QED
      BY <3>1, <3>2
  <2>2. inst'["default"].on => idx' < inst'["default"].qty
    <3>1. inst' \in [Groups -> InstType]
      BY RecordStartKeeps DEF KeywordInv, InstShape
    <3>2. inst'["default"].qty \in Nat \ {0}
      BY <1>19, <3>1 DEF InstType
    <3> QED
      BY <1>2, <3>2
  <2>3. ASSUME inst'["tap"].on
        PROVE  inst'["tap"].qty = 1 /\ inst'["default"].qty = 1
    <3>1. CASE g = "tap"
      <4>1. r.qty = 1 /\ (inst["default"].on => inst["default"].qty = 1)
        BY <1>18, <1>19, <3>1
      <4>2. ~inst["default"].on => inst["default"].qty = 1
        BY <1>19 DEF StreamInv, GroupsOK, NoInst
      <4> QED
        BY <1>9, <1>11, <1>19, <3>1, <4>1, <4>2
    <3>2. CASE g = "default"
      <4>1. inst["tap"].on /\ inst'["tap"] = inst["tap"]
        BY <1>11, <1>19, <2>3, <3>2
      <4>2. r.qty = 1 /\ inst["tap"].qty = 1
        BY <1>18, <1>19, <4>1
      <4> QED
        BY <1>9, <1>11, <3>2, <4>1, <4>2
    <3> QED
      BY <1>6, <1>19, <3>1, <3>2
  <2> QED
    BY <1>2, <2>1, <2>2, <2>3 DEF GroupsOK
<1>21. 0 * FrameQty = 0
  BY Sizes
<1>22. StreamsOK'
  <2>1. strm' \in [Groups -> StrmType]
    BY <1>5, <1>6, <1>10 DEF StreamInv, StreamsOK
  <2>2. ASSUME NEW h \in Groups
        PROVE  /\ Follows(strm'[h]) /\ Done(strm'[h])
               /\ Flows(inst'[h]) /\ ~Pends(h)' => Delivered(strm'[h], now' - idx' * FrameQty)
    <3>1. CASE h = g
      <4>1. Follows(strm'[h]) /\ Done(strm'[h])
        BY <1>10, <1>11, <3>1 DEF Follows, Done
      <4>2. ASSUME Flows(inst'[h]), ~Pends(h)' PROVE Delivered(strm'[h], now' - idx' * FrameQty)
        <5>1. ~(Pre(new) > 0)
          BY <1>11, <3>1, <4>2 DEF Pends
        <5>2. PreQty(r, det) = 0
          BY <1>3, <1>6, <1>7, <1>8, <1>9, <5>1 DEF Pre
        <5>3. Oldest(Wish(r)) = now
          BY <1>7, <1>8, <5>2
        <5>4. Len(<<>>) = 0
          OBVIOUS
        <5> QED
          BY <1>2, <1>8, <1>10, <1>11, <1>21, <3>1, <5>3, <5>4 DEF Delivered
      <4> QED
        BY <4>1, <4>2
    <3>2. CASE h # g
      <4>1. Follows(strm'[h]) /\ Done(strm'[h])
        BY <1>11, <3>2 DEF StreamInv, StreamsOK
      <4>2. ASSUME Flows(inst'[h]), ~Pends(h)' PROVE Delivered(strm'[h], now' - idx' * FrameQty)
        <5>1. Flows(inst[h]) /\ ~Pends(h) /\ strm'[h] = strm[h]
          BY <1>11, <1>15, <3>2, <4>2
        <5>2. idx = 0
          <6>1. CASE h = "tap"
            BY <5>1, <6>1 DEF Flows, StreamInv, GroupsOK
          <6>2. CASE h = "default"
            <7>1. inst["default"].qty = 1 /\ idx < inst["default"].qty
              BY <1>6, <1>18, <1>19, <3>2, <5>1, <6>2 DEF Flows, StreamInv, GroupsOK
            <7> QED
              BY <7>1 DEF KeywordInv
          <6> QED
            BY <1>19, <6>1, <6>2
        <5>3. Delivered(strm[h], now - 0 * FrameQty)
          BY <5>1, <5>2 DEF StreamInv, StreamsOK
        <5> QED
          BY <1>2, <5>1, <5>3
      <4> QED
        BY <4>1, <4>2
    <3> QED
      BY <3>1, <3>2
  <2> QED
    BY <2>1, <2>2 DEF StreamsOK
<1> QED
  BY <1>12, <1>14, <1>17, <1>20, <1>22 DEF StreamInv

\* The stop of a stream, which gives it what is left.
LEMMA StopStreams == ASSUME KeywordInv, StreamInv, RecordStop PROVE StreamInv'
<1>1. PICK g \in Groups :
        /\ inst[g].on /\ ring' = Flush(State, g, idx, now).ring
        /\ inst' = [inst EXCEPT ![g] = NoInst]
        /\ strm' = [Flush(State, g, idx, now).strm EXCEPT ![g] = UpTo(@, now)]
  BY DEF RecordStop
<1> DEFINE b == Flush(State, g, idx, now)
<1>2. /\ now' = now /\ avail' = avail /\ write' = write /\ det' = det /\ idx' = idx
      /\ report' = report /\ armedAt' = armedAt
  BY DEF RecordStop
<1>3. /\ StateShape(State) /\ State.ring = ring /\ State.inst = inst /\ State.strm = strm
      /\ strm \in [Groups -> StrmType]
  BY StateShaped DEF State, StreamInv, StreamsOK
<1>4. now \in Nat /\ idx \in Nat /\ inst \in [Groups -> InstType]
  BY DEF KeywordInv, RingShape, InstShape
<1>5. /\ b.strm \in [Groups -> StrmType] /\ \A h \in Groups : h # g => b.strm[h] = strm[h]
      /\ Follows(b.strm[g]) /\ Done(UpTo(b.strm[g], now))
      /\ ~Pends(g) => b.ring = ring
  <2>1. CASE ~Flows(inst[g])
    <3>1. strm[g].upTo # None
      BY <1>1, <2>1 DEF Flows, StreamInv, GroupsOK
    <3>2. b.strm = strm /\ b.ring = ring
      <4> DEFINE s1 == IF g = "tap" THEN State ELSE [State EXCEPT !.inst[g].qty = 1]
      <4>1. s1.strm = strm /\ s1.ring = ring /\ ~Flows(s1.inst[g])
        <5>1. CASE g = "tap"
          BY <1>3, <2>1, <5>1
        <5>2. CASE g # "tap"
          <6>1. s1 = [ring |-> ring, inst |-> [inst EXCEPT ![g].qty = 1], strm |-> strm]
            BY <5>2 DEF State
          <6>2. s1.inst[g] = [inst[g] EXCEPT !.qty = 1]
            BY <1>4, <6>1
          <6>3. s1.inst[g].on = inst[g].on /\ s1.inst[g].dest = inst[g].dest
            BY <1>4, <6>2 DEF InstType
          <6> QED
            BY <2>1, <6>1, <6>3 DEF Flows
        <5> QED
          BY <5>1, <5>2
      <4>2. b = Serve(s1, g, idx, now)
        BY DEF Flush
      <4> HIDE DEF s1
      <4> QED
        BY <4>1, <4>2, ServeNone
    <3> HIDE DEF b
    <3>3. Follows(strm[g]) /\ Done(strm[g]) /\ strm[g] \in StrmType
      BY <1>3 DEF StreamInv, StreamsOK
    <3>4. UpTo(strm[g], now) = strm[g]
      BY <3>1, <3>3 DEF UpTo, StrmType
    <3> QED
      BY <1>3, <3>2, <3>3, <3>4
  <2>2. CASE Flows(inst[g])
    <3> DEFINE p == Pre(inst[g])
               e == now - idx * FrameQty
    <3>1. /\ p \in Nat /\ e \in Int /\ Delivered(strm[g], e - p) /\ Past(ring, p, e - p)
      BY <2>2, WhereFlows
    <3>2. g = "tap" => idx = 0
      BY <1>1 DEF StreamInv, GroupsOK
    <3>3. Follows(strm[g])
      BY DEF StreamInv, StreamsOK
    <3> HIDE DEF p
    <3>4. /\ b.strm \in [Groups -> StrmType]
          /\ \A h \in Groups : h # g => b.strm[h] = strm[h]
          /\ Follows(b.strm[g]) /\ Delivered(b.strm[g], now)
          /\ b.ring = IF p > 0 THEN Converted(ring, p) ELSE ring
      <4>1. /\ StateShape(State) /\ State.strm \in [Groups -> StrmType]
            /\ Flows(State.inst[g]) /\ Follows(State.strm[g]) /\ p = Pre(State.inst[g])
            /\ Delivered(State.strm[g], e - p) /\ Past(State.ring, p, e - p)
        BY <1>3, <2>2, <3>1, <3>3 DEF p
      <4>2. now \in Int /\ e = now - idx * FrameQty
        BY <1>4
      <4> HIDE DEF e
      <4>3. Flushed(State, b, g, p, now)
        BY <1>4, <3>1, <3>2, <4>1, <4>2, FlushFlows
      <4> QED
        BY <1>3, <4>3 DEF Flushed
    <3> HIDE DEF b
    <3>5. b.strm[g] \in StrmType
      BY <3>4
    <3>6. Done(UpTo(b.strm[g], now))
      <4>1. UpTo(b.strm[g], now) = [b.strm[g] EXCEPT !.upTo = now]
        BY <3>4 DEF UpTo, Delivered
      <4>2. /\ [b.strm[g] EXCEPT !.upTo = now].upTo = now
            /\ [b.strm[g] EXCEPT !.upTo = now].out = b.strm[g].out
            /\ [b.strm[g] EXCEPT !.upTo = now].want = b.strm[g].want
        BY <3>5 DEF StrmType
      <4>3. b.strm[g].want \in Int /\ Len(b.strm[g].out) \in Nat
            /\ b.strm[g].want + Len(b.strm[g].out) = now
        BY <3>4, <3>5 DEF StrmType, Delivered
      <4>4. Len(b.strm[g].out) = now - b.strm[g].want
        BY <1>4, <4>3
      <4> QED
        BY <4>1, <4>2, <4>4 DEF Done
    <3>7. ~Pends(g) => b.ring = ring
      BY <2>2, <3>4 DEF Pends, p
    <3> QED
      BY <3>4, <3>6, <3>7
  <2> QED
    BY <2>1, <2>2
<1>6. ring' = b.ring /\ strm' = [b.strm EXCEPT ![g] = UpTo(@, now)]
  BY <1>1
<1> HIDE DEF b
<1>7. /\ inst'[g] = NoInst /\ \A h \in Groups : h # g => inst'[h] = inst[h]
  BY <1>1, <1>4
<1>8. /\ strm' \in [Groups -> StrmType] /\ strm'[g] = UpTo(b.strm[g], now)
      /\ \A h \in Groups : h # g => strm'[h] = strm[h]
  <2>1. \A x \in StrmType, n \in Int : UpTo(x, n) \in StrmType
    BY DEF StrmType, UpTo
  <2>2. UpTo(b.strm[g], now) \in StrmType
    BY <1>4, <1>5, <2>1
  <2> QED
    BY <1>5, <1>6, <2>2
<1>9. \A h \in Groups : /\ Pends(h)' => Pends(h) /\ h # g
                        /\ Flows(inst'[h]) => h # g /\ Flows(inst[h])
                        /\ h # g => (Pends(h)' <=> Pends(h))
  <2>1. ~Flows(NoInst)
    BY DEF NoInst, Flows
  <2> QED
    BY <1>7, <2>1 DEF Pends
<1>10. FreshOK'
  <2>1. ReportShape(report)' /\ report'.fresh = report.fresh
    BY <1>2 DEF StreamInv, FreshOK, ReportShape
  <2> QED
    BY <1>2, <1>9, <2>1 DEF StreamInv, FreshOK
<1>11. ~Pends(g) => \A m : Intact(m)' <=> Intact(m)
  BY <1>2, <1>5, <1>6, IntactKept
<1>12. UnreadOK'
  <2>1. CASE ~Pends(g)
    <3>1. Intact(armedAt) => Intact(armedAt)'
      <4>1. \A m : m = armedAt /\ Intact(m) => Intact(m)'
        BY <1>11, <2>1
      <4> QED
        BY <1>2, <4>1 DEF Intact
    <3> QED
      BY <1>2, <3>1 DEF StreamInv, UnreadOK
  <2>2. CASE Pends(g)
    <3>1. ~report.fresh /\ (det.armed => armedAt = now)
      BY <2>2 DEF StreamInv, FreshOK, PendsOK
    <3>2. armedAt = now => Intact(armedAt)'
      <4>1. now \in Nat /\ avail' \in Nat
        BY <1>2, <1>4, AvailNat, Sizes
      <4> QED
        BY <1>2, <4>1 DEF Intact, IntactIn
    <3> QED
      BY <1>2, <3>1, <3>2 DEF StreamInv, UnreadOK
  <2> QED
    BY <2>1, <2>2
<1>13. PendsOK'
  <2> SUFFICES ASSUME NEW h \in Groups, Pends(h)'
               PROVE  /\ Intact(now - inst[h].pre)' /\ (det'.armed => armedAt' = now') /\ idx' = 0
                      /\ strm'[h].out = <<>> /\ strm'[h].want = now' - inst'[h].pre
                      /\ strm'[h].upTo = None
                      /\ \A f \in Groups : Pends(f)' => f = h
    BY DEF PendsOK
  <2>1. Pends(h) /\ h # g /\ inst'[h] = inst[h] /\ strm'[h] = strm[h]
    BY <1>7, <1>8, <1>9
  <2>2. /\ Intact(now - inst[h].pre) /\ (det.armed => armedAt = now) /\ idx = 0
        /\ strm[h].out = <<>> /\ strm[h].want = now - inst[h].pre /\ strm[h].upTo = None
        /\ \A f \in Groups : Pends(f) => f = h
    BY <2>1 DEF StreamInv, PendsOK
  <2>3. Intact(now - inst[h].pre)'
    <3>1. \A m : m = now - inst[h].pre => Intact(m)'
      BY <1>11, <2>1, <2>2
    <3> QED
      BY <1>2, <2>1, <3>1 DEF Intact
  <2>4. \A f \in Groups : Pends(f)' => f = h
    BY <1>9, <2>2
  <2> QED
    BY <1>2, <2>1, <2>2, <2>3, <2>4
<1>14. GroupsOK'
  <2>1. NoInst.on = FALSE /\ NoInst.until = "none" /\ NoInst.qty = 1
    BY DEF NoInst
  <2>2. ASSUME NEW h \in Groups
        PROVE  /\ ~inst'[h].on => inst'[h] = NoInst
               /\ inst'[h].until = "speech" => inst'[h].dest # "user"
               /\ inst'[h].on /\ inst'[h].dest = "none" => strm'[h].upTo # None
    <3>1. CASE h = g
      BY <1>7, <2>1, <3>1
    <3>2. CASE h # g
      BY <1>7, <1>8, <3>2 DEF StreamInv, GroupsOK
    <3> QED
      BY <3>1, <3>2
  <2>3. "default" \in Groups /\ "tap" \in Groups
    BY DEF Groups
  <2>4. inst'["default"].on => idx' < inst'["default"].qty
    BY <1>2, <1>7, <2>1, <2>3 DEF StreamInv, GroupsOK
  <2>5. inst'["tap"].on => idx' = 0 /\ inst'["tap"].qty = 1 /\ inst'["default"].qty = 1
    BY <1>2, <1>7, <2>1, <2>3 DEF StreamInv, GroupsOK
  <2> QED
    BY <2>2, <2>4, <2>5 DEF GroupsOK
<1>15. StreamsOK'
  <2> SUFFICES ASSUME NEW h \in Groups
               PROVE  /\ Follows(strm'[h]) /\ Done(strm'[h])
                      /\ Flows(inst'[h]) /\ ~Pends(h)' => Delivered(strm'[h], now' - idx' * FrameQty)
    BY <1>8 DEF StreamsOK
  <2>1. CASE h = g
    <3>1. \A x \in StrmType, n \in Int : Follows(x) => Follows(UpTo(x, n))
      BY DEF StrmType, UpTo, Follows
    <3>2. Follows(strm'[h]) /\ Done(strm'[h])
      BY <1>4, <1>5, <1>8, <2>1, <3>1
    <3> QED
      BY <1>9, <2>1, <3>2
  <2>2. CASE h # g
    <3>1. /\ Follows(strm[h]) /\ Done(strm[h])
          /\ Flows(inst[h]) /\ ~Pends(h) => Delivered(strm[h], now - idx * FrameQty)
      BY DEF StreamInv, StreamsOK
    <3> QED
      BY <1>2, <1>8, <1>9, <2>2, <3>1
  <2> QED
    BY <2>1, <2>2
<1> QED
  BY <1>10, <1>12, <1>13, <1>14, <1>15 DEF StreamInv

\* What the writers leave to be taken from the ring, of a stream that they have fed.
LEMMA FedTakes ==
    ASSUME KeywordInv, NEW g \in Groups, NEW i, i = [inst[g] EXCEPT !.pre = @ - Pre(inst[g])]
    PROVE  /\ i.on = inst[g].on /\ i.dest = inst[g].dest /\ i.until = inst[g].until
           /\ i.qty = inst[g].qty /\ Pre(i) = 0 /\ i \in InstType
<1>1. inst[g] \in InstType
  BY DEF KeywordInv, InstShape
<1>2. /\ i.on = inst[g].on /\ i.dest = inst[g].dest /\ i.until = inst[g].until
      /\ i.qty = inst[g].qty /\ i.pre = inst[g].pre - Pre(inst[g])
  BY <1>1 DEF InstType
<1>3. inst[g].pre - Pre(inst[g]) \in Nat
  BY <1>1 DEF InstType, Pre
<1>4. Pre(i) = 0
  BY <1>1, <1>2 DEF InstType, Pre
<1> QED
  BY <1>1, <1>2, <1>3, <1>4 DEF InstType

\* The frames left over are fewer than make a group, and none beside the tap.
LEMMA LeftFew ==
    ASSUME KeywordInv, StreamInv
    PROVE  /\ Left \in Nat /\ Left < inst["default"].qty
           /\ inst["tap"].on => Left = 0
<1>1. "default" \in Groups /\ idx \in Nat /\ inst["default"].qty \in Nat \ {0}
  BY DEF Groups, KeywordInv, InstShape, InstType
<1>2. inst["tap"].on => inst["default"].qty = 1
  BY DEF StreamInv, GroupsOK
<1> QED
  BY <1>1, <1>2 DEF Left

\* What the end of speech leaves.
Ended(end) ==
    /\ end.strm \in [Groups -> StrmType]
    /\ end.inst["tap"] = FrameState.inst["tap"] /\ end.strm["tap"] = FrameState.strm["tap"]
    /\ end.inst["default"].on /\ end.inst["default"].dest = "none"
    /\ end.inst["default"].until = "none" /\ end.inst["default"].qty = 1
    /\ Follows(end.strm["default"]) /\ Done(end.strm["default"])
    /\ end.strm["default"].upTo # None

\* The end of speech ends a stream that has delivered all that was read.
LEMMA SpeechEnded ==
    ASSUME KeywordInv, StreamInv, inst["default"].until = "speech"
    PROVE  Ended(SpeechEnds(FrameState, Left, now + FrameQty))
<1> DEFINE g == "default"
           a == FrameState
           n == now + FrameQty
           b == Flush(a, g, Left, n)
           c == SpeechEnds(a, Left, n)
<1>1. g \in Groups /\ "tap" \in Groups /\ inst[g] \in InstType /\ g # "tap"
      /\ now \in Nat /\ n \in Nat
  BY Sizes DEF Groups, KeywordInv, InstShape, RingShape
<1>2. inst[g].on /\ inst[g].dest \in {"pipe", "none"}
  <2>1. NoInst.until = "none"
    BY DEF NoInst
  <2> QED
    BY <1>1, <2>1 DEF StreamInv, GroupsOK, InstType
<1>3. StateShape(a) /\ a.strm \in [Groups -> StrmType] /\ Fed(a, g)
  BY <1>1, BothFed
<1>4. Left \in Nat
  BY LeftFew
<1>5. /\ StateShape(b) /\ b.strm \in [Groups -> StrmType]
      /\ b.strm["tap"] = a.strm["tap"] /\ b.inst["tap"] = a.inst["tap"]
      /\ b.inst[g].qty = 1 /\ b.inst[g].on /\ b.inst[g].dest \in {"pipe", "none"}
      /\ Follows(b.strm[g]) /\ Done(UpTo(b.strm[g], n)) /\ UpTo(b.strm[g], n).upTo # None
  <2>1. CASE inst[g].dest = "none"
    <3> DEFINE s1 == [a EXCEPT !.inst[g].qty = 1]
    <3>1. a.inst[g] = inst[g] /\ a.strm[g] = strm[g] /\ strm[g].upTo # None
          /\ Follows(strm[g]) /\ Done(strm[g]) /\ strm[g] \in StrmType
      BY <1>1, <1>2, <1>3, <2>1 DEF Fed, Flows, StreamInv, GroupsOK, StreamsOK
    <3>2. s1 = [ring |-> a.ring, inst |-> [a.inst EXCEPT ![g].qty = 1], strm |-> a.strm]
      BY <1>3 DEF StateShape
    <3>3. /\ s1.inst[g].qty = 1 /\ s1.inst[g].on /\ s1.inst[g].dest = "none"
          /\ s1.inst["tap"] = a.inst["tap"] /\ s1.strm = a.strm
      <4>1. s1.inst[g] = [inst[g] EXCEPT !.qty = 1] /\ s1.inst["tap"] = a.inst["tap"]
        BY <1>1, <1>3, <3>1, <3>2 DEF StateShape
      <4> QED
        BY <1>1, <1>2, <2>1, <3>2, <4>1 DEF InstType
    <3>4. b = Serve(s1, g, Left, n) /\ StateShape(b)
      BY <1>1, <1>3, FlushServes DEF Flush, Served
    <3> HIDE DEF s1, b
    <3>5. b = s1
      BY <3>3, <3>4, ServeNone DEF Flows
    <3>6. UpTo(strm[g], n) = strm[g]
      BY <3>1 DEF UpTo, StrmType
    <3> QED
      BY <1>3, <3>1, <3>3, <3>4, <3>5, <3>6
  <2>2. CASE inst[g].dest = "pipe"
    <3> DEFINE e == n - Left * FrameQty
    <3>1. Flows(inst[g])
      BY <1>2, <2>2 DEF Flows
    <3>2. a.inst[g] = [inst[g] EXCEPT !.pre = @ - Pre(inst[g])]
          /\ Follows(a.strm[g]) /\ Delivered(a.strm[g], e)
      BY <1>3, <3>1 DEF Fed
    <3>3. a.inst[g].on /\ a.inst[g].dest = "pipe" /\ Pre(a.inst[g]) = 0 /\ a.inst[g] \in InstType
      BY <1>1, <1>2, <2>2, <3>2, FedTakes
    <3>4. e \in Int
      <4>1. \A x, y \in Nat : x * y \in Nat
        OBVIOUS
      <4>2. Left * FrameQty \in Nat
        BY <1>4, <4>1, Sizes
      <4> QED
        BY <1>1, <4>2
    <3>5. e = n - Left * FrameQty
      OBVIOUS
    <3> HIDE DEF e, b, a, n
    <3>6. 0 \in Nat /\ 0 = Pre(a.inst[g]) /\ Delivered(a.strm[g], e - 0) /\ Past(a.ring, 0, e - 0)
          /\ Flows(a.inst[g]) /\ (g = "tap" => Left = 0)
      BY <1>1, <3>2, <3>3, <3>4 DEF Past, Flows
    <3>7. Flushed(a, Flush(a, g, Left, n), g, 0, n)
      BY <1>1, <1>3, <1>4, <3>2, <3>4, <3>5, <3>6, FlushFlows
    <3>8. Flushed(a, b, g, 0, n)
      BY <3>7 DEF b
    <3>9. b.inst[g].qty = 1 /\ b.inst[g].on /\ b.inst[g].dest = "pipe"
      BY <1>1, <3>3, <3>8 DEF Flushed, InstType
    <3>10. /\ StateShape(b) /\ b.strm \in [Groups -> StrmType]
           /\ b.strm["tap"] = a.strm["tap"] /\ b.inst["tap"] = a.inst["tap"]
           /\ Follows(b.strm[g]) /\ Delivered(b.strm[g], n)
      BY <1>1, <3>8 DEF Flushed
    <3>11. UpTo(b.strm[g], n) = [b.strm[g] EXCEPT !.upTo = n] /\ b.strm[g] \in StrmType
      BY <1>1, <3>10 DEF UpTo, Delivered
    <3>12. Done(UpTo(b.strm[g], n)) /\ UpTo(b.strm[g], n).upTo # None
      <4>1. /\ [b.strm[g] EXCEPT !.upTo = n].upTo = n
            /\ [b.strm[g] EXCEPT !.upTo = n].out = b.strm[g].out
            /\ [b.strm[g] EXCEPT !.upTo = n].want = b.strm[g].want
        BY <3>11 DEF StrmType
      <4>2. b.strm[g].want \in Int /\ Len(b.strm[g].out) \in Nat
            /\ b.strm[g].want + Len(b.strm[g].out) = n
        BY <3>10, <3>11 DEF StrmType, Delivered
      <4>3. Len(b.strm[g].out) = n - b.strm[g].want /\ n # None
        BY <1>1, <4>2 DEF None
      <4> QED
        BY <3>11, <4>1, <4>3 DEF Done
    <3> QED
      BY <3>9, <3>10, <3>12
  <2> QED
    BY <1>2, <2>1, <2>2
<1>6. /\ c.inst = [b.inst EXCEPT ![g].until = "none",
                                 ![g].dest = IF @ = "pipe" THEN "none" ELSE @]
      /\ c.strm = [b.strm EXCEPT ![g] = UpTo(@, n)]
  <2>1. b = [ring |-> b.ring, inst |-> b.inst, strm |-> b.strm]
    BY <1>5 DEF StateShape
  <2>2. c = [b EXCEPT !.inst = [b.inst EXCEPT ![g].until = "none",
                                   ![g].dest = IF @ = "pipe" THEN "none" ELSE @],
                      !.strm[g] = UpTo(@, n)]
    BY DEF SpeechEnds
  <2> HIDE DEF b, c, g
  <2> QED
    BY <2>1, <2>2
<1> HIDE DEF b, c, a, n
<1>7. b.inst[g] \in InstType /\ b.inst \in [Groups -> InstType] /\ b.strm[g] \in StrmType
  BY <1>1, <1>5 DEF StateShape
<1>8. /\ c.inst["tap"] = b.inst["tap"]
      /\ c.inst[g].on /\ c.inst[g].dest = "none" /\ c.inst[g].until = "none"
      /\ c.inst[g].qty = 1
  <2>1. c.inst["tap"] = b.inst["tap"]
        /\ c.inst[g] = [b.inst[g] EXCEPT !.until = "none", !.dest = IF @ = "pipe" THEN "none" ELSE @]
    BY <1>1, <1>6, <1>7
  <2> QED
    BY <1>5, <1>7, <2>1 DEF InstType
<1>9. /\ c.strm \in [Groups -> StrmType] /\ c.strm[g] = UpTo(b.strm[g], n)
      /\ c.strm["tap"] = b.strm["tap"]
  <2>1. \A x \in StrmType, m \in Int : UpTo(x, m) \in StrmType
    BY DEF StrmType, UpTo
  <2>2. UpTo(b.strm[g], now + FrameQty) \in StrmType /\ n = now + FrameQty
    BY <1>1, <1>7, <2>1 DEF n
  <2> QED
    BY <1>1, <1>5, <1>6, <2>2
<1>10. Follows(c.strm[g])
  <2>1. \A x \in StrmType, m \in Int : Follows(x) => Follows(UpTo(x, m))
    BY DEF StrmType, UpTo, Follows
  <2>2. n \in Int
    BY <1>1
  <2> QED
    BY <1>5, <1>7, <1>9, <2>1, <2>2
<1>11. Ended(c)
  BY <1>5, <1>8, <1>9, <1>10 DEF Ended, a
<1> QED
  BY <1>11 DEF c, n, a

\* A microphone frame feeds the streams, and may end the default one.
LEMMA MicStreams ==
    ASSUME KeywordInv, StreamInv, MicFrame
    PROVE  GroupsOK' /\ StreamsOK' /\ \A g \in Groups : ~Pends(g)'
<1> DEFINE n == now + FrameQty
           a == FrameState
           c == SpeechEnds(a, Left, n)
<1>1. /\ now' = n
      /\ \/ inst' = a.inst /\ strm' = a.strm /\ idx' = Left
         \/ /\ inst["default"].until = "speech"
            /\ inst' = c.inst /\ strm' = c.strm /\ idx' = 0
  BY DEF MicFrame, FrameState, Left
<1>2. StateShape(a) /\ a.strm \in [Groups -> StrmType] /\ \A g \in Groups : Fed(a, g)
  BY BothFed
<1>3. "default" \in Groups /\ "tap" \in Groups /\ \A g \in Groups : g = "default" \/ g = "tap"
  BY DEF Groups
<1>4. Left \in Nat /\ Left < inst["default"].qty /\ (inst["tap"].on => Left = 0)
  BY LeftFew
<1>5. now \in Nat /\ n \in Nat /\ 0 * FrameQty = 0 /\ n - 0 * FrameQty = n
      /\ n = now + FrameQty
  BY Sizes DEF KeywordInv, RingShape
<1>6. inst["default"].until = "speech" => Ended(c)
  BY SpeechEnded
<1> HIDE DEF a, c, n
\* What a group is after the writers.
<1>7. ASSUME NEW g \in Groups
      PROVE  /\ a.inst[g].on = inst[g].on /\ a.inst[g].dest = inst[g].dest
             /\ a.inst[g].until = inst[g].until /\ a.inst[g].qty = inst[g].qty
             /\ ~inst[g].on => a.inst[g] = inst[g]
             /\ Follows(a.strm[g]) /\ Done(a.strm[g])
             /\ inst[g].on /\ inst[g].dest = "none" => a.strm[g].upTo # None
             /\ Flows(inst[g]) => Delivered(a.strm[g], n - Left * FrameQty)
             /\ ~(Flows(a.inst[g]) /\ Pre(a.inst[g]) > 0)
  <2>1. CASE Flows(inst[g])
    <3>1. /\ a.inst[g] = [inst[g] EXCEPT !.pre = @ - Pre(inst[g])]
          /\ Follows(a.strm[g]) /\ Delivered(a.strm[g], n - Left * FrameQty)
      BY <1>2, <2>1 DEF Fed, n
    <3>2. /\ a.inst[g].on = inst[g].on /\ a.inst[g].dest = inst[g].dest
          /\ a.inst[g].until = inst[g].until /\ a.inst[g].qty = inst[g].qty
          /\ Pre(a.inst[g]) = 0
      BY <3>1, FedTakes
    <3>3. Done(a.strm[g])
      BY <3>1 DEF Delivered, Done
    <3>4. ~(Pre(a.inst[g]) > 0)
      BY <3>2
    <3>5. inst[g].on /\ inst[g].dest # "none"
      BY <2>1 DEF Flows
    <3> QED
      BY <3>1, <3>2, <3>3, <3>4, <3>5
  <2>2. CASE ~Flows(inst[g])
    <3>1. a.inst[g] = inst[g] /\ a.strm[g] = strm[g]
      BY <1>2, <2>2 DEF Fed
    <3>2. /\ Follows(strm[g]) /\ Done(strm[g])
          /\ inst[g].on /\ inst[g].dest = "none" => strm[g].upTo # None
      BY DEF StreamInv, StreamsOK, GroupsOK
    <3> QED
      BY <2>2, <3>1, <3>2
  <2> QED
    BY <2>1, <2>2
<1>8. CASE inst' = a.inst /\ strm' = a.strm /\ idx' = Left
  <2>1. GroupsOK'
    <3>1. ASSUME NEW g \in Groups
          PROVE  /\ ~inst'[g].on => inst'[g] = NoInst
                 /\ inst'[g].until = "speech" => inst'[g].dest # "user"
                 /\ inst'[g].on /\ inst'[g].dest = "none" => strm'[g].upTo # None
      BY <1>7, <1>8 DEF StreamInv, GroupsOK
    <3>2. inst'["default"].on => idx' < inst'["default"].qty
      BY <1>3, <1>4, <1>7, <1>8
    <3>3. inst'["tap"].on => idx' = 0 /\ inst'["tap"].qty = 1 /\ inst'["default"].qty = 1
      BY <1>3, <1>4, <1>7, <1>8 DEF StreamInv, GroupsOK
    <3> QED
      BY <3>1, <3>2, <3>3 DEF GroupsOK
  <2>2. \A g \in Groups : ~Pends(g)'
    BY <1>7, <1>8 DEF Pends
  <2>3. ASSUME NEW g \in Groups
        PROVE  /\ Follows(strm'[g]) /\ Done(strm'[g])
               /\ Flows(inst'[g]) => Delivered(strm'[g], now' - idx' * FrameQty)
    <3>1. Flows(inst'[g]) => Flows(inst[g])
      BY <1>7, <1>8 DEF Flows
    <3>2. Flows(inst[g]) => Delivered(a.strm[g], n - Left * FrameQty)
      BY <1>7
    <3>3. Flows(inst'[g]) => Delivered(strm'[g], now' - idx' * FrameQty)
      BY <1>1, <1>8, <3>1, <3>2
    <3> QED
      BY <1>7, <1>8, <3>3
  <2>4. StreamsOK'
    BY <1>2, <1>8, <2>3 DEF StreamsOK
  <2> QED
    BY <2>1, <2>2, <2>4
<1>9. CASE /\ inst["default"].until = "speech"
           /\ inst' = c.inst /\ strm' = c.strm /\ idx' = 0
  <2>1. /\ strm' \in [Groups -> StrmType]
        /\ inst'["tap"] = a.inst["tap"] /\ strm'["tap"] = a.strm["tap"]
        /\ inst'["default"].on /\ inst'["default"].dest = "none"
        /\ inst'["default"].until = "none" /\ inst'["default"].qty = 1
        /\ Follows(strm'["default"]) /\ Done(strm'["default"])
        /\ strm'["default"].upTo # None
    BY <1>6, <1>9 DEF Ended, a
  <2>2. GroupsOK'
    <3>1. ASSUME NEW g \in Groups
          PROVE  /\ ~inst'[g].on => inst'[g] = NoInst
                 /\ inst'[g].until = "speech" => inst'[g].dest # "user"
                 /\ inst'[g].on /\ inst'[g].dest = "none" => strm'[g].upTo # None
      <4>1. CASE g = "default"
        BY <2>1, <4>1
      <4>2. CASE g = "tap"
        <5>1. /\ a.inst[g].on = inst[g].on /\ a.inst[g].dest = inst[g].dest
              /\ a.inst[g].until = inst[g].until /\ (~inst[g].on => a.inst[g] = inst[g])
              /\ (inst[g].on /\ inst[g].dest = "none" => a.strm[g].upTo # None)
          BY <1>7
        <5>2. /\ ~inst[g].on => inst[g] = NoInst
              /\ inst[g].until = "speech" => inst[g].dest # "user"
          BY DEF StreamInv, GroupsOK
        <5> QED
          BY <2>1, <4>2, <5>1, <5>2
      <4> QED
        BY <1>3, <4>1, <4>2
    <3>2. inst'["default"].on => idx' < inst'["default"].qty
      BY <1>9, <2>1
    <3>3. inst'["tap"].on => idx' = 0 /\ inst'["tap"].qty = 1 /\ inst'["default"].qty = 1
      BY <1>3, <1>7, <1>9, <2>1 DEF StreamInv, GroupsOK
    <3> QED
      BY <3>1, <3>2, <3>3 DEF GroupsOK
  <2>3. \A g \in Groups : ~Pends(g)'
    <3>1. ~Flows(inst'["default"])
      BY <2>1 DEF Flows
    <3>2. ~(Flows(inst'["tap"]) /\ Pre(inst'["tap"]) > 0)
      BY <1>3, <1>7, <2>1
    <3>3. ~Pends("default")' /\ ~Pends("tap")'
      BY <3>1, <3>2 DEF Pends
    <3> QED
      BY <1>3, <3>3
  <2>4. ASSUME NEW g \in Groups
        PROVE  /\ Follows(strm'[g]) /\ Done(strm'[g])
               /\ Flows(inst'[g]) => Delivered(strm'[g], now' - idx' * FrameQty)
    <3>1. CASE g = "default"
      BY <2>1, <3>1 DEF Flows
    <3>2. CASE g = "tap"
      <4>1. Follows(strm'[g]) /\ Done(strm'[g])
        BY <1>7, <2>1, <3>2
      <4>2. ASSUME Flows(inst'[g]) PROVE Delivered(strm'[g], now' - idx' * FrameQty)
        <5>1. Flows(inst[g]) /\ inst["tap"].on
          BY <1>7, <2>1, <3>2, <4>2 DEF Flows
        <5>2. Delivered(a.strm[g], n - Left * FrameQty) /\ Left = 0
          BY <1>4, <1>7, <5>1
        <5>3. Delivered(a.strm[g], n - 0 * FrameQty)
          BY <5>2
        <5> QED
          BY <1>1, <1>9, <2>1, <3>2, <5>3
      <4> QED
        BY <4>1, <4>2
    <3> QED
      BY <1>3, <3>1, <3>2
  <2>5. StreamsOK'
    BY <2>1, <2>4 DEF StreamsOK
  <2> QED
    BY <2>2, <2>3, <2>5
<1> QED
  BY <1>1, <1>8, <1>9

\* A microphone frame leaves what was heard undamaged, and the event to be told right.
LEMMA MicHeard ==
    ASSUME KeywordInv, EventInv, StreamInv, MicFrame, \A g \in Groups : ~Pends(g)'
    PROVE  FreshOK' /\ UnreadOK'
<1> DEFINE n == now + FrameQty
           a == FrameState
<1>1. /\ now' = n
      /\ IF det.active
         THEN /\ ring' = RingWith(a.ring, now) /\ avail' = AvailAfter /\ write' = WriteAfter
              /\ Detector(n)
         ELSE ring' = a.ring /\ UNCHANGED <<avail, write, det, report, armedAt>>
  BY DEF MicFrame, FrameState
<1>2. a.ring \in Rings /\ ((\A g \in Groups : ~Pends(g)) => a.ring = ring)
  BY BothFed DEF StateShape
<1>3. now \in Nat /\ n \in Nat /\ FrameQty \in Nat /\ armedAt \in Nat
  BY Sizes DEF KeywordInv, RingShape, StreamInv, UnreadOK
<1>4. (det.armed => det.active) /\ (report.fresh => det.active /\ ~det.armed)
  BY DEF EventInv, ChoiceOK, StreamInv, FreshOK
<1>5. ReportShape(report)
  BY DEF StreamInv, FreshOK
<1> HIDE DEF a
<1>6. CASE ~det.active
  <2>1. ~det'.armed /\ ~report'.fresh /\ report' = report /\ armedAt' = armedAt
    BY <1>1, <1>4, <1>6
  <2> QED
    BY <1>3, <1>5, <2>1 DEF FreshOK, UnreadOK, ReportShape
<1>7. CASE det.active
  <2>1. /\ ring' = RingWith(a.ring, now) /\ avail' = AvailAfter /\ write' = WriteAfter
        /\ Detector(n) /\ DetOK(det)
    BY <1>1, <1>7 DEF KeywordInv, DetShape
  <2>2. det'.active
    BY <1>3, <1>7, <2>1, DetectorOK
  <2>3. (det.armed \/ report.fresh) => Intact(armedAt)'
    <3> SUFFICES ASSUME det.armed \/ report.fresh, armedAt' = armedAt PROVE Intact(armedAt)'
      <4>1. CASE armedAt' = armedAt
        BY <4>1
      <4>2. CASE armedAt' # armedAt
        <5>1. armedAt' = now'
          BY <1>1, <2>1, <4>2, <1>3, DetectorDoes
        <5>2. avail' \in Nat /\ now' \in Nat
          <6>1. avail \in Nat
            BY AvailNat, Sizes
          <6> QED
            BY <1>1, <1>3, <2>1, <6>1 DEF AvailAfter
        <5>3. \A j \in 1 .. avail' : ~(now' <= now' - j)
          <6>1. \A x, y \in Nat : \A j \in 1 .. y : ~(x <= x - j)
            OBVIOUS
          <6> QED
            BY <5>2, <6>1
        <5> QED
          BY <5>1, <5>3 DEF Intact, IntactIn
      <4> QED
        BY <4>1, <4>2
    <3>1. IntactIn(a.ring, armedAt)
      <4>1. CASE \A g \in Groups : ~Pends(g)
        <5>1. Intact(armedAt)
          BY DEF StreamInv, UnreadOK
        <5>2. a.ring = ring
          BY <1>2, <4>1
        <5> QED
          BY <5>1, <5>2 DEF Intact
      <4>2. CASE \E g \in Groups : Pends(g)
        <5>1. det.armed => armedAt = now
          BY <4>2 DEF StreamInv, PendsOK
        <5>2. ~report.fresh
          BY <4>2 DEF StreamInv, FreshOK
        <5>3. avail \in Nat
          BY AvailNat, Sizes
        <5> QED
          BY <1>3, <5>1, <5>2, <5>3 DEF IntactIn
      <4> QED
        BY <4>1, <4>2
    <3>2. now' = now + FrameQty /\ armedAt \in Int
      BY <1>1, <1>3
    <3>3. \A m \in Int : IntactIn(a.ring, m) => Intact(m)'
      <4> SUFFICES ASSUME NEW m \in Int, IntactIn(a.ring, m) PROVE Intact(m)'
        OBVIOUS
      <4>1. RingShape /\ RingHoldsNewest
        BY DEF KeywordInv
      <4> DEFINE rg == a.ring
      <4>2. rg \in Rings /\ IntactIn(rg, m) /\ ring' = RingWith(rg, now)
        BY <1>2, <2>1
      <4> HIDE DEF rg
      <4> QED
        BY <2>1, <3>2, <4>1, <4>2, FrameIntact
    <3>4. \A m : m = armedAt => Intact(m)'
      BY <3>1, <3>2, <3>3
    <3> QED
      BY <3>4 DEF Intact
  <2>4. CASE /\ ~det.armed /\ ~det'.armed /\ UNCHANGED <<report, armedAt>>
             /\ det'.begin = det.begin /\ det'.postCallback = det.postCallback + 1
    <3>1. ASSUME report'.fresh
          PROVE  report'.begin = (now' - det'.postCallback * FrameQty) + det'.begin
      <4>1. report.begin = (now - det.postCallback * FrameQty) + det.begin
        BY <2>4, <3>1 DEF StreamInv, FreshOK
      <4>2. det.postCallback \in Nat /\ det.begin \in Int
        BY <2>1 DEF DetOK, DetType
      <4> DEFINE w == det.postCallback * FrameQty
      <4>3. w \in Nat /\ (det.postCallback + 1) * FrameQty = w + FrameQty
        <5>1. \A x, y \in Nat : x * y \in Nat /\ (x + 1) * y = x * y + y
          OBVIOUS
        <5> QED
          BY <1>3, <4>2, <5>1
      <4> HIDE DEF w
      <4>4. report.begin = (n - (w + FrameQty)) + det.begin
        BY <1>3, <4>1, <4>2, <4>3 DEF w
      <4> QED
        BY <1>1, <2>4, <4>3, <4>4
    <3>2. FreshOK'
      BY <1>5, <2>2, <2>4, <3>1 DEF FreshOK, ReportShape
    <3>3. UnreadOK'
      BY <1>3, <2>3, <2>4 DEF UnreadOK
    <3> QED
      BY <3>2, <3>3
  <2>5. CASE det.armed /\ report' = report /\ armedAt' \in {armedAt, n}
    <3>1. ~report'.fresh
      BY <1>4, <2>5
    <3>2. FreshOK'
      BY <1>5, <2>5, <3>1 DEF FreshOK, ReportShape
    <3> QED
      BY <1>3, <2>3, <2>5, <3>2 DEF UnreadOK
  <2>6. CASE /\ det.armed /\ ~det'.armed /\ armedAt' = armedAt
             /\ report'.begin = n + det'.begin /\ det'.postCallback = 0
             /\ ReportShape(report')
    <3>1. 0 * FrameQty = 0 /\ now' - 0 = n
      BY <1>1, <1>3
    <3>2. report'.begin = (now' - det'.postCallback * FrameQty) + det'.begin
      BY <2>6, <3>1
    <3>3. FreshOK'
      BY <2>2, <2>6, <3>2 DEF FreshOK, ReportShape
    <3> QED
      BY <1>3, <2>3, <2>6, <3>3 DEF UnreadOK
  <2> QED
    BY <1>3, <2>1, <2>4, <2>5, <2>6, DetectorDoes
<1> QED
  BY <1>6, <1>7

\* Every step keeps the streams in order.
LEMMA StreamStep ==
    ASSUME AsIntended, KeywordInv, EventInv, StreamInv, [Next]_vars
    PROVE  StreamInv'
<1>1. CASE UNCHANGED vars
  <2>1. now' = now /\ ring' = ring /\ avail' = avail /\ write' = write /\ det' = det
        /\ idx' = idx /\ inst' = inst /\ strm' = strm /\ report' = report /\ armedAt' = armedAt
    BY <1>1 DEF vars, kept
  <2>2. FreshOK' /\ UnreadOK'
    BY <2>1 DEF StreamInv, FreshOK, UnreadOK, Pends, Intact, IntactIn, Place, RingQty, ReportShape
  <2>3. PendsOK'
    BY <2>1 DEF StreamInv, PendsOK, Pends, Intact, IntactIn, Place, RingQty
  <2>4. GroupsOK' /\ StreamsOK'
    BY <2>1 DEF StreamInv, GroupsOK, StreamsOK, Pends
  <2> QED
    BY <2>2, <2>3, <2>4 DEF StreamInv
<1>2. CASE MicFrame
  <2>1. GroupsOK' /\ StreamsOK' /\ \A g \in Groups : ~Pends(g)'
    BY <1>2, MicStreams
  <2>2. FreshOK' /\ UnreadOK'
    BY <1>2, <2>1, MicHeard
  <2>3. PendsOK'
    BY <2>1 DEF PendsOK
  <2> QED
    BY <2>1, <2>2, <2>3 DEF StreamInv
<1> QED
  BY <1>1, <1>2, DetectStreams, StartStreams, StopStreams DEF Next

\* A stream that begins at a keyword, in the ring, or now delivers what was read from
\* there on, once each, in order and undamaged, until it ends: across the chunks of the
\* ring, the groups of frames and the frames between the event and the request
\* (xraudio_thread.c:1054, 3045, 3162).
THEOREM StreamIsExact ==
    ASSUME AsIntended
    PROVE  Spec => []StreamExact
<1>1. StreamInv => StreamExact
  BY DEF StreamInv, StreamsOK, Follows, Done, StreamExact
<1>2. KeywordInv /\ EventInv /\ StreamInv /\ [Next]_vars => StreamInv'
  BY StreamStep
<1>3. Spec => []StreamInv
  BY <1>2, StreamInit, KeywordInvariant, EventAlways, PTL DEF Spec
<1> QED
  BY <1>1, <1>3, PTL
=============================================================================
