---------------------- MODULE VoicePipelineOrderProofs ----------------------
(***************************************************************************)
(* Proof that the words of an answer are heard in the order in which they  *)
(* were said, that every channel keeps its capacity, that an answer        *)
(* reported as completed is whole, and that all this makes the pipeline an *)
(* implementation of SpokenAnswer.                                         *)
(*                                                                         *)
(* The argument for the order lines up the places a word passes: what the  *)
(* device has heard, then the runner's events, the TTS channel, the        *)
(* sentence being spoken, the segmenter's text, the relay's channel and    *)
(* the provider's.  The words of one provider rise within each place, and  *)
(* everything further downstream was said before; a step moves words from  *)
(* the upper end of one place to the lower end of another, or loses them.  *)
(*                                                                         *)
(* The argument for the whole answer is that as long as nothing breaks it  *)
(* off every word said is in one of these places, and that the places      *)
(* empty from the upper end on: the provider is done, its channel and the  *)
(* relay's are empty when the runner flushes, the segmenter and the TTS    *)
(* when it ends, the events when the consumer does.                        *)
(***************************************************************************)
EXTENDS VoicePipelineProofs, FiniteSetTheorems, WellFoundedInduction

\* a comes before b
Before(a, b) == \A m \in a, n \in b : m < n

\* the numbers of the words of s in a sequence of words ...
Nums(s, q) == {q[i].n : i \in {j \in DOMAIN q : q[j].src = s}}

\* ... and in a sequence of events or chunks
AllNums(s, q) == UNION {Nums(s, q[i].words) : i \in DOMAIN q}

\* the words of s are in the order in which it said them
Rising(s, q) ==
  \A i, j \in DOMAIN q : i < j /\ q[i].src = s /\ q[j].src = s => q[i].n < q[j].n

AllRising(s, q) ==
  \A i \in DOMAIN q : /\ Rising(s, q[i].words)
                      /\ \A j \in DOMAIN q : i < j => Before(Nums(s, q[i].words), Nums(s, q[j].words))

\* where the words of s are, from the device back to its channel
Places(s) == <<Nums(s, heard), AllNums(s, events), AllNums(s, audio), Nums(s, voice),
               Nums(s, pending), AllNums(s, out), AllNums(s, text[s])>>

\* what is further downstream was said before
InLine(p) == \A k, l \in 1..7 : k < l => Before(p[k], p[l])

Said(s) == 1..said[s]

OrderOf(s) ==
  /\ Rising(s, heard) /\ AllRising(s, events) /\ AllRising(s, audio) /\ Rising(s, voice)
  /\ Rising(s, pending) /\ AllRising(s, out) /\ AllRising(s, text[s])
  /\ InLine(Places(s))
  /\ \A k \in 1..7 : Places(s)[k] \subseteq Said(s)

OrderInv == \A s \in Sources : OrderOf(s)

\* membership, as the steps use it
LEMMA NumsOf ==
  ASSUME NEW s, NEW q, NEW m
  PROVE  m \in Nums(s, q) <=> \E i \in DOMAIN q : q[i].src = s /\ q[i].n = m
BY DEF Nums

LEMMA AllNumsOf ==
  ASSUME NEW s, NEW q, NEW m
  PROVE  m \in AllNums(s, q) <=> \E i \in DOMAIN q : m \in Nums(s, q[i].words)
BY DEF AllNums

\* nothing is in an empty sequence
LEMMA EmptyOrder ==
  ASSUME NEW s
  PROVE  /\ Nums(s, <<>>) = {} /\ AllNums(s, <<>>) = {}
         /\ Rising(s, <<>>) /\ AllRising(s, <<>>)
BY DEF Nums, AllNums, Rising, AllRising

\* two sentences, one after the other
LEMMA ConcatOrder ==
  ASSUME NEW s, NEW S, NEW q \in Seq(S), NEW r \in Seq(S)
  PROVE  /\ Nums(s, q \o r) \subseteq Nums(s, q) \cup Nums(s, r)
         /\ Nums(s, q) \subseteq Nums(s, q \o r) /\ Nums(s, r) \subseteq Nums(s, q \o r)
         /\ Rising(s, q) /\ Rising(s, r) /\ Before(Nums(s, q), Nums(s, r))
              => Rising(s, q \o r)
<1> DEFINE c == q \o r
<1>1. /\ Len(q) \in Nat /\ Len(r) \in Nat /\ DOMAIN q = 1..Len(q) /\ DOMAIN r = 1..Len(r)
  BY LenProperties
<1>2. /\ c \in Seq(S) /\ Len(c) = Len(q) + Len(r)
      /\ \A i \in 1..(Len(q) + Len(r)) :
           c[i] = IF i <= Len(q) THEN q[i] ELSE r[i - Len(q)]
  BY ConcatProperties
<1>3. DOMAIN c = 1..(Len(q) + Len(r))
  BY <1>2, LenProperties
<1>a. \A i \in DOMAIN q : i \in DOMAIN c /\ c[i] = q[i]
  BY <1>1, <1>2, <1>3
<1>b. \A i \in DOMAIN r : i + Len(q) \in DOMAIN c /\ c[i + Len(q)] = r[i]
  BY <1>1, <1>2, <1>3
<1>c. \A i \in DOMAIN c : \/ i \in DOMAIN q /\ c[i] = q[i]
                          \/ i - Len(q) \in DOMAIN r /\ c[i] = r[i - Len(q)] /\ i > Len(q)
  BY <1>1, <1>2, <1>3
<1> HIDE DEF c
<1>4. ASSUME NEW m PROVE m \in Nums(s, c) <=> m \in Nums(s, q) \cup Nums(s, r)
  <2>1. m \in Nums(s, q) => m \in Nums(s, c)
    BY <1>a, NumsOf
  <2>2. m \in Nums(s, r) => m \in Nums(s, c)
    BY <1>b, NumsOf
  <2>3. m \in Nums(s, c) => m \in Nums(s, q) \/ m \in Nums(s, r)
    BY <1>c, NumsOf
  <2> QED BY <2>1, <2>2, <2>3
<1>5. ASSUME Rising(s, q), Rising(s, r), Before(Nums(s, q), Nums(s, r))
      PROVE  Rising(s, c)
  <2> SUFFICES ASSUME NEW i \in DOMAIN c, NEW j \in DOMAIN c, i < j, c[i].src = s, c[j].src = s
               PROVE  c[i].n < c[j].n
    BY DEF Rising
  <2>0. i \in Int /\ j \in Int /\ Len(q) \in Int
    BY <1>1, <1>3
  <2>1. CASE i \in DOMAIN q /\ j \in DOMAIN q
    BY <1>5, <1>a, <2>1 DEF Rising
  <2>2. CASE i \in DOMAIN q /\ j \notin DOMAIN q
    <3>1. c[i].n \in Nums(s, q)
      BY <1>a, <2>2, NumsOf
    <3>2. c[j].n \in Nums(s, r)
      BY <1>c, <2>2, NumsOf
    <3> QED BY <1>5, <3>1, <3>2 DEF Before
  <2>3. CASE i \notin DOMAIN q
    <3>1. /\ i - Len(q) \in DOMAIN r /\ c[i] = r[i - Len(q)]
          /\ j - Len(q) \in DOMAIN r /\ c[j] = r[j - Len(q)]
          /\ i - Len(q) < j - Len(q)
      BY <1>1, <1>c, <2>0, <2>3
    <3> QED BY <1>5, <3>1 DEF Rising
  <2> QED BY <2>1, <2>2, <2>3
<1> QED BY <1>4, <1>5 DEF c

\* a sentence cut in two
LEMMA CutOrder ==
  ASSUME NEW s, NEW S, NEW q \in Seq(S), NEW i \in 1..Len(q), Rising(s, q)
  PROVE  LET a == SubSeq(q, 1, i)
             b == SubSeq(q, i + 1, Len(q))
         IN  /\ Nums(s, q) \subseteq Nums(s, a) \cup Nums(s, b)
             /\ Nums(s, a) \subseteq Nums(s, q) /\ Nums(s, b) \subseteq Nums(s, q)
             /\ Rising(s, a) /\ Rising(s, b) /\ Before(Nums(s, a), Nums(s, b))
<1> DEFINE a == SubSeq(q, 1, i)
           b == SubSeq(q, i + 1, Len(q))
<1>1. Len(q) \in Nat /\ DOMAIN q = 1..Len(q) /\ \A k \in 1..Len(q) : q[k] \in S
  BY LenProperties, ElementOfSeq
<1>0. i \in Int /\ Len(q) \in Int /\ i >= 1 /\ i <= Len(q)
  BY <1>1
<1>2. a \in Seq(S) /\ Len(a) = i /\ \A k \in 1..i : a[k] = q[k]
  <2>1. \A k \in 1..i : q[k] \in S
    BY <1>1
  <2>2. a \in Seq(S) /\ Len(a) = IF 1 <= i THEN i - 1 + 1 ELSE 0
    BY <2>1, <1>1, SubSeqProperties
  <2>3. \A k \in 1..(i - 1 + 1) : a[k] = q[1 + k - 1]
    BY <1>1, SubSeqProperties
  <2> QED BY <1>1, <2>2, <2>3
<1>3. b \in Seq(S) /\ Len(b) = Len(q) - i /\ \A k \in 1..(Len(q) - i) : b[k] = q[i + k]
  <2>1. \A k \in (i + 1)..Len(q) : q[k] \in S
    BY <1>1
  <2>2. b \in Seq(S) /\ Len(b) = IF i + 1 <= Len(q) THEN Len(q) - (i + 1) + 1 ELSE 0
    BY <2>1, <1>1, SubSeqProperties
  <2>3. \A k \in 1..(Len(q) - (i + 1) + 1) : b[k] = q[i + 1 + k - 1]
    BY <1>1, SubSeqProperties
  <2>5. \A k \in 1..(Len(q) - i) :
           k \in 1..(Len(q) - (i + 1) + 1) /\ i + 1 + k - 1 = i + k
    BY <1>1
  <2> HIDE DEF b
  <2>4. Len(b) = Len(q) - i
    BY <1>0, <2>2
  <2>6. \A k \in 1..(Len(q) - i) : b[k] = q[i + k]
    BY <2>3, <2>5
  <2> QED BY <2>2, <2>4, <2>6
<1>4. DOMAIN a = 1..i /\ DOMAIN b = 1..(Len(q) - i)
  BY <1>2, <1>3, LenProperties
<1> HIDE DEF a, b
<1>9. \A k \in DOMAIN b : i + k \in DOMAIN q /\ b[k] = q[i + k]
  BY <1>1, <1>3, <1>4
<1>5. ASSUME NEW m PROVE m \in Nums(s, q) <=> m \in Nums(s, a) \cup Nums(s, b)
  <2>1. m \in Nums(s, a) => m \in Nums(s, q)
    BY <1>1, <1>2, <1>4, NumsOf
  <2>2. m \in Nums(s, b) => m \in Nums(s, q)
    BY <1>9, NumsOf
  <2>3. m \in Nums(s, q) => m \in Nums(s, a) \/ m \in Nums(s, b)
    <3>1. \A k \in DOMAIN q : \/ k \in DOMAIN a /\ q[k] = a[k]
                              \/ k - i \in DOMAIN b /\ q[k] = b[k - i]
      BY <1>1, <1>2, <1>3, <1>4
    <3> QED BY <3>1, NumsOf
  <2> QED BY <2>1, <2>2, <2>3
<1>6. Rising(s, a)
  BY <1>1, <1>2, <1>4 DEF Rising
<1>7. Rising(s, b)
  <2>1. \A k, l \in DOMAIN b : k < l => i + k < i + l
    BY <1>1, <1>4
  <2> QED BY <1>9, <2>1 DEF Rising
<1>8. Before(Nums(s, a), Nums(s, b))
  <2> SUFFICES ASSUME NEW m \in Nums(s, a), NEW n \in Nums(s, b) PROVE m < n
    BY DEF Before
  <2>1. PICK k \in DOMAIN a : a[k].src = s /\ a[k].n = m
    BY NumsOf
  <2>2. PICK l \in DOMAIN b : b[l].src = s /\ b[l].n = n
    BY NumsOf
  <2>3. k \in 1..i /\ l \in 1..(Len(q) - i)
    BY <1>4
  <2>4. k \in DOMAIN q /\ q[k] = a[k]
    BY <1>0, <1>1, <1>2, <2>3
  <2>5. i + l \in DOMAIN q /\ q[i + l] = b[l]
    BY <1>9
  <2>6. k < i + l
    BY <1>0, <2>3
  <2> QED BY <2>1, <2>2, <2>4, <2>5, <2>6 DEF Rising
<1> QED BY <1>5, <1>6, <1>7, <1>8 DEF a, b

\* a sequence and its head, when it has one
LEMMA HeadOrder ==
  ASSUME NEW s, NEW S, NEW q \in Seq(S), q # <<>>
  PROVE  /\ AllNums(s, q) \subseteq Nums(s, Head(q).words) \cup AllNums(s, Tail(q))
         /\ Nums(s, Head(q).words) \subseteq AllNums(s, q) /\ AllNums(s, Tail(q)) \subseteq AllNums(s, q)
         /\ AllRising(s, q) => /\ Rising(s, Head(q).words) /\ AllRising(s, Tail(q))
                               /\ Before(Nums(s, Head(q).words), AllNums(s, Tail(q)))
<1> DEFINE t == Tail(q)
<1>1. /\ Len(q) \in Nat /\ Len(q) >= 1 /\ DOMAIN q = 1..Len(q) /\ Head(q) = q[1]
      /\ t \in Seq(S) /\ Len(t) = Len(q) - 1 /\ \A i \in 1..Len(t) : t[i] = q[i + 1]
  BY LenProperties, HeadTailProperties, EmptySeq
<1>2. DOMAIN t = 1..(Len(q) - 1)
  BY <1>1, LenProperties
<1>3. \A i \in DOMAIN t : i + 1 \in DOMAIN q /\ q[i + 1] = t[i] /\ 1 < i + 1
  BY <1>1, <1>2
<1>4. 1 \in DOMAIN q /\ \A i \in DOMAIN q : i = 1 \/ (i - 1 \in DOMAIN t /\ q[i] = t[i - 1])
  BY <1>1, <1>2
<1> HIDE DEF t
<1>5. ASSUME NEW m PROVE m \in AllNums(s, q) <=> m \in Nums(s, Head(q).words) \cup AllNums(s, t)
  <2>1. m \in AllNums(s, t) => m \in AllNums(s, q)
    BY <1>3, AllNumsOf
  <2>2. m \in Nums(s, Head(q).words) => m \in AllNums(s, q)
    BY <1>1, <1>4, AllNumsOf
  <2>3. m \in AllNums(s, q) => m \in Nums(s, Head(q).words) \/ m \in AllNums(s, t)
    BY <1>1, <1>4, AllNumsOf
  <2> QED BY <2>1, <2>2, <2>3
<1>6. ASSUME AllRising(s, q)
      PROVE  /\ Rising(s, Head(q).words) /\ AllRising(s, t)
             /\ Before(Nums(s, Head(q).words), AllNums(s, t))
  <2>1. Rising(s, Head(q).words)
    BY <1>1, <1>4, <1>6 DEF AllRising
  <2>2. AllRising(s, t)
    <3> SUFFICES ASSUME NEW i \in DOMAIN t
                 PROVE  /\ Rising(s, t[i].words)
                        /\ \A j \in DOMAIN t : i < j =>
                             Before(Nums(s, t[i].words), Nums(s, t[j].words))
      BY DEF AllRising
    <3>1. \A j \in DOMAIN t : i < j => i + 1 < j + 1
      BY <1>1, <1>2
    <3> QED BY <1>3, <1>6, <3>1 DEF AllRising
  <2>3. Before(Nums(s, Head(q).words), AllNums(s, t))
    <3> SUFFICES ASSUME NEW m \in Nums(s, Head(q).words), NEW n \in AllNums(s, t) PROVE m < n
      BY DEF Before
    <3>1. PICK j \in DOMAIN t : n \in Nums(s, t[j].words)
      BY AllNumsOf
    <3>2. Before(Nums(s, q[1].words), Nums(s, q[j + 1].words))
      BY <1>3, <1>4, <1>6, <3>1 DEF AllRising
    <3> QED BY <1>1, <1>3, <3>1, <3>2 DEF Before
  <2> QED BY <2>1, <2>2, <2>3
<1> QED BY <1>5, <1>6 DEF t

\* an event behind the others
LEMMA AppendOrder ==
  ASSUME NEW s, NEW S, NEW q \in Seq(S), NEW e \in S
  PROVE  /\ AllNums(s, Append(q, e)) \subseteq AllNums(s, q) \cup Nums(s, e.words)
         /\ AllNums(s, q) \subseteq AllNums(s, Append(q, e))
         /\ Nums(s, e.words) \subseteq AllNums(s, Append(q, e))
         /\ AllRising(s, q) /\ Rising(s, e.words) /\ Before(AllNums(s, q), Nums(s, e.words))
              => AllRising(s, Append(q, e))
<1> DEFINE c == Append(q, e)
<1>1. /\ Len(q) \in Nat /\ DOMAIN q = 1..Len(q)
      /\ c \in Seq(S) /\ Len(c) = Len(q) + 1
      /\ \A i \in 1..Len(q) : c[i] = q[i]
      /\ c[Len(q) + 1] = e
  BY LenProperties, AppendProperties
<1>2. DOMAIN c = 1..(Len(q) + 1)
  BY <1>1, LenProperties
<1>3. /\ Len(q) + 1 \in DOMAIN c
      /\ \A i \in DOMAIN q : i \in DOMAIN c /\ c[i] = q[i] /\ i < Len(q) + 1
      /\ \A i \in DOMAIN c : i \in DOMAIN q \/ i = Len(q) + 1
  BY <1>1, <1>2
<1> HIDE DEF c
<1>4. ASSUME NEW m PROVE m \in AllNums(s, c) <=> m \in AllNums(s, q) \cup Nums(s, e.words)
  <2>1. m \in AllNums(s, q) => m \in AllNums(s, c)
    BY <1>3, AllNumsOf
  <2>2. m \in Nums(s, e.words) => m \in AllNums(s, c)
    BY <1>1, <1>3, AllNumsOf
  <2>3. m \in AllNums(s, c) => m \in AllNums(s, q) \/ m \in Nums(s, e.words)
    BY <1>1, <1>3, AllNumsOf
  <2> QED BY <2>1, <2>2, <2>3
<1>5. ASSUME AllRising(s, q), Rising(s, e.words), Before(AllNums(s, q), Nums(s, e.words))
      PROVE  AllRising(s, c)
  <2> SUFFICES ASSUME NEW i \in DOMAIN c
               PROVE  /\ Rising(s, c[i].words)
                      /\ \A j \in DOMAIN c : i < j =>
                           Before(Nums(s, c[i].words), Nums(s, c[j].words))
    BY DEF AllRising
  <2>1. Rising(s, c[i].words)
    BY <1>1, <1>3, <1>5 DEF AllRising
  <2>2. ASSUME NEW j \in DOMAIN c, i < j
        PROVE  Before(Nums(s, c[i].words), Nums(s, c[j].words))
    <3>1. i \in DOMAIN q /\ c[i] = q[i]
      BY <1>1, <1>2, <1>3, <2>2
    <3>2. CASE j \in DOMAIN q
      BY <1>3, <1>5, <2>2, <3>1, <3>2 DEF AllRising
    <3>3. CASE j = Len(q) + 1
      <4>1. \A m \in Nums(s, c[i].words) : m \in AllNums(s, q)
        BY <3>1, AllNumsOf
      <4> QED BY <1>1, <1>5, <3>3, <4>1 DEF Before
    <3> QED BY <1>3, <3>2, <3>3
  <2> QED BY <2>1, <2>2
<1> QED BY <1>4, <1>5 DEF c

\* one word
LEMMA OneWord ==
  ASSUME NEW s, NEW w
  PROVE  /\ Nums(s, <<w>>) = IF w.src = s THEN {w.n} ELSE {}
         /\ Rising(s, <<w>>)
BY DEF Nums, Rising

\* words move on by one place
LEMMA MoveOn ==
  ASSUME NEW p, NEW q, InLine(p), NEW k \in 1..7, NEW f \in 1..7, f = k + 1, NEW M,
         M \subseteq p[f], Before(M, q[f]), q[k] \subseteq p[k] \cup M,
         \A l \in 1..7 : l # k => q[l] \subseteq p[l]
  PROVE  InLine(q)
<1> SUFFICES ASSUME NEW i \in 1..7, NEW j \in 1..7, i < j PROVE Before(q[i], q[j])
  BY DEF InLine
<1>1. CASE i = k
  <2>1. q[j] \subseteq p[j] /\ Before(p[k], p[j])
    BY <1>1 DEF InLine
  <2>2. j = f \/ Before(p[f], p[j])
    BY <1>1 DEF InLine
  <2> QED BY <1>1, <2>1, <2>2 DEF Before
<1>2. CASE j = k
  BY <1>2 DEF InLine, Before
<1>3. CASE i # k /\ j # k
  BY <1>3 DEF InLine, Before
<1> QED BY <1>1, <1>2, <1>3

\* an event without words changes nothing
LEMMA SilentOrder ==
  ASSUME NEW s, NEW S, NEW q \in Seq(S), NEW e \in S, Nums(s, e.words) = {}, Rising(s, e.words)
  PROVE  /\ AllNums(s, Append(q, e)) \subseteq AllNums(s, q)
         /\ AllNums(s, q) \subseteq AllNums(s, Append(q, e))
         /\ AllRising(s, q) => AllRising(s, Append(q, e))
<1>1. Before(AllNums(s, q), Nums(s, e.words))
  BY DEF Before
<1>2. ASSUME NEW m PROVE m \in AllNums(s, Append(q, e)) <=> m \in AllNums(s, q)
  BY AppendOrder
<1>3. /\ AllRising(s, q) /\ Rising(s, e.words) /\ Before(AllNums(s, q), Nums(s, e.words))
           => AllRising(s, Append(q, e))
  BY AppendOrder
<1> QED BY <1>1, <1>2, <1>3

\* a sentence and its first word
LEMMA WordOrder ==
  ASSUME NEW s, NEW S, NEW q \in Seq(S), q # <<>>, Rising(s, q)
  PROVE  /\ Nums(s, q) \subseteq Nums(s, <<Head(q)>>) \cup Nums(s, Tail(q))
         /\ Nums(s, <<Head(q)>>) \subseteq Nums(s, q) /\ Nums(s, Tail(q)) \subseteq Nums(s, q)
         /\ Rising(s, Tail(q)) /\ Before(Nums(s, <<Head(q)>>), Nums(s, Tail(q)))
<1> DEFINE t == Tail(q)
           h == <<Head(q)>>
<1>1. /\ Len(q) \in Nat /\ Len(q) >= 1 /\ DOMAIN q = 1..Len(q) /\ Head(q) = q[1]
      /\ t \in Seq(S) /\ Len(t) = Len(q) - 1 /\ \A i \in 1..Len(t) : t[i] = q[i + 1]
  BY LenProperties, HeadTailProperties, EmptySeq
<1>2. DOMAIN t = 1..(Len(q) - 1)
  BY <1>1, LenProperties
<1>3. \A i \in DOMAIN t : i + 1 \in DOMAIN q /\ q[i + 1] = t[i] /\ 1 < i + 1
  BY <1>1, <1>2
<1>4. 1 \in DOMAIN q /\ \A i \in DOMAIN q : i = 1 \/ (i - 1 \in DOMAIN t /\ q[i] = t[i - 1])
  BY <1>1, <1>2
<1>5. DOMAIN h = {1} /\ h[1] = q[1]
  BY <1>1
<1> HIDE DEF t, h
<1>6. ASSUME NEW m PROVE m \in Nums(s, q) <=> m \in Nums(s, h) \cup Nums(s, t)
  <2>1. m \in Nums(s, h) => m \in Nums(s, q)
    BY <1>4, <1>5, NumsOf
  <2>2. m \in Nums(s, t) => m \in Nums(s, q)
    BY <1>3, NumsOf
  <2>3. m \in Nums(s, q) => m \in Nums(s, h) \/ m \in Nums(s, t)
    BY <1>4, <1>5, NumsOf
  <2> QED BY <2>1, <2>2, <2>3
<1>7. Rising(s, t)
  <2>1. \A i, j \in DOMAIN t : i < j => i + 1 < j + 1
    BY <1>1, <1>2
  <2> QED BY <1>3, <2>1 DEF Rising
<1>8. Before(Nums(s, h), Nums(s, t))
  <2> SUFFICES ASSUME NEW m \in Nums(s, h), NEW n \in Nums(s, t) PROVE m < n
    BY DEF Before
  <2>1. PICK k \in DOMAIN t : t[k].src = s /\ t[k].n = n
    BY NumsOf
  <2>2. q[1].src = s /\ q[1].n = m
    BY <1>5, NumsOf
  <2> QED BY <1>3, <1>4, <2>1, <2>2 DEF Rising
<1> QED BY <1>6, <1>7, <1>8 DEF t, h

-----------------------------------------------------------------------------
(* Types. *)

\* a sequence over a set is one over a larger set
LEMMA SeqGrows ==
  ASSUME NEW S, NEW T, S \subseteq T, NEW q \in Seq(S)
  PROVE  q \in Seq(T)
<1>1. Len(q) \in Nat /\ q \in [1..Len(q) -> S]
  BY LenProperties
<1>2. q \in [1..Len(q) -> T]
  BY <1>1
<1> QED BY <1>1, <1>2, IsASeq

\* whoever speaks, the sequences hold words, events and chunks
LEMMA SeqTypes ==
  ASSUME SourceInv
  PROVE  /\ heard \in Seq(Words) /\ voice \in Seq(Words) /\ pending \in Seq(Words)
         /\ out \in Seq(TextEvents) /\ audio \in Seq(Chunks) /\ events \in Seq(StreamEvents)
         /\ \A s \in Sources : text[s] \in Seq(TextEvents)
         /\ text \in [Sources -> Seq(TextEvents)]
<1>1. \A s : WordsOf(s) \subseteq Words
  BY DEF WordsOf
<1>2. \A s : Seq(WordsOf(s)) \subseteq Seq(Words)
  BY <1>1, SeqGrows
<1>3. \A s : TextsOf(s) \subseteq TextEvents
  BY <1>2 DEF TextsOf, TextEvents
<1>4. \A s : ChunksOf(s) \subseteq Chunks
  BY <1>2 DEF ChunksOf, Chunks
<1>5. \A s : EventsOf(s) \subseteq StreamEvents
  BY <1>2 DEF EventsOf, StreamEvents
<1>6. Downstream(Speaker)
  BY DEF SourceInv
<1>7. /\ heard \in Seq(Words) /\ voice \in Seq(Words) /\ pending \in Seq(Words)
  BY <1>1, <1>6, SeqGrows DEF Downstream
<1>8. out \in Seq(TextEvents) /\ audio \in Seq(Chunks) /\ events \in Seq(StreamEvents)
  BY <1>3, <1>4, <1>5, <1>6, SeqGrows DEF Downstream
<1>9. \A s \in Sources : text[s] \in Seq(TextEvents)
  BY <1>3, SeqGrows DEF SourceInv
<1>10. text \in [Sources -> Seq(TextEvents)]
  BY <1>9 DEF SourceInv
<1> QED BY <1>7, <1>8, <1>9, <1>10

-----------------------------------------------------------------------------
(* Order. *)

\* words of s move on by one place, and some may be lost
LEMMA Shift ==
  ASSUME NEW s \in Sources, OrderOf(s), NEW k \in 1..7, NEW f \in 1..7, f = k + 1, NEW M,
         M \subseteq Places(s)[f], Before(M, Places(s)'[f]),
         Places(s)'[k] \subseteq Places(s)[k] \cup M,
         \A l \in 1..7 : l # k => Places(s)'[l] \subseteq Places(s)[l],
         said'[s] = said[s]
  PROVE  InLine(Places(s))' /\ \A l \in 1..7 : Places(s)'[l] \subseteq Said(s)'
<1>1. InLine(Places(s)) /\ \A l \in 1..7 : Places(s)[l] \subseteq Said(s)
  BY DEF OrderOf
<1>2. InLine(Places(s)')
  BY <1>1, MoveOn
<1>3. \A l \in 1..7 : Places(s)'[l] \subseteq Said(s)
  BY <1>1
<1>4. Said(s)' = Said(s)
  BY DEF Said
<1> QED BY <1>2, <1>3, <1>4 DEF InLine

\* words of s are lost at most
LEMMA Loss ==
  ASSUME NEW s \in Sources, OrderOf(s),
         \A l \in 1..7 : Places(s)'[l] \subseteq Places(s)[l], said'[s] = said[s]
  PROVE  InLine(Places(s))' /\ \A l \in 1..7 : Places(s)'[l] \subseteq Said(s)'
<1>1. InLine(Places(s)) /\ \A l \in 1..7 : Places(s)[l] \subseteq Said(s)
  BY DEF OrderOf
<1>2. \A k, l \in 1..7 : k < l => Before(Places(s)'[k], Places(s)'[l])
  BY <1>1 DEF InLine, Before
<1>3. Said(s)' = Said(s)
  BY DEF Said
<1> QED BY <1>1, <1>2, <1>3 DEF InLine

\* the places by name
LEMMA PlacesAre ==
  ASSUME NEW s
  PROVE  /\ Places(s)[1] = Nums(s, heard) /\ Places(s)[2] = AllNums(s, events)
         /\ Places(s)[3] = AllNums(s, audio) /\ Places(s)[4] = Nums(s, voice)
         /\ Places(s)[5] = Nums(s, pending) /\ Places(s)[6] = AllNums(s, out)
         /\ Places(s)[7] = AllNums(s, text[s])
         /\ Places(s)'[1] = Nums(s, heard') /\ Places(s)'[2] = AllNums(s, events')
         /\ Places(s)'[3] = AllNums(s, audio') /\ Places(s)'[4] = Nums(s, voice')
         /\ Places(s)'[5] = Nums(s, pending') /\ Places(s)'[6] = AllNums(s, out')
         /\ Places(s)'[7] = AllNums(s, text'[s])
BY DEF Places

\* an event or a chunk passes from one queue to the next
LEMMA PassOrder ==
  ASSUME NEW s, NEW S, NEW T, NEW a \in Seq(S), a # <<>>, NEW b \in Seq(T), NEW e \in T,
         e.words = Head(a).words, AllRising(s, a), AllRising(s, b),
         Before(AllNums(s, b), AllNums(s, a))
  PROVE  /\ AllRising(s, Tail(a)) /\ AllRising(s, Append(b, e))
         /\ Nums(s, e.words) \subseteq AllNums(s, a)
         /\ AllNums(s, Tail(a)) \subseteq AllNums(s, a)
         /\ Before(Nums(s, e.words), AllNums(s, Tail(a)))
         /\ AllNums(s, Append(b, e)) \subseteq AllNums(s, b) \cup Nums(s, e.words)
<1>1. /\ Nums(s, e.words) \subseteq AllNums(s, a) /\ AllNums(s, Tail(a)) \subseteq AllNums(s, a)
      /\ AllRising(s, Tail(a)) /\ Rising(s, e.words)
      /\ Before(Nums(s, e.words), AllNums(s, Tail(a)))
  BY HeadOrder
<1>2. Before(AllNums(s, b), Nums(s, e.words))
  BY <1>1 DEF Before
<1>3. /\ AllRising(s, Append(b, e))
      /\ AllNums(s, Append(b, e)) \subseteq AllNums(s, b) \cup Nums(s, e.words)
  BY <1>1, <1>2, AppendOrder
<1> QED BY <1>1, <1>3

\* the parts of the order
LEMMA OrderParts ==
  ASSUME NEW s, OrderOf(s)
  PROVE  /\ Rising(s, heard) /\ AllRising(s, events) /\ AllRising(s, audio) /\ Rising(s, voice)
         /\ Rising(s, pending) /\ AllRising(s, out) /\ AllRising(s, text[s])
         /\ Before(Nums(s, heard), AllNums(s, events)) /\ Before(AllNums(s, events), AllNums(s, audio))
         /\ Before(AllNums(s, audio), Nums(s, voice)) /\ Before(Nums(s, voice), Nums(s, pending))
         /\ Before(Nums(s, pending), AllNums(s, out)) /\ Before(AllNums(s, out), AllNums(s, text[s]))
BY PlacesAre DEF OrderOf, InLine

\* a chunk is passed on as an event, or lost
LEMMA EmitsInOrder ==
  ASSUME SourceInv, NEW s \in Sources, OrderOf(s), RunnerEmits
  PROVE  OrderOf(s)'
<1> DEFINE e == AudioEvent(Head(audio).words)
           M == Nums(s, e.words)
<1>1. /\ audio \in Seq(Chunks) /\ audio # <<>> /\ events \in Seq(StreamEvents)
      /\ e \in StreamEvents /\ e.words = Head(audio).words
  <2>1. audio # <<>>
    BY DEF RunnerEmits, SourceInv, EmitHasChunk
  <2>2. Head(audio) \in Chunks
    BY <2>1, SeqTypes, HeadTailProperties
  <2> QED BY <2>1, <2>2, SeqTypes DEF AudioEvent, StreamEvents, Chunks, Statuses
<1>2. /\ audio' = Tail(audio) /\ (events' = events \/ events' = Append(events, e))
      /\ UNCHANGED <<heard, voice, pending, out, text, said>>
  BY DEF RunnerEmits, turn, remote, relaying, hearing
<1> HIDE DEF e
<1>3. /\ AllRising(s, Tail(audio)) /\ AllRising(s, Append(events, e))
      /\ M \subseteq AllNums(s, audio) /\ AllNums(s, Tail(audio)) \subseteq AllNums(s, audio)
      /\ Before(M, AllNums(s, Tail(audio)))
      /\ AllNums(s, Append(events, e)) \subseteq AllNums(s, events) \cup M
  BY <1>1, OrderParts, PassOrder
<1>4. /\ AllRising(s, events') /\ AllNums(s, events') \subseteq AllNums(s, events) \cup M
  BY <1>2, <1>3, OrderParts
<1> HIDE DEF M
<1>5. InLine(Places(s))' /\ \A l \in 1..7 : Places(s)'[l] \subseteq Said(s)'
  <2>0. 2 \in 1..7 /\ 3 \in 1..7 /\ 3 = 2 + 1
    OBVIOUS
  <2>1. /\ M \subseteq Places(s)[3] /\ Before(M, Places(s)'[3])
        /\ Places(s)'[2] \subseteq Places(s)[2] \cup M
        /\ \A l \in 1..7 : l # 2 => Places(s)'[l] \subseteq Places(s)[l]
    BY <1>2, <1>3, <1>4, PlacesAre
  <2> QED BY <1>2, <2>0, <2>1, Shift
<1> QED BY <1>2, <1>3, <1>4, <1>5, OrderParts DEF OrderOf

\* the relay passes an event on, holds it back or loses it
LEMMA TakesInOrder ==
  ASSUME SourceInv, NEW s \in Sources, OrderOf(s), NEW r \in Sources, text[r] # <<>>, TakeText(r),
         PassOn(Head(text[r])) \/ UNCHANGED out,
         UNCHANGED <<heard, events, audio, voice, pending, said>>
  PROVE  OrderOf(s)'
<1> DEFINE e == Head(text[r])
           M == IF r = s THEN Nums(s, e.words) ELSE {}
<1>1. /\ text[r] \in Seq(TextEvents) /\ out \in Seq(TextEvents) /\ e \in TextEvents
      /\ text \in [Sources -> Seq(TextEvents)]
  BY SeqTypes, HeadTailProperties
<1>2. /\ text' = [text EXCEPT ![r] = Tail(@)]
      /\ out' = out \/ out' = Append(out, e)
  BY DEF TakeText, PassOn
<1>3. text'[s] = IF r = s THEN Tail(text[s]) ELSE text[s]
  BY <1>1, <1>2
<1>4. /\ AllRising(s, text'[s]) /\ AllNums(s, text'[s]) \subseteq AllNums(s, text[s])
      /\ M \subseteq AllNums(s, text[s]) /\ Before(M, AllNums(s, text'[s]))
      /\ AllRising(s, out') /\ AllNums(s, out') \subseteq AllNums(s, out) \cup M
  <2>1. CASE r = s
    <3>0. /\ text[s] # <<>> /\ text[s] \in Seq(TextEvents) /\ e.words = Head(text[s]).words
      BY <1>1, <2>1
    <3> HIDE DEF e, M
    <3>2. /\ AllRising(s, text[s]) /\ AllRising(s, out)
          /\ Before(AllNums(s, out), AllNums(s, text[s]))
      BY OrderParts
    <3>1. /\ AllRising(s, Tail(text[s])) /\ AllRising(s, Append(out, e))
          /\ Nums(s, e.words) \subseteq AllNums(s, text[s])
          /\ AllNums(s, Tail(text[s])) \subseteq AllNums(s, text[s])
          /\ Before(Nums(s, e.words), AllNums(s, Tail(text[s])))
          /\ AllNums(s, Append(out, e)) \subseteq AllNums(s, out) \cup Nums(s, e.words)
      BY <1>1, <3>0, <3>2, PassOrder
    <3>3. M = Nums(s, e.words)
      BY <2>1 DEF M
    <3> QED BY <1>2, <1>3, <2>1, <3>1, <3>3, OrderParts
  <2>2. CASE r # s
    <3>1. M = {} /\ text'[s] = text[s]
      BY <1>3, <2>2
    <3>2. Nums(s, e.words) = {} /\ Rising(s, e.words)
      <4>1. e \in TextsOf(r)
        BY TakeKeeps
      <4>2. e.words \in Seq(WordsOf(r))
        BY <4>1 DEF TextsOf
      <4>3. \A i \in DOMAIN e.words : e.words[i].src # s
        BY <2>2, <4>2, ElementOfSeq, LenProperties DEF WordsOf
      <4> HIDE DEF e
      <4> QED BY <4>3 DEF Nums, Rising
    <3> HIDE DEF e, M
    <3>3. /\ AllNums(s, Append(out, e)) \subseteq AllNums(s, out)
          /\ AllRising(s, Append(out, e))
      BY <1>1, <3>2, SilentOrder, OrderParts
    <3>4. Before({}, AllNums(s, text'[s]))
      BY DEF Before
    <3> QED BY <1>2, <3>1, <3>3, <3>4, OrderParts
  <2> QED BY <2>1, <2>2
<1> HIDE DEF M
<1>5. InLine(Places(s))' /\ \A l \in 1..7 : Places(s)'[l] \subseteq Said(s)'
  <2>0. 6 \in 1..7 /\ 7 \in 1..7 /\ 7 = 6 + 1
    OBVIOUS
  <2>1. /\ M \subseteq Places(s)[7] /\ Before(M, Places(s)'[7])
        /\ Places(s)'[6] \subseteq Places(s)[6] \cup M
        /\ \A l \in 1..7 : l # 6 => Places(s)'[l] \subseteq Places(s)[l]
    BY <1>4, PlacesAre
  <2> QED BY <2>0, <2>1, Shift
<1> QED BY <1>4, <1>5, OrderParts DEF OrderOf

\* the runner takes the words of an event, or drops them
LEMMA ReadsInOrder ==
  ASSUME SourceInv, NEW s \in Sources, OrderOf(s), RunnerReads
  PROVE  OrderOf(s)'
<1> DEFINE w == Head(out).words
<1>1. /\ out \in Seq(TextEvents) /\ out # <<>> /\ pending \in Seq(Words) /\ w \in Seq(Words)
  <2>1. out \in Seq(TextEvents) /\ out # <<>> /\ pending \in Seq(Words)
    BY SeqTypes DEF RunnerReads
  <2>2. Head(out) \in TextEvents
    BY <2>1, HeadTailProperties
  <2> QED BY <2>1, <2>2 DEF TextEvents
<1>2. /\ out' = Tail(out) /\ (pending' = pending \/ pending' = pending \o w)
      /\ UNCHANGED <<heard, events, audio, voice, text, said>>
  BY DEF RunnerReads, turn, remote, speaking, hearing
<1>3. /\ AllRising(s, out) /\ Rising(s, pending) /\ Before(Nums(s, pending), AllNums(s, out))
  BY OrderParts
<1>4. /\ Nums(s, w) \subseteq AllNums(s, out) /\ AllNums(s, Tail(out)) \subseteq AllNums(s, out)
      /\ AllRising(s, Tail(out)) /\ Rising(s, w) /\ Before(Nums(s, w), AllNums(s, Tail(out)))
  BY <1>1, <1>3, HeadOrder
<1> HIDE DEF w
<1>5. Before(Nums(s, pending), Nums(s, w))
  BY <1>3, <1>4 DEF Before
<1>6. Rising(s, pending \o w) /\ Nums(s, pending \o w) \subseteq Nums(s, pending) \cup Nums(s, w)
  BY <1>1, <1>3, <1>4, <1>5, ConcatOrder
<1>7. Rising(s, pending') /\ Nums(s, pending') \subseteq Nums(s, pending) \cup Nums(s, w)
  BY <1>2, <1>3, <1>6
<1>8. InLine(Places(s))' /\ \A l \in 1..7 : Places(s)'[l] \subseteq Said(s)'
  <2>0. 5 \in 1..7 /\ 6 \in 1..7 /\ 6 = 5 + 1
    OBVIOUS
  <2>1. /\ Nums(s, w) \subseteq Places(s)[6] /\ Before(Nums(s, w), Places(s)'[6])
        /\ Places(s)'[5] \subseteq Places(s)[5] \cup Nums(s, w)
        /\ \A l \in 1..7 : l # 5 => Places(s)'[l] \subseteq Places(s)[l]
    BY <1>2, <1>4, <1>7, PlacesAre
  <2> QED BY <1>2, <2>0, <2>1, Shift
<1> QED BY <1>2, <1>4, <1>7, <1>8, OrderParts DEF OrderOf

\* the segmenter's next end lies in its text
LEMMA EndInside ==
  ASSUME NEW S, pending \in Seq(S), NEW i \in NextEnd
  PROVE  i \in 1..Len(pending)
BY LenProperties DEF NextEnd, Ends

\* the TTS is given the next sentence, or the run fails
LEMMA SpeaksInOrder ==
  ASSUME SourceInv, NEW s \in Sources, OrderOf(s), RunnerSynthesizes
  PROVE  OrderOf(s)'
<1>1. PICK i \in NextEnd :
        /\ pending' = Rest(i)
        /\ \/ voice' = SubSeq(pending, 1, i) /\ audio' = <<>>
           \/ voice' = voice /\ audio' = audio
  BY DEF RunnerSynthesizes
<1>2. UNCHANGED <<heard, events, out, text, said>>
  BY DEF RunnerSynthesizes, turn, remote, relaying, hearing
<1> DEFINE v == SubSeq(pending, 1, i)
<1>3. pending \in Seq(Words) /\ i \in 1..Len(pending) /\ Rising(s, pending)
  BY SeqTypes, EndInside, OrderParts
<1>4. /\ Nums(s, v) \subseteq Nums(s, pending) /\ Nums(s, Rest(i)) \subseteq Nums(s, pending)
      /\ Rising(s, v) /\ Rising(s, Rest(i)) /\ Before(Nums(s, v), Nums(s, Rest(i)))
  BY <1>3, CutOrder DEF Rest
<1>5. (voice' = v /\ audio' = <<>>) \/ (voice' = voice /\ audio' = audio)
  BY <1>1
<1> HIDE DEF v
<1>6. /\ Rising(s, voice') /\ Nums(s, voice') \subseteq Nums(s, voice) \cup Nums(s, v)
      /\ AllRising(s, audio') /\ AllNums(s, audio') \subseteq AllNums(s, audio)
  BY <1>4, <1>5, OrderParts, EmptyOrder
<1>7. InLine(Places(s))' /\ \A l \in 1..7 : Places(s)'[l] \subseteq Said(s)'
  <2>0. 4 \in 1..7 /\ 5 \in 1..7 /\ 5 = 4 + 1
    OBVIOUS
  <2>1. /\ Nums(s, v) \subseteq Places(s)[5] /\ Before(Nums(s, v), Places(s)'[5])
        /\ Places(s)'[4] \subseteq Places(s)[4] \cup Nums(s, v)
        /\ \A l \in 1..7 : l # 4 => Places(s)'[l] \subseteq Places(s)[l]
    BY <1>1, <1>2, <1>4, <1>6, PlacesAre
  <2> QED BY <1>2, <2>0, <2>1, Shift
<1> QED BY <1>1, <1>2, <1>4, <1>6, <1>7, OrderParts DEF OrderOf

\* the TTS turns the next word into audio
LEMMA VoiceInOrder ==
  ASSUME SourceInv, NEW s \in Sources, OrderOf(s), VoiceSpeaks
  PROVE  OrderOf(s)'
<1> DEFINE e == Chunk(<<Head(voice)>>)
           M == Nums(s, <<Head(voice)>>)
<1>1. /\ voice \in Seq(Words) /\ voice # <<>> /\ audio \in Seq(Chunks) /\ e \in Chunks
      /\ e.words = <<Head(voice)>>
  <2>1. voice \in Seq(Words) /\ voice # <<>> /\ audio \in Seq(Chunks)
    BY SeqTypes DEF VoiceSpeaks
  <2>2. Head(voice) \in Words
    BY <2>1, HeadTailProperties
  <2> QED BY <2>1, <2>2 DEF Chunk, Chunks
<1>2. /\ voice' = Tail(voice) /\ audio' = Append(audio, e)
      /\ UNCHANGED <<heard, events, pending, out, text, said>>
  BY DEF VoiceSpeaks, turn, remote, relaying, running, hearing
<1>3. Rising(s, voice) /\ AllRising(s, audio) /\ Before(AllNums(s, audio), Nums(s, voice))
  BY OrderParts
<1>4. /\ M \subseteq Nums(s, voice) /\ Nums(s, Tail(voice)) \subseteq Nums(s, voice)
      /\ Rising(s, Tail(voice)) /\ Before(M, Nums(s, Tail(voice)))
  BY <1>1, <1>3, WordOrder
<1>5. Rising(s, e.words) /\ Before(AllNums(s, audio), Nums(s, e.words))
  <2>1. Rising(s, <<Head(voice)>>)
    BY OneWord
  <2>2. Before(AllNums(s, audio), M)
    BY <1>3, <1>4 DEF Before
  <2> QED BY <1>1, <2>1, <2>2
<1> HIDE DEF e
<1>6. AllRising(s, audio') /\ AllNums(s, audio') \subseteq AllNums(s, audio) \cup Nums(s, e.words)
  BY <1>1, <1>2, <1>3, <1>5, AppendOrder
<1>7. InLine(Places(s))' /\ \A l \in 1..7 : Places(s)'[l] \subseteq Said(s)'
  <2>0. 3 \in 1..7 /\ 4 \in 1..7 /\ 4 = 3 + 1
    OBVIOUS
  <2>1. AllNums(s, audio') \subseteq AllNums(s, audio) \cup M
    BY <1>1, <1>6
  <2> HIDE DEF M
  <2>2. /\ M \subseteq Places(s)[4] /\ Before(M, Places(s)'[4])
        /\ Places(s)'[3] \subseteq Places(s)[3] \cup M
        /\ \A l \in 1..7 : l # 3 => Places(s)'[l] \subseteq Places(s)[l]
    BY <1>2, <1>4, <2>1, PlacesAre
  <2> QED BY <1>2, <2>0, <2>2, Shift
<1> QED BY <1>2, <1>4, <1>6, <1>7, OrderParts DEF OrderOf

\* the device hears the next event's words, or they are lost
LEMMA HearsInOrder ==
  ASSUME SourceInv, NEW s \in Sources, OrderOf(s), events # <<>>, events' = Tail(events),
         heard' = heard \/ heard' = heard \o Head(events).words,
         UNCHANGED <<audio, voice, pending, out, text, said>>
  PROVE  OrderOf(s)'
<1> DEFINE w == Head(events).words
<1>1. events \in Seq(StreamEvents) /\ heard \in Seq(Words) /\ w \in Seq(Words)
  <2>1. events \in Seq(StreamEvents) /\ heard \in Seq(Words)
    BY SeqTypes
  <2>2. Head(events) \in StreamEvents
    BY <2>1, HeadTailProperties
  <2> QED BY <2>1, <2>2 DEF StreamEvents
<1>3. AllRising(s, events) /\ Rising(s, heard) /\ Before(Nums(s, heard), AllNums(s, events))
  BY OrderParts
<1>4. /\ Nums(s, w) \subseteq AllNums(s, events) /\ AllNums(s, Tail(events)) \subseteq AllNums(s, events)
      /\ AllRising(s, Tail(events)) /\ Rising(s, w) /\ Before(Nums(s, w), AllNums(s, Tail(events)))
  BY <1>1, <1>3, HeadOrder
<1>2. heard' = heard \/ heard' = heard \o w
  OBVIOUS
<1> HIDE DEF w
<1>5. Before(Nums(s, heard), Nums(s, w))
  BY <1>3, <1>4 DEF Before
<1>6. Rising(s, heard \o w) /\ Nums(s, heard \o w) \subseteq Nums(s, heard) \cup Nums(s, w)
  BY <1>1, <1>3, <1>4, <1>5, ConcatOrder
<1>7. Rising(s, heard') /\ Nums(s, heard') \subseteq Nums(s, heard) \cup Nums(s, w)
  BY <1>2, <1>3, <1>6
<1>8. InLine(Places(s))' /\ \A l \in 1..7 : Places(s)'[l] \subseteq Said(s)'
  <2>0. 1 \in 1..7 /\ 2 \in 1..7 /\ 2 = 1 + 1
    OBVIOUS
  <2>1. /\ Nums(s, w) \subseteq Places(s)[2] /\ Before(Nums(s, w), Places(s)'[2])
        /\ Places(s)'[1] \subseteq Places(s)[1] \cup Nums(s, w)
        /\ \A l \in 1..7 : l # 1 => Places(s)'[l] \subseteq Places(s)[l]
    BY <1>4, <1>7, PlacesAre
  <2> QED BY <2>0, <2>1, Shift
<1> QED BY <1>4, <1>7, <1>8, OrderParts DEF OrderOf

\* nothing but a silent event is added, and words are lost at most
LEMMA SilentInOrder ==
  ASSUME NEW s \in Sources, OrderOf(s),
         AllRising(s, events') /\ AllNums(s, events') \subseteq AllNums(s, events),
         AllRising(s, audio') /\ AllNums(s, audio') \subseteq AllNums(s, audio),
         AllRising(s, out') /\ AllNums(s, out') \subseteq AllNums(s, out),
         AllRising(s, text'[s]) /\ AllNums(s, text'[s]) \subseteq AllNums(s, text[s]),
         UNCHANGED <<heard, voice, pending>>, said'[s] = said[s]
  PROVE  OrderOf(s)'
<1>1. \A l \in 1..7 : Places(s)'[l] \subseteq Places(s)[l]
  BY PlacesAre
<1>2. InLine(Places(s))' /\ \A l \in 1..7 : Places(s)'[l] \subseteq Said(s)'
  BY <1>1, Loss
<1> QED BY <1>2, OrderParts DEF OrderOf


\* what a provider may say in one line: the next words, in order
LEMMA NextWords ==
  ASSUME NEW r, said[r] \in Nat, NEW w \in Texts(r)
  PROVE  /\ \A m \in Nums(r, w) : m \in Nat /\ m > said[r] /\ m <= said[r] + Len(w)
         /\ Rising(r, w) /\ Len(w) \in Nat
         /\ \A s : s # r => Nums(s, w) = {} /\ Rising(s, w)
         /\ \A m \in (said[r] + 1)..(said[r] + Len(w)) : m \in Nums(r, w)
<1>1. CASE w = <<>>
  BY <1>1, EmptyOrder
<1>2. ASSUME NEW e \in BOOLEAN, w = <<[src |-> r, n |-> said[r] + 1, ends |-> e]>>
      PROVE  /\ DOMAIN w = {1} /\ w[1].src = r /\ w[1].n = said[r] + 1 /\ Len(w) = 1
  BY <1>2
<1>3. ASSUME NEW e \in BOOLEAN \X BOOLEAN,
             w = <<[src |-> r, n |-> said[r] + 1, ends |-> e[1]],
                   [src |-> r, n |-> said[r] + 2, ends |-> e[2]]>>
      PROVE  /\ DOMAIN w = {1, 2} /\ w[1].src = r /\ w[1].n = said[r] + 1
             /\ w[2].src = r /\ w[2].n = said[r] + 2 /\ Len(w) = 2
  BY <1>3
<1>4. CASE DOMAIN w = {1} /\ w[1].src = r /\ w[1].n = said[r] + 1 /\ Len(w) = 1
  BY <1>4 DEF Nums, Rising
<1>5. CASE /\ DOMAIN w = {1, 2} /\ w[1].src = r /\ w[1].n = said[r] + 1
           /\ w[2].src = r /\ w[2].n = said[r] + 2 /\ Len(w) = 2
  BY <1>5 DEF Nums, Rising
<1>6. w = <<>> \/ (DOMAIN w = {1} /\ w[1].src = r /\ w[1].n = said[r] + 1 /\ Len(w) = 1)
       \/ (/\ DOMAIN w = {1, 2} /\ w[1].src = r /\ w[1].n = said[r] + 1
           /\ w[2].src = r /\ w[2].n = said[r] + 2 /\ Len(w) = 2)
  <2>1. \/ w = <<>>
        \/ \E e \in BOOLEAN : w = <<[src |-> r, n |-> said[r] + 1, ends |-> e]>>
        \/ \E e \in BOOLEAN \X BOOLEAN :
             w = <<[src |-> r, n |-> said[r] + 1, ends |-> e[1]],
                   [src |-> r, n |-> said[r] + 2, ends |-> e[2]]>>
    BY DEF Texts
  <2> QED BY <1>2, <1>3, <2>1
<1> QED BY <1>1, <1>4, <1>5, <1>6

\* a provider goes on in its order
LEMMA SaysInOrder ==
  ASSUME SourceInv, NEW s \in Sources, OrderOf(s), NEW r \in Sources, ProviderStep(r)
  PROVE  OrderOf(s)'
<1>1. /\ UNCHANGED <<heard, events, audio, voice, pending, out>>
      /\ text \in [Sources -> Seq(TextEvents)] /\ text[s] \in Seq(TextEvents)
      /\ said \in [Sources -> Nat] /\ text[r] \in Seq(TextEvents)
  BY SeqTypes DEF SourceInv, ProviderStep, SayContent, SayReasoning, SayDone, SayError, Close,
     relaying, running, speaking, hearing
<1>2. CASE text'[s] = text[s] /\ said'[s] = said[s]
  BY <1>1, <1>2, OrderParts, SilentInOrder
<1>3. ASSUME NEW k \in {"reasoning", "done", "err"}, Says(r, TextEvent(k, <<>>)), UNCHANGED said
      PROVE  OrderOf(s)'
  <2>1. text' = [text EXCEPT ![r] = Append(@, TextEvent(k, <<>>))]
    BY <1>3 DEF Says
  <2>2. CASE r # s
    BY <1>1, <1>2, <1>3, <2>1, <2>2
  <2>3. CASE r = s
    <3>1. text'[s] = Append(text[s], TextEvent(k, <<>>))
      BY <1>1, <2>1, <2>3
    <3>2. /\ TextEvent(k, <<>>) \in TextEvents /\ Nums(s, TextEvent(k, <<>>).words) = {}
          /\ Rising(s, TextEvent(k, <<>>).words)
      BY EmptySeq, EmptyOrder DEF TextEvent, TextEvents
    <3>3. AllRising(s, text'[s]) /\ AllNums(s, text'[s]) \subseteq AllNums(s, text[s])
      BY <1>1, <3>1, <3>2, OrderParts, SilentOrder
    <3> QED BY <1>1, <1>3, <3>3, OrderParts, SilentInOrder
  <2> QED BY <2>2, <2>3
<1>4. CASE SayContent(r)
  <2>1. PICK w \in Texts(r) : /\ text' = [text EXCEPT ![r] = Append(@, TextEvent("content", w))]
                              /\ said' = [said EXCEPT ![r] = @ + Len(w)]
                              /\ said[r] + Len(w) <= MaxText
    BY <1>4 DEF SayContent, Says
  <2>2. CASE r # s
    BY <1>1, <1>2, <2>1, <2>2
  <2>3. CASE r = s
    <3> DEFINE e == TextEvent("content", w)
    <3>1. text'[s] = Append(text[s], e) /\ said'[s] = said[s] + Len(w) /\ said[s] \in Nat
      BY <1>1, <2>1, <2>3
    <3>2. e \in TextEvents /\ e.words = w
      <4>1. w \in Seq(WordsOf(r))
        BY <1>1, <2>1, SaidWords
      <4>2. w \in Seq(Words)
        BY <4>1, SeqGrows DEF WordsOf
      <4> QED BY <4>2 DEF TextEvent, TextEvents
    <3> HIDE DEF e
    <3>3. /\ \A m \in Nums(s, w) : m \in Nat /\ m > said[s] /\ m <= said[s] + Len(w)
          /\ Rising(s, w) /\ Len(w) \in Nat
      BY <2>3, <3>1, NextWords
    <3>4. \A l \in 1..7 : Before(Places(s)[l], Nums(s, w))
      <4>1. \A l \in 1..7 : Places(s)[l] \subseteq 1..said[s]
        BY DEF OrderOf, Said
      <4> QED BY <3>1, <3>3, <4>1 DEF Before
    <3>5. /\ AllRising(s, text'[s])
          /\ AllNums(s, text'[s]) \subseteq AllNums(s, text[s]) \cup Nums(s, w)
      <4>1. AllRising(s, text[s]) /\ Before(AllNums(s, text[s]), Nums(s, w))
        BY <3>4, OrderParts, PlacesAre
      <4>2. Rising(s, e.words) /\ Before(AllNums(s, text[s]), Nums(s, e.words))
        BY <3>2, <3>3, <4>1
      <4>3. /\ AllRising(s, Append(text[s], e))
            /\ AllNums(s, Append(text[s], e)) \subseteq AllNums(s, text[s]) \cup Nums(s, e.words)
        BY <1>1, <3>2, <4>1, <4>2, AppendOrder
      <4> QED BY <3>1, <3>2, <4>3
    <3>6. /\ Places(s)'[7] \subseteq Places(s)[7] \cup Nums(s, w)
          /\ \A l \in 1..7 : l # 7 => Places(s)'[l] = Places(s)[l]
      BY <1>1, <3>5, PlacesAre
    <3>7. InLine(Places(s))'
      <4>1. InLine(Places(s))
        BY DEF OrderOf
      <4>2. \A k, l \in 1..7 : k < l => Before(Places(s)'[k], Places(s)'[l])
        <5> SUFFICES ASSUME NEW k \in 1..7, NEW l \in 1..7, k < l
                     PROVE  Before(Places(s)'[k], Places(s)'[l])
          OBVIOUS
        <5>1. k # 7 /\ Places(s)'[k] = Places(s)[k] /\ Before(Places(s)[k], Places(s)[l])
          BY <3>6, <4>1 DEF InLine
        <5>2. Places(s)'[l] \subseteq Places(s)[l] \cup Nums(s, w)
          BY <3>6
        <5>3. Before(Places(s)[k], Nums(s, w))
          BY <3>4
        <5> QED BY <5>1, <5>2, <5>3 DEF Before
      <4> QED BY <4>2 DEF InLine
    <3>8. \A l \in 1..7 : Places(s)'[l] \subseteq Said(s)'
      <4>1. \A l \in 1..7 : Places(s)[l] \subseteq 1..said[s]
        BY DEF OrderOf, Said
      <4>2. Nums(s, w) \subseteq 1..said'[s] /\ 1..said[s] \subseteq 1..said'[s]
        BY <3>1, <3>3
      <4>3. \A l \in 1..7 : Places(s)'[l] \subseteq 1..said'[s]
        BY <3>6, <4>1, <4>2
      <4> QED BY <4>3 DEF Said
    <3> QED BY <1>1, <3>5, <3>7, <3>8, OrderParts DEF OrderOf
  <2> QED BY <2>2, <2>3
<1>5. CASE Close(r)
  BY <1>2, <1>5 DEF Close
<1> QED BY <1>3, <1>4, <1>5 DEF ProviderStep, SayReasoning, SayDone, SayError

\* the relay takes over, passes on, stops
LEMMA RelayInOrder ==
  ASSUME SourceInv, NEW s \in Sources, OrderOf(s), RelayStep
  PROVE  OrderOf(s)'
<1>1. UNCHANGED <<heard, events, audio, voice, pending, said>>
  BY DEF RelayStep, RelayHandsOver, RelayPrimary, RelayNotice, RelayOpens, RelayFallback,
     RelayEnds, RelayCancelled, remote, running, speaking, hearing
<1>2. ASSUME NEW r \in Sources, text[r] # <<>>, TakeText(r),
             PassOn(Head(text[r])) \/ UNCHANGED out
      PROVE  OrderOf(s)'
  BY <1>1, <1>2, TakesInOrder
<1>3. ASSUME UNCHANGED text,
             UNCHANGED out \/ \E k \in {"notice", "err"} : PassOn(TextEvent(k, <<>>))
      PROVE  OrderOf(s)'
  <2>1. AllRising(s, out') /\ AllNums(s, out') \subseteq AllNums(s, out)
    <3>1. CASE UNCHANGED out
      BY <3>1, OrderParts
    <3>2. ASSUME NEW k \in {"notice", "err"}, PassOn(TextEvent(k, <<>>))
          PROVE  AllRising(s, out') /\ AllNums(s, out') \subseteq AllNums(s, out)
      <4>1. /\ TextEvent(k, <<>>) \in TextEvents /\ Nums(s, TextEvent(k, <<>>).words) = {}
            /\ Rising(s, TextEvent(k, <<>>).words)
        BY EmptySeq, EmptyOrder DEF TextEvent, TextEvents
      <4>2. out' = Append(out, TextEvent(k, <<>>)) /\ out \in Seq(TextEvents)
        BY <3>2, SeqTypes DEF PassOn
      <4> QED BY <4>1, <4>2, SilentOrder, OrderParts
    <3> QED BY <1>3, <3>1, <3>2
  <2> QED BY <1>1, <1>3, <2>1, OrderParts, SilentInOrder
<1>4. CASE RelayHandsOver \/ RelayPrimary \/ RelayFallback
  BY <1>2, <1>3, <1>4 DEF RelayHandsOver, RelayPrimary, RelayFallback, Sources
<1>5. CASE RelayNotice \/ RelayOpens \/ RelayEnds
  BY <1>3, <1>5 DEF RelayNotice, RelayOpens, RelayEnds, remote
<1>6. CASE RelayCancelled
  BY <1>2, <1>3, <1>6 DEF RelayCancelled, Sources
<1> QED BY <1>4, <1>5, <1>6 DEF RelayStep


\* the runner's steps
LEMMA RunnerInOrder ==
  ASSUME SourceInv, NEW s \in Sources, OrderOf(s), RunnerStep
  PROVE  OrderOf(s)'
<1>1. CASE RunnerReads
  BY <1>1, ReadsInOrder
<1>2. CASE RunnerSynthesizes
  BY <1>2, SpeaksInOrder
<1>3. CASE RunnerEmits
  BY <1>3, EmitsInOrder
<1>4. ASSUME UNCHANGED <<heard, events, audio, voice, pending, out, text, said>>
      PROVE  OrderOf(s)'
  BY <1>4, OrderParts, SilentInOrder
<1>5. CASE RunnerTakesChunk
  <2>1. /\ audio \in Seq(Chunks) /\ audio # <<>> /\ (audio' = audio \/ audio' = Tail(audio))
        /\ UNCHANGED <<heard, events, voice, pending, out, text, said>>
    BY <1>5, SeqTypes DEF RunnerTakesChunk, turn, remote, relaying, hearing
  <2>2. AllRising(s, audio') /\ AllNums(s, audio') \subseteq AllNums(s, audio)
    BY <2>1, OrderParts, HeadOrder
  <2> QED BY <2>1, <2>2, OrderParts, SilentInOrder
<1>6. CASE RunnerReports
  <2>1. /\ DoneEvent(status, err) \in StreamEvents /\ events \in Seq(StreamEvents)
        /\ Nums(s, DoneEvent(status, err).words) = {} /\ Rising(s, DoneEvent(status, err).words)
    BY SeqTypes, EmptySeq, EmptyOrder DEF DoneEvent, StreamEvents, SourceInv
  <2>2. /\ events' = events \/ events' = Append(events, DoneEvent(status, err))
        /\ UNCHANGED <<heard, audio, voice, pending, out, text, said>>
    BY <1>6 DEF RunnerReports, turn, remote, relaying, speaking, hearing
  <2>4. AllRising(s, events)
    BY OrderParts
  <2>5. /\ AllNums(s, Append(events, DoneEvent(status, err))) \subseteq AllNums(s, events)
        /\ AllRising(s, Append(events, DoneEvent(status, err)))
    BY <2>1, <2>4, SilentOrder
  <2>3. AllRising(s, events') /\ AllNums(s, events') \subseteq AllNums(s, events)
    BY <2>2, <2>4, <2>5
  <2> QED BY <2>2, <2>3, OrderParts, SilentInOrder
<1>7. CASE RunnerHears \/ RunnerReadsEnd \/ RunnerFlushes \/ RunnerNoSentence \/ RunnerSpoke
  BY <1>4, <1>7 DEF RunnerHears, RunnerReadsEnd, RunnerFlushes, RunnerNoSentence, RunnerSpoke,
     remote, relaying, speaking, hearing
<1>8. CASE RunnerOpens \/ RunnerEnds
  BY <1>4, <1>8 DEF RunnerOpens, RunnerEnds, remote, relaying, speaking, hearing
<1> QED BY <1>1, <1>2, <1>3, <1>5, <1>6, <1>7, <1>8 DEF RunnerStep

\* the TTS and the gateway
LEMMA HearingInOrder ==
  ASSUME SourceInv, NEW s \in Sources, OrderOf(s), VoiceStep \/ ConsumerStep
  PROVE  OrderOf(s)'
<1>1. CASE VoiceSpeaks
  BY <1>1, VoiceInOrder
<1>2. CASE VoiceEnds
  BY <1>2, OrderParts, SilentInOrder DEF VoiceEnds, remote, relaying, running, hearing
<1>3. CASE VoiceBreaks
  <2>1. /\ ChunkErr \in Chunks /\ audio \in Seq(Chunks)
        /\ Nums(s, ChunkErr.words) = {} /\ Rising(s, ChunkErr.words)
    BY SeqTypes, EmptySeq, EmptyOrder DEF ChunkErr, Chunks
  <2>2. /\ audio' = audio \/ audio' = Append(audio, ChunkErr)
        /\ UNCHANGED <<heard, events, voice, pending, out, text, said>>
    BY <1>3 DEF VoiceBreaks, remote, relaying, running, hearing
  <2>4. AllRising(s, audio)
    BY OrderParts
  <2>5. /\ AllNums(s, Append(audio, ChunkErr)) \subseteq AllNums(s, audio)
        /\ AllRising(s, Append(audio, ChunkErr))
    BY <2>1, <2>4, SilentOrder
  <2>3. AllRising(s, audio') /\ AllNums(s, audio') \subseteq AllNums(s, audio)
    BY <2>2, <2>4, <2>5
  <2> QED BY <2>2, <2>3, OrderParts, SilentInOrder
<1>4. CASE ConsumerHears \/ ConsumerAborts \/ ConsumerWriteFails
  <2>1. /\ events # <<>> /\ events' = Tail(events)
        /\ heard' = heard \/ heard' = heard \o Head(events).words
        /\ UNCHANGED <<audio, voice, pending, out, text, said>>
    BY <1>4 DEF ConsumerHears, ConsumerAborts, ConsumerWriteFails, remote, relaying, running, speaking
  <2> QED BY <2>1, HearsInOrder
<1>5. CASE ConsumerEnds
  BY <1>5, OrderParts, SilentInOrder DEF ConsumerEnds, remote, relaying, running, speaking
<1> QED BY <1>1, <1>2, <1>3, <1>4, <1>5 DEF VoiceStep, ConsumerStep

\* nothing has been said at first
LEMMA InitOrder == Init => OrderInv
<1> SUFFICES ASSUME Init, NEW s \in Sources PROVE OrderOf(s)
  BY DEF OrderInv
<1>1. /\ heard = <<>> /\ events = <<>> /\ audio = <<>> /\ voice = <<>> /\ pending = <<>>
      /\ out = <<>> /\ text[s] = <<>>
  BY DEF Init
<1>2. \A l \in 1..7 : Places(s)[l] = {}
  BY <1>1, EmptyOrder, PlacesAre
<1>3. InLine(Places(s)) /\ \A l \in 1..7 : Places(s)[l] \subseteq Said(s)
  BY <1>2 DEF InLine, Before
<1> QED BY <1>1, <1>3, EmptyOrder DEF OrderOf

\* every step keeps the words of each provider in line
LEMMA NextOrder == SourceInv /\ OrderInv /\ [Next]_vars => OrderInv'
<1> SUFFICES ASSUME SourceInv, OrderInv, [Next]_vars, NEW s \in Sources PROVE OrderOf(s)'
  BY DEF OrderInv
<1>0. OrderOf(s)
  BY DEF OrderInv
<1>1. CASE UNCHANGED <<heard, events, audio, voice, pending, out, text, said>>
  BY <1>0, <1>1, OrderParts, SilentInOrder
<1>2. CASE Cancel \/ Drop \/ Over \/ UNCHANGED vars
  BY <1>1, <1>2 DEF Cancel, Drop, Over, vars, remote, relaying, running, speaking, hearing
<1> QED
  BY <1>0, <1>2, SaysInOrder, RelayInOrder, RunnerInOrder, HearingInOrder DEF Next

\* what is heard is in the order in which its one speaker said it
LEMMA OrderIsHeard ==
  ASSUME SourceInv, OrderInv
  PROVE  SpokenInOrder
<1> SUFFICES ASSUME NEW i \in DOMAIN heard, NEW j \in DOMAIN heard, i < j
             PROVE  heard[i].n < heard[j].n
  BY DEF SpokenInOrder
<1>1. heard[i].src = heard[j].src
  BY SourceImpliesOne DEF OneProvider
<1>2. heard[i] \in Words
  BY SeqTypes, LenProperties, ElementOfSeq
<1>3. Rising(heard[i].src, heard)
  BY <1>2, OrderParts DEF OrderInv, Words
<1> QED BY <1>1, <1>3 DEF Rising

\* Words are heard in the order they were said, none twice, for every number of
\* words and every capacity: neither the relay's hand-over, the segmenter, the
\* TTS nor a cancel reorders or repeats what run passes on.
THEOREM WordsInOrder == Spec => []SpokenInOrder
<1>1. Spec => []SourceInv
  BY InitSource, NextSource, PTL DEF Spec
<1>2. Spec => []OrderInv
  BY <1>1, InitOrder, NextOrder, PTL DEF Spec
<1> QED BY <1>1, <1>2, OrderIsHeard, PTL

-----------------------------------------------------------------------------
(* Types and capacities. *)

\* the sequences hold words, events and chunks
Carried ==
  /\ heard \in Seq(Words) /\ voice \in Seq(Words) /\ pending \in Seq(Words)
  /\ out \in Seq(TextEvents) /\ audio \in Seq(Chunks) /\ events \in Seq(StreamEvents)
  /\ text \in [Sources -> Seq(TextEvents)]

\* the channels keep their capacities
Capacities ==
  /\ \A s \in Sources : Len(text[s]) <= TextCap
  /\ Len(out) <= TextCap /\ Len(audio) <= AudioCap /\ Len(events) <= EventCap

\* the steps and the flags
Flags ==
  /\ cancelled \in BOOLEAN /\ current \in BOOLEAN /\ seen \in BOOLEAN /\ flushing \in BOOLEAN
  /\ err \in BOOLEAN /\ cut \in BOOLEAN

Stages ==
  /\ provider \in [Sources -> {"off", "open", "done", "closed"}]
  /\ relay \in {"off", "primary", "notice", "open", "fallback", "closed"}
  /\ runner \in {"asr", "open", "read", "tail", "cut", "speak", "emit", "end", "report", "off"}
  /\ status \in Statuses /\ tts \in {"off", "open", "closed"}
  /\ consumer \in {"read", "completed", "cancelled", "degraded", "local_fallback", "write_error"}

Counts == said \in [Sources -> 0..MaxText] /\ final \in StreamEvents

Bounds == Capacities /\ Flags /\ Stages /\ Counts

\* what the operations do to the length of a channel
LEMMA Lengths ==
  ASSUME NEW S, NEW q \in Seq(S)
  PROVE  /\ Len(q) \in Nat /\ \A e \in S : Len(Append(q, e)) = Len(q) + 1
         /\ q # <<>> => Len(Tail(q)) = Len(q) - 1
BY LenProperties, AppendProperties, HeadTailProperties

\* an empty channel has room, and one that loses its head keeps it
LEMMA Room ==
  ASSUME NEW S, NEW q \in Seq(S), NEW cap \in Nat
  PROVE  /\ Len(<<>>) <= cap
         /\ \A e \in S : Len(q) < cap => Len(Append(q, e)) <= cap
         /\ q # <<>> /\ Len(q) <= cap => Len(Tail(q)) <= cap
BY Lengths, EmptySeq

\* a provider keeps the capacity of its channel
LEMMA ProviderBounded ==
  ASSUME Carried, Bounds, NEW r \in Sources, ProviderStep(r)
  PROVE  Bounds'
<1> USE DEF Bounds, Stages
<1>1. /\ UNCHANGED <<out, audio, events, cancelled, current, seen, flushing, err, cut, final>>
      /\ UNCHANGED <<relay, runner, status, tts, consumer>>
  BY DEF ProviderStep, SayContent, SayReasoning, SayDone, SayError, Close,
     turn, relaying, running, speaking, hearing
<1>2. \A s \in Sources : text[s] \in Seq(TextEvents)
  BY DEF Carried
<1>3. Capacities'
  <2>1. ASSUME NEW e \in TextEvents, Says(r, e) PROVE \A s \in Sources : Len(text'[s]) <= TextCap
    <3>1. Len(text[r]) < TextCap /\ text' = [text EXCEPT ![r] = Append(@, e)]
      BY <2>1 DEF Says
    <3>2. TextCap \in Nat /\ Len(Append(text[r], e)) <= TextCap
      BY <1>2, <3>1, CapAssumption, Room
    <3>3. \A s \in Sources : text'[s] = IF s = r THEN Append(text[r], e) ELSE text[s]
      BY <3>1 DEF Carried
    <3> QED BY <3>2, <3>3 DEF Capacities
  <2>2. \A k \in {"reasoning", "done", "err"} : TextEvent(k, <<>>) \in TextEvents
    BY EmptySeq DEF TextEvent, TextEvents
  <2>3. CASE SayContent(r)
    <3>1. PICK w \in Texts(r) : said[r] + Len(w) <= MaxText /\ Says(r, TextEvent("content", w))
      BY <2>3 DEF SayContent
    <3>2. said[r] \in Nat
      BY CapAssumption DEF Counts
    <3>3. w \in Seq(WordsOf(r))
      BY <3>1, <3>2, SaidWords
    <3>4. w \in Seq(Words)
      BY <3>3, SeqGrows DEF WordsOf
    <3>5. TextEvent("content", w) \in TextEvents
      BY <3>4 DEF TextEvent, TextEvents
    <3> QED BY <1>1, <2>1, <3>1, <3>5 DEF Capacities
  <2>4. CASE SayReasoning(r) \/ SayDone(r) \/ SayError(r)
    BY <1>1, <2>1, <2>2, <2>4 DEF SayReasoning, SayDone, SayError, Capacities
  <2>5. CASE Close(r)
    BY <1>1, <2>5 DEF Close, Capacities
  <2> QED BY <2>3, <2>4, <2>5 DEF ProviderStep
<1>4. provider' \in [Sources -> {"off", "open", "done", "closed"}]
  BY DEF ProviderStep, SayContent, SayReasoning, SayDone, SayError, Close
<1>5. said' \in [Sources -> 0..MaxText]
  <2>1. CASE UNCHANGED said
    BY <2>1 DEF Counts
  <2>2. CASE SayContent(r)
    <3>1. PICK w \in Texts(r) : said[r] + Len(w) <= MaxText /\ said' = [said EXCEPT ![r] = @ + Len(w)]
      BY <2>2 DEF SayContent
    <3>2. said[r] \in Nat /\ MaxText \in Nat
      BY CapAssumption DEF Counts
    <3>3. Len(w) \in Nat
      BY <3>1, <3>2, NextWords
    <3>4. said[r] + Len(w) \in 0..MaxText
      BY <3>1, <3>2, <3>3
    <3> QED BY <3>1, <3>4 DEF Counts
  <2> QED BY <2>1, <2>2 DEF ProviderStep, SayReasoning, SayDone, SayError, Close
<1> QED BY <1>1, <1>3, <1>4, <1>5 DEF Flags, Counts

\* the relay keeps the capacity of its own
LEMMA RelayBounded ==
  ASSUME Carried, Bounds, RelayStep
  PROVE  Bounds'
<1> USE DEF Bounds, Stages
<1>1. /\ UNCHANGED <<audio, events, cancelled, current, flushing, err, cut, final, said>>
      /\ UNCHANGED <<runner, status, tts, consumer>>
  BY DEF RelayStep, RelayHandsOver, RelayPrimary, RelayNotice, RelayOpens, RelayFallback,
     RelayEnds, RelayCancelled, turn, remote, running, speaking, hearing
<1>2. \A s \in Sources : text[s] \in Seq(TextEvents)
  BY DEF Carried
<1>3. TextCap \in Nat
  BY CapAssumption
<1>4. \A s \in Sources : Len(text'[s]) <= TextCap
  <2>1. ASSUME NEW r \in Sources, text[r] # <<>>, TakeText(r)
        PROVE  \A s \in Sources : Len(text'[s]) <= TextCap
    <3>1. \A s \in Sources : text'[s] = IF s = r THEN Tail(text[r]) ELSE text[s]
      BY <2>1 DEF TakeText, Carried
    <3>2. Len(Tail(text[r])) <= TextCap
      BY <1>2, <1>3, <2>1, Room DEF Capacities
    <3> QED BY <3>1, <3>2 DEF Capacities
  <2>2. UNCHANGED text \/ \E r \in Sources : text[r] # <<>> /\ TakeText(r)
    BY DEF RelayStep, RelayHandsOver, RelayPrimary, RelayNotice, RelayOpens, RelayFallback,
       RelayEnds, RelayCancelled, remote, Sources
  <2> QED BY <2>1, <2>2 DEF Capacities
<1>5. Len(out') <= TextCap
  <2>1. UNCHANGED out \/ \E e \in TextEvents : PassOn(e)
    <3>1. \A k \in {"notice", "err"} : TextEvent(k, <<>>) \in TextEvents
      BY EmptySeq DEF TextEvent, TextEvents
    <3>2. \A s \in Sources : text[s] # <<>> => Head(text[s]) \in TextEvents
      BY <1>2, HeadTailProperties
    <3> QED BY <3>1, <3>2 DEF RelayStep, RelayHandsOver, RelayPrimary, RelayNotice, RelayOpens,
               RelayFallback, RelayEnds, RelayCancelled, Sources
  <2>2. ASSUME NEW e \in TextEvents, PassOn(e) PROVE Len(out') <= TextCap
    BY <1>3, <2>2, Room DEF PassOn, Carried
  <2> QED BY <2>1, <2>2 DEF Capacities
<1>6. seen' \in BOOLEAN
  BY DEF RelayStep, RelayHandsOver, RelayPrimary, RelayNotice, RelayOpens, RelayFallback,
     RelayEnds, RelayCancelled, Noticed, Flags
<1>7. /\ provider' \in [Sources -> {"off", "open", "done", "closed"}]
      /\ relay' \in {"off", "primary", "notice", "open", "fallback", "closed"}
  BY DEF RelayStep, RelayHandsOver, RelayPrimary, RelayNotice, RelayOpens, RelayFallback,
     RelayEnds, RelayCancelled, remote, Sources
<1> QED BY <1>1, <1>4, <1>5, <1>6, <1>7 DEF Capacities, Flags, Counts

\* the runner keeps the capacity of its events
LEMMA RunnerBounded ==
  ASSUME Carried, Bounds, EmitHasChunk, RunnerStep
  PROVE  Bounds'
<1> USE DEF Bounds, Stages
<1>1. /\ UNCHANGED <<text, cancelled, current, seen, cut, final, said, consumer>>
  BY DEF RunnerStep, RunnerHears, RunnerOpens, RunnerReads, RunnerReadsEnd,
     RunnerFlushes, RunnerSynthesizes, RunnerNoSentence, RunnerTakesChunk, RunnerEmits,
     RunnerSpoke, RunnerEnds, RunnerReports, turn, remote, relaying, speaking, hearing
<1>2. {TextCap, AudioCap, EventCap} \subseteq Nat
  BY CapAssumption
<1>3. Len(out') <= TextCap
  <2>1. out' = out \/ (out # <<>> /\ out' = Tail(out))
    BY DEF RunnerStep, RunnerHears, RunnerOpens, RunnerReads, RunnerReadsEnd,
       RunnerFlushes, RunnerSynthesizes, RunnerNoSentence, RunnerTakesChunk, RunnerEmits,
       RunnerSpoke, RunnerEnds, RunnerReports, relaying
  <2> QED BY <1>2, <2>1, Room DEF Carried, Capacities
<1>4. Len(audio') <= AudioCap
  <2>1. audio' = audio \/ audio' = <<>> \/ (audio # <<>> /\ audio' = Tail(audio))
    BY DEF RunnerStep, RunnerHears, RunnerOpens, RunnerReads, RunnerReadsEnd,
       RunnerFlushes, RunnerSynthesizes, RunnerNoSentence, RunnerTakesChunk, RunnerEmits,
       RunnerSpoke, RunnerEnds, RunnerReports, speaking, EmitHasChunk
  <2> QED BY <1>2, <2>1, Room DEF Carried, Capacities
<1>5. Len(events') <= EventCap
  <2>1. events' = events \/ (Len(events) < EventCap /\ \E e \in StreamEvents : events' = Append(events, e))
    <3>1. DoneEvent(status, err) \in StreamEvents
      BY EmptySeq DEF DoneEvent, StreamEvents, Flags
    <3>2. RunnerEmits => AudioEvent(Head(audio).words) \in StreamEvents
      <4>1. RunnerEmits => Head(audio) \in Chunks
        BY HeadTailProperties DEF RunnerEmits, EmitHasChunk, Carried
      <4> QED BY <4>1 DEF AudioEvent, StreamEvents, Chunks, Statuses
    <3> QED
      BY <3>1, <3>2 DEF RunnerStep, RunnerHears, RunnerOpens, RunnerReads, RunnerReadsEnd,
         RunnerFlushes, RunnerSynthesizes, RunnerNoSentence, RunnerTakesChunk, RunnerEmits,
         RunnerSpoke, RunnerEnds, RunnerReports
  <2> QED BY <1>2, <2>1, Room DEF Carried, Capacities
<1>6. err' \in BOOLEAN /\ flushing' \in BOOLEAN
  BY DEF RunnerStep, RunnerHears, RunnerOpens, RunnerReads, RunnerReadsEnd,
     RunnerFlushes, RunnerSynthesizes, RunnerNoSentence, RunnerTakesChunk, RunnerEmits,
     RunnerSpoke, RunnerEnds, RunnerReports, Flags, GoOn, Fails, CancelSeen
<1>7. /\ runner' \in {"asr", "open", "read", "tail", "cut", "speak", "emit", "end", "report", "off"}
      /\ status' \in Statuses
  BY DEF RunnerStep, RunnerHears, RunnerOpens, RunnerReads, RunnerReadsEnd,
     RunnerFlushes, RunnerSynthesizes, RunnerNoSentence, RunnerTakesChunk, RunnerEmits,
     RunnerSpoke, RunnerEnds, RunnerReports, GoOn, Fails, CancelSeen, Statuses
<1>8. /\ provider' \in [Sources -> {"off", "open", "done", "closed"}]
      /\ relay' \in {"off", "primary", "notice", "open", "fallback", "closed"}
      /\ tts' \in {"off", "open", "closed"}
  BY DEF RunnerStep, RunnerHears, RunnerOpens, RunnerReads, RunnerReadsEnd,
     RunnerFlushes, RunnerSynthesizes, RunnerNoSentence, RunnerTakesChunk, RunnerEmits,
     RunnerSpoke, RunnerEnds, RunnerReports, remote, relaying, speaking, Sources
<1> QED BY <1>1, <1>3, <1>4, <1>5, <1>6, <1>7, <1>8 DEF Capacities, Flags, Counts

\* the TTS keeps the capacity of the audio, and the gateway only takes events
LEMMA HearingBounded ==
  ASSUME Carried, Bounds, VoiceStep \/ ConsumerStep
  PROVE  Bounds'
<1> USE DEF Bounds, Stages
<1>1. UNCHANGED <<text, out, current, seen, flushing, err, said, provider, relay, runner, status>>
  BY DEF VoiceStep, VoiceSpeaks, VoiceEnds, VoiceBreaks, ConsumerStep, ConsumerAborts,
     ConsumerHears, ConsumerWriteFails, ConsumerEnds, turn, remote, relaying, running
<1>2. {AudioCap, EventCap} \subseteq Nat
  BY CapAssumption
<1>3. Len(audio') <= AudioCap
  <2>1. audio' = audio \/ (Len(audio) < AudioCap /\ \E e \in Chunks : audio' = Append(audio, e))
    <3>1. ChunkErr \in Chunks
      BY EmptySeq DEF ChunkErr, Chunks
    <3>2. voice # <<>> => Chunk(<<Head(voice)>>) \in Chunks
      <4>1. voice # <<>> => Head(voice) \in Words
        BY HeadTailProperties DEF Carried
      <4> QED BY <4>1 DEF Chunk, Chunks
    <3> QED BY <3>1, <3>2 DEF VoiceStep, VoiceSpeaks, VoiceEnds, VoiceBreaks, ConsumerStep,
               ConsumerAborts, ConsumerHears, ConsumerWriteFails, ConsumerEnds, speaking
  <2> QED BY <1>2, <2>1, Room DEF Carried, Capacities
<1>4. Len(events') <= EventCap
  <2>1. events' = events \/ (events # <<>> /\ events' = Tail(events))
    BY DEF VoiceStep, VoiceSpeaks, VoiceEnds, VoiceBreaks, ConsumerStep, ConsumerAborts,
       ConsumerHears, ConsumerWriteFails, ConsumerEnds
  <2> QED BY <1>2, <2>1, Room DEF Carried, Capacities
<1>5. final' \in StreamEvents
  <2>1. final' = final \/ (events # <<>> /\ final' = Head(events))
    BY DEF VoiceStep, VoiceSpeaks, VoiceEnds, VoiceBreaks, ConsumerStep, ConsumerAborts,
       ConsumerHears, ConsumerWriteFails, ConsumerEnds, hearing
  <2> QED BY <2>1, HeadTailProperties DEF Carried, Counts
<1>6. cancelled' \in BOOLEAN /\ cut' \in BOOLEAN
  BY DEF VoiceStep, VoiceSpeaks, VoiceEnds, VoiceBreaks, ConsumerStep, ConsumerAborts,
     ConsumerHears, ConsumerWriteFails, ConsumerEnds, turn, speaking, Flags
<1>7. tts' \in {"off", "open", "closed"}
  BY DEF VoiceStep, VoiceSpeaks, VoiceEnds, VoiceBreaks, ConsumerStep, ConsumerAborts,
     ConsumerHears, ConsumerWriteFails, ConsumerEnds, speaking
<1>8. consumer' \in {"read", "completed", "cancelled", "degraded", "local_fallback", "write_error"}
  BY DEF VoiceStep, VoiceSpeaks, VoiceEnds, VoiceBreaks, ConsumerStep, ConsumerAborts,
     ConsumerHears, ConsumerWriteFails, ConsumerEnds, hearing, Verdict
<1> QED BY <1>1, <1>3, <1>4, <1>5, <1>6, <1>7, <1>8 DEF Capacities, Flags, Counts

\* nothing is said and nothing open at first
LEMMA InitBounds == Init => Bounds
<1> SUFFICES ASSUME Init PROVE Bounds
  OBVIOUS
<1>1. Capacities
  BY CapAssumption, EmptySeq DEF Init, Capacities
<1>2. Flags
  BY DEF Init, Flags
<1>3. Stages
  BY DEF Init, Stages, Statuses
<1>4. Counts
  BY CapAssumption, EmptySeq DEF Init, Counts, DoneEvent, StreamEvents, Statuses
<1> QED BY <1>1, <1>2, <1>3, <1>4 DEF Bounds

\* every step keeps the types
LEMMA NextBounds == Carried /\ SourceInv /\ Bounds /\ [Next]_vars => Bounds'
<1> SUFFICES ASSUME Carried, SourceInv, Bounds, [Next]_vars PROVE Bounds'
  OBVIOUS
<1>1. CASE UNCHANGED vars
  BY <1>1 DEF vars, turn, remote, relaying, running, speaking, hearing, Bounds, Capacities,
     Flags, Stages, Counts
<1>2. CASE Cancel \/ Drop
  <2>1. Capacities' /\ Stages' /\ Counts'
    BY <1>2 DEF Cancel, Drop, remote, relaying, running, speaking, hearing, Bounds, Capacities,
       Stages, Counts
  <2>2. Flags'
    BY <1>2 DEF Cancel, Drop, relaying, running, speaking, Bounds, Flags
  <2> QED BY <2>1, <2>2 DEF Bounds
<1> QED
  BY <1>1, <1>2, ProviderBounded, RelayBounded, RunnerBounded, HearingBounded
     DEF Next, Over, SourceInv

\* The types of the pipeline's state: no channel ever holds more than its
\* capacity, whoever writes to it and however the answer breaks off.
THEOREM PipelineTypes == Spec => []TypeOK
<1>1. Spec => []SourceInv
  BY InitSource, NextSource, PTL DEF Spec
<1>2. SourceInv => Carried
  BY SeqTypes DEF Carried
<1>3. Spec => []Bounds
  BY <1>1, <1>2, InitBounds, NextBounds, PTL DEF Spec
<1>4. Carried /\ Bounds => TypeOK
  BY DEF Carried, Bounds, Capacities, Flags, Stages, Counts, TypeOK
<1> QED BY <1>1, <1>2, <1>3, <1>4, PTL

-----------------------------------------------------------------------------
(* A completed answer is whole.                                            *)

\* a provider that will not say another word
Quiet(s) == provider[s] \in {"done", "closed"}

\* every word s has said is still somewhere on its way
Kept(s) == \A m \in Said(s) : \E l \in 1..7 : m \in Places(s)[l]

\* the run goes on, and nothing has broken it off
Live == runner \notin {"report", "off"} /\ ~cancelled /\ ~cut /\ consumer = "read"

Has(q, kind) == \E i \in DOMAIN q : q[i].kind = kind

\* no words come after a done
DoneLast(q) == \A i, j \in DOMAIN q : i < j /\ q[i].kind = "done" => q[j].words = <<>>

NothingLost == Live => \A s \in Sources : Kept(s)

\* between two sentences there is no audio, and a sentence that is over is said
\* in full or ends with an error
Sentences ==
  /\ Live /\ runner \notin {"speak", "emit"} => tts # "open" /\ voice = <<>> /\ audio = <<>>
  /\ Live /\ tts = "closed" => voice = <<>> \/ Has(audio, "err")
  /\ runner = "emit" => Head(audio).kind # "err"

\* a done is the last of its provider, in its channel and in the relay's
Dones ==
  /\ \A s \in Sources : DoneLast(text[s]) /\ (Has(text[s], "done") => Quiet(s))
  /\ DoneLast(out)
  /\ Has(out, "done") => Quiet(Speaker) /\ AllNums(Speaker, text[Speaker]) = {}

\* who has not been asked to speak
Asked ==
  /\ relay \in {"off", "primary", "notice", "open"} => provider["fallback"] = "off"
  /\ runner \in {"asr", "open"} => provider["primary"] = "off"

\* the relay has closed its channel at the end of what was said, or after an error
RelayEnded ==
  relay = "closed" /\ ~cancelled /\ runner \notin {"report", "off"} =>
    Ended(Speaker) \/ Has(out, "err")

\* once the runner has stopped reading, all words are with it or further down
Flushed ==
  /\ Live /\ (runner \in {"tail", "end"} \/ flushing) =>
       /\ Quiet(Speaker)
       /\ AllNums(Speaker, out) = {} /\ AllNums(Speaker, text[Speaker]) = {}
  /\ Live /\ runner = "end" => pending = <<>>

\* what a completed run has passed on, and what the device has heard of it
Delivered ==
  /\ status = "completed" => runner \in {"report", "off"}
  /\ status = "completed" /\ ~cut /\ consumer = "read" =>
       /\ Quiet(Speaker)
       /\ Said(Speaker) \subseteq Nums(Speaker, heard) \cup AllNums(Speaker, events)
  /\ consumer = "completed" /\ ~cut =>
       heard # <<>> /\ Quiet(Speaker) /\ Said(Speaker) \subseteq Nums(Speaker, heard)

\* only a completed run is reported as completed, and the report has no words
Reported ==
  /\ \A i \in DOMAIN events :
       /\ events[i].kind = "done" => runner = "off" /\ events[i].words = <<>>
       /\ events[i].status = "completed" => runner = "off" /\ status = "completed"
  /\ final.status = "completed" => runner = "off" /\ status = "completed"

Wholeness == /\ NothingLost /\ Sentences /\ Dones /\ Asked /\ RelayEnded
             /\ Flushed /\ Delivered /\ Reported

\* a set of numbers has a least one
LEMMA LeastOf ==
  ASSUME NEW T \in SUBSET Nat, T # {}
  PROVE  \E i \in T : \A j \in T : i <= j
<1>1. \E i \in T : \A j \in T : ~ (<<j, i>> \in OpToRel(<, Nat))
  BY NatLessThanWellFounded, WFMin
<1>2. \A i, j \in Nat : j < i => <<j, i>> \in OpToRel(<, Nat)
  BY DEF OpToRel
<1>3. PICK i \in T : \A j \in T : ~ (<<j, i>> \in OpToRel(<, Nat))
  BY <1>1
<1>4. \A j \in T : ~ (j < i)
  BY <1>2, <1>3
<1> QED BY <1>4

\* a text that is flushed and has no next end is empty
LEMMA NoEndIsEmpty ==
  ASSUME NEW S, pending \in Seq(S), flushing, NextEnd = {}
  PROVE  pending = <<>>
<1>1. Len(pending) \in Nat /\ DOMAIN pending = 1..Len(pending)
  BY LenProperties
<1>2. Ends = {}
  <2>1. Ends \in SUBSET Nat
    BY <1>1 DEF Ends
  <2>2. Ends # {} => {i \in Ends : \A j \in Ends : i <= j} # {}
    BY <2>1, LeastOf
  <2> QED BY <2>2 DEF NextEnd
<1>3. {Len(pending)} \ {0} = {}
  BY <1>2 DEF NextEnd
<1> QED BY <1>1, <1>3, EmptySeq

\* numbers that rise and are all the numbers up to k are k
LEMMA RisingCounts ==
  ASSUME NEW s, NEW S, NEW q \in Seq(S), NEW k \in Nat, Rising(s, q),
         \A i \in DOMAIN q : q[i].src = s, Nums(s, q) = 1..k
  PROVE  Len(q) = k
<1> DEFINE f == [i \in 1..Len(q) |-> q[i].n]
<1>1. Len(q) \in Nat /\ DOMAIN q = 1..Len(q)
  BY LenProperties
<1>2. \A i \in 1..Len(q) : q[i].n \in 1..k
  BY <1>1 DEF Nums
<1>3. \A m \in 1..k : \E i \in 1..Len(q) : q[i].n = m
  BY <1>1 DEF Nums
<1>4. \A i, j \in 1..Len(q) : i # j => q[i].n # q[j].n
  <2> SUFFICES ASSUME NEW i \in 1..Len(q), NEW j \in 1..Len(q), i # j PROVE q[i].n # q[j].n
    OBVIOUS
  <2>1. i < j \/ j < i
    BY <1>1
  <2>2. q[i].n < q[j].n \/ q[j].n < q[i].n
    BY <1>1, <2>1 DEF Rising
  <2> QED BY <1>2, <2>2
<1>5. f \in Surjection(1..Len(q), 1..k)
  BY <1>2, <1>3 DEF Surjection
<1>6. f \in Injection(1..Len(q), 1..k)
  BY <1>2, <1>4 DEF Injection, IsInjective
<1>7. /\ IsFiniteSet(1..Len(q)) /\ IsFiniteSet(1..k)
      /\ Cardinality(1..Len(q)) = Len(q) /\ Cardinality(1..k) = k
  <2>1. \A m \in Nat : IsFiniteSet(1..m) /\ Cardinality(1..m) = IF 1 > m THEN 0 ELSE m - 1 + 1
    BY FS_Interval
  <2>2. \A m \in Nat : (IF 1 > m THEN 0 ELSE m - 1 + 1) = m
    OBVIOUS
  <2> QED BY <1>1, <2>1, <2>2
<1> HIDE DEF f
<1>8. Cardinality(1..k) = Cardinality(1..Len(q))
  BY <1>5, <1>6, <1>7, FS_Surjection
<1> QED BY <1>7, <1>8

\* a sequence without its head
LEMMA TailKinds ==
  ASSUME NEW S, NEW q \in Seq(S), q # <<>>
  PROVE  /\ Has(q, Head(q).kind)
         /\ \A kind : Has(Tail(q), kind) => Has(q, kind)
         /\ \A kind : Has(q, kind) => Has(Tail(q), kind) \/ Head(q).kind = kind
         /\ DoneLast(q) => DoneLast(Tail(q))
         /\ DoneLast(q) /\ Head(q).kind = "done" => \A i \in DOMAIN Tail(q) : Tail(q)[i].words = <<>>
<1> DEFINE t == Tail(q)
<1>1. /\ Len(q) \in Nat /\ Len(q) >= 1 /\ DOMAIN q = 1..Len(q) /\ Head(q) = q[1]
      /\ t \in Seq(S) /\ Len(t) = Len(q) - 1 /\ \A i \in 1..Len(t) : t[i] = q[i + 1]
  BY LenProperties, HeadTailProperties, EmptySeq
<1>2. DOMAIN t = 1..(Len(q) - 1)
  BY <1>1, LenProperties
<1>3. \A i \in DOMAIN t : i + 1 \in DOMAIN q /\ q[i + 1] = t[i] /\ 1 < i + 1
  BY <1>1, <1>2
<1>4. 1 \in DOMAIN q /\ \A i \in DOMAIN q : i = 1 \/ (i - 1 \in DOMAIN t /\ q[i] = t[i - 1])
  BY <1>1, <1>2
<1>5. \A i, j \in DOMAIN t : i < j => i + 1 < j + 1
  BY <1>1, <1>2
<1> HIDE DEF t
<1>6. Has(q, Head(q).kind)
  BY <1>1, <1>4 DEF Has
<1>7. \A kind : Has(t, kind) => Has(q, kind)
  BY <1>3 DEF Has
<1>8. \A kind : Has(q, kind) => Has(t, kind) \/ Head(q).kind = kind
  BY <1>1, <1>4 DEF Has
<1>9. ASSUME DoneLast(q) PROVE DoneLast(t)
  <2> SUFFICES ASSUME NEW i \in DOMAIN t, NEW j \in DOMAIN t, i < j, t[i].kind = "done"
               PROVE  t[j].words = <<>>
    BY DEF DoneLast
  <2>1. i + 1 \in DOMAIN q /\ j + 1 \in DOMAIN q /\ i + 1 < j + 1
    BY <1>3, <1>5
  <2>2. q[i + 1].kind = "done" /\ t[j] = q[j + 1]
    BY <1>3
  <2> QED BY <1>9, <2>1, <2>2 DEF DoneLast
<1>10. ASSUME DoneLast(q), Head(q).kind = "done", NEW i \in DOMAIN t PROVE t[i].words = <<>>
  <2>1. i + 1 \in DOMAIN q /\ q[i + 1] = t[i] /\ 1 < i + 1
    BY <1>3
  <2>2. 1 \in DOMAIN q /\ q[1].kind = "done"
    BY <1>1, <1>4, <1>10
  <2> QED BY <1>10, <2>1, <2>2 DEF DoneLast
<1> QED BY <1>6, <1>7, <1>8, <1>9, <1>10 DEF t

\* a sequence and one more
LEMMA AppendKinds ==
  ASSUME NEW S, NEW q \in Seq(S), NEW e \in S
  PROVE  /\ \A kind : Has(Append(q, e), kind) <=> Has(q, kind) \/ e.kind = kind
         /\ DoneLast(q) /\ (Has(q, "done") => e.words = <<>>) => DoneLast(Append(q, e))
         /\ q # <<>> => Head(Append(q, e)) = Head(q)
<1> DEFINE c == Append(q, e)
<1>1. /\ Len(q) \in Nat /\ DOMAIN q = 1..Len(q)
      /\ c \in Seq(S) /\ Len(c) = Len(q) + 1
      /\ \A i \in 1..Len(q) : c[i] = q[i]
      /\ c[Len(q) + 1] = e
  BY LenProperties, AppendProperties
<1>2. DOMAIN c = 1..(Len(q) + 1)
  BY <1>1, LenProperties
<1>3. /\ Len(q) + 1 \in DOMAIN c
      /\ \A i \in DOMAIN q : i \in DOMAIN c /\ c[i] = q[i]
      /\ \A i \in DOMAIN c : i \in DOMAIN q \/ i = Len(q) + 1
      /\ \A i, j \in DOMAIN c : i < j => i \in DOMAIN q
  BY <1>1, <1>2
<1>4. q # <<>> => Head(c) = Head(q)
  <2>1. q # <<>> => 1 \in 1..Len(q) /\ Head(q) = q[1] /\ Head(c) = c[1]
    BY <1>1, HeadTailProperties, EmptySeq
  <2> QED BY <1>1, <2>1
<1> HIDE DEF c
<1>5. ASSUME NEW kind PROVE Has(c, kind) <=> Has(q, kind) \/ e.kind = kind
  <2>1. Has(q, kind) => Has(c, kind)
    BY <1>3 DEF Has
  <2>2. e.kind = kind => Has(c, kind)
    BY <1>1, <1>3 DEF Has
  <2>3. Has(c, kind) => Has(q, kind) \/ e.kind = kind
    BY <1>1, <1>3 DEF Has
  <2> QED BY <2>1, <2>2, <2>3
<1>6. ASSUME DoneLast(q), Has(q, "done") => e.words = <<>> PROVE DoneLast(c)
  <2> SUFFICES ASSUME NEW i \in DOMAIN c, NEW j \in DOMAIN c, i < j, c[i].kind = "done"
               PROVE  c[j].words = <<>>
    BY DEF DoneLast
  <2>1. i \in DOMAIN q /\ q[i].kind = "done"
    BY <1>3
  <2>2. CASE j \in DOMAIN q
    BY <1>3, <1>6, <2>1, <2>2 DEF DoneLast
  <2>3. CASE j = Len(q) + 1
    BY <1>1, <1>6, <2>1, <2>3 DEF Has
  <2> QED BY <1>3, <2>2, <2>3
<1> QED BY <1>4, <1>5, <1>6 DEF c

\* a sequence without words has no numbers, and the other way round for a speaker's own
LEMMA Silence ==
  ASSUME NEW s
  PROVE  /\ \A q : (\A i \in DOMAIN q : q[i].words = <<>>) => AllNums(s, q) = {}
         /\ \A w \in Seq(WordsOf(s)) : Nums(s, w) = {} => w = <<>>
<1>1. ASSUME NEW q, \A i \in DOMAIN q : q[i].words = <<>> PROVE AllNums(s, q) = {}
  BY <1>1, EmptyOrder DEF AllNums
<1>2. ASSUME NEW w \in Seq(WordsOf(s)), Nums(s, w) = {} PROVE w = <<>>
  <2>1. Len(w) \in Nat /\ DOMAIN w = 1..Len(w) /\ \A i \in 1..Len(w) : w[i] \in WordsOf(s)
    BY LenProperties, ElementOfSeq
  <2>2. \A i \in DOMAIN w : w[i].n \in Nums(s, w)
    BY <2>1 DEF Nums, WordsOf
  <2>3. Len(w) = 0
    BY <1>2, <2>1, <2>2
  <2> QED BY <2>3, EmptySeq
<1> QED BY <1>1, <1>2

\* what the steps of an answer work with
LEMMA AnswerTypes ==
  ASSUME SourceInv, TypeOK
  PROVE  /\ Speaker \in Sources /\ Downstream(Speaker) /\ Sources = {"primary", "fallback"}
         /\ heard \in Seq(Words) /\ voice \in Seq(Words) /\ pending \in Seq(Words)
         /\ out \in Seq(TextEvents) /\ audio \in Seq(Chunks) /\ events \in Seq(StreamEvents)
         /\ \A s \in Sources : text[s] \in Seq(TextEvents) /\ text[s] \in Seq(TextsOf(s))
         /\ text \in [Sources -> Seq(TextEvents)]
         /\ provider \in [Sources -> {"off", "open", "done", "closed"}]
         /\ said \in [Sources -> Nat]
BY SeqTypes DEF SourceInv, TypeOK, Speaker, Sources

\* what a provider's step does
LEMMA ProviderDoes ==
  ASSUME SourceInv, TypeOK, NEW r \in Sources, ProviderStep(r)
  PROVE  /\ UNCHANGED <<cancelled, current, relay, seen, out, runner, pending, flushing, status,
                        err, voice, tts, audio, cut, events, consumer, heard, final>>
         /\ provider[r] \in {"open", "done"}
         /\ \A s \in Sources : /\ s # r => provider'[s] = provider[s]
                               /\ Quiet(s) => Quiet(s)'
         /\ \A s \in Sources :
              \/ text'[s] = text[s] /\ said'[s] = said[s]
              \/ /\ s = r
                 /\ \E e \in TextsOf(s) :
                      /\ text'[s] = Append(text[s], e) /\ (e.kind = "done" => Quiet(s)')
                      /\ \/ e.words = <<>> /\ said'[s] = said[s]
                         \/ /\ provider[s] = "open" /\ e.words \in Texts(s) /\ e.kind = "content"
                            /\ said'[s] = said[s] + Len(e.words)
<1>0. /\ text \in [Sources -> Seq(TextEvents)] /\ said \in [Sources -> Nat]
      /\ provider \in [Sources -> {"off", "open", "done", "closed"}]
  BY AnswerTypes
<1>1. /\ UNCHANGED <<cancelled, current, relay, seen, out, runner, pending, flushing, status,
                     err, voice, tts, audio, cut, events, consumer, heard, final>>
  BY DEF ProviderStep, SayContent, SayReasoning, SayDone, SayError, Close,
     turn, relaying, running, speaking, hearing
<1>2. provider[r] \in {"open", "done"}
  BY DEF ProviderStep, SayContent, SayReasoning, SayDone, SayError, Close
<1>3. \A s \in Sources : /\ s # r => provider'[s] = provider[s]
                         /\ Quiet(s) => Quiet(s)'
  BY <1>0 DEF ProviderStep, SayContent, SayReasoning, SayDone, SayError, Close, Quiet
<1>4. ASSUME NEW k \in {"reasoning", "done", "err"}, Says(r, TextEvent(k, <<>>)), UNCHANGED said,
             k = "done" => Quiet(r)', NEW s \in Sources
      PROVE  \/ text'[s] = text[s] /\ said'[s] = said[s]
             \/ /\ s = r
                /\ \E e \in TextsOf(s) :
                     /\ text'[s] = Append(text[s], e) /\ (e.kind = "done" => Quiet(s)')
                     /\ e.words = <<>> /\ said'[s] = said[s]
  <2>1. CASE s # r
    BY <1>0, <1>4, <2>1 DEF Says
  <2>2. CASE s = r
    <3>1. /\ TextEvent(k, <<>>) \in TextsOf(s) /\ TextEvent(k, <<>>).words = <<>>
          /\ TextEvent(k, <<>>).kind = k
      BY EmptySeq DEF TextEvent, TextsOf
    <3>2. text'[s] = Append(text[s], TextEvent(k, <<>>))
      BY <1>0, <1>4, <2>2 DEF Says
    <3> QED BY <1>4, <2>2, <3>1, <3>2
  <2> QED BY <2>1, <2>2
<1>5. CASE SayReasoning(r)
  BY <1>1, <1>2, <1>3, <1>4, <1>5 DEF SayReasoning
<1>6. CASE SayDone(r)
  <2>1. Quiet(r)'
    BY <1>0, <1>6 DEF SayDone, Quiet
  <2> QED BY <1>1, <1>2, <1>3, <1>4, <1>6, <2>1 DEF SayDone
<1>7. CASE SayError(r)
  BY <1>1, <1>2, <1>3, <1>4, <1>7 DEF SayError
<1>8. CASE Close(r)
  BY <1>1, <1>2, <1>3, <1>8 DEF Close
<1>9. CASE SayContent(r)
  <2>1. PICK w \in Texts(r) : /\ text' = [text EXCEPT ![r] = Append(@, TextEvent("content", w))]
                              /\ said' = [said EXCEPT ![r] = @ + Len(w)]
                              /\ said[r] + Len(w) <= MaxText
    BY <1>9 DEF SayContent, Says
  <2>2. w \in Seq(WordsOf(r))
    BY <1>0, <2>1, SaidWords
  <2>3. /\ TextEvent("content", w) \in TextsOf(r) /\ TextEvent("content", w).words = w
        /\ TextEvent("content", w).kind = "content"
    BY <2>2 DEF TextEvent, TextsOf
  <2>4. provider[r] = "open"
    BY <1>9 DEF SayContent
  <2>5. /\ text'[r] = Append(text[r], TextEvent("content", w)) /\ said'[r] = said[r] + Len(w)
        /\ \A s \in Sources : s # r => text'[s] = text[s] /\ said'[s] = said[s]
    BY <1>0, <2>1
  <2> QED BY <1>1, <1>2, <1>3, <2>1, <2>3, <2>4, <2>5
<1> QED BY <1>5, <1>6, <1>7, <1>8, <1>9 DEF ProviderStep

\* what the relay's step does: it takes a text event, passes one on, or both
LEMMA RelayDoes ==
  ASSUME SourceInv, TypeOK, RelayStep
  PROVE  /\ UNCHANGED <<cancelled, current, said, runner, pending, flushing, status, err,
                        voice, tts, audio, cut, events, consumer, heard, final>>
         /\ seen' = seen \/ (relay = "primary" /\ Speaker = "fallback")
         /\ provider' = provider \/ (relay = "open" /\ relay' = "fallback"
                                       /\ provider' = [provider EXCEPT !["fallback"] = "open"])
         /\ \/ UNCHANGED <<text, out>>
            \/ /\ UNCHANGED text
               /\ \E e \in TextEvents : e.kind \in {"notice", "err"} /\ e.words = <<>>
                                          /\ out' = Append(out, e)
            \/ \E r \in Sources :
                 /\ relay = r /\ (r = "fallback" => ~seen /\ ~seen')
                 /\ text[r] # <<>> /\ text' = [text EXCEPT ![r] = Tail(@)]
                 /\ \/ /\ out' = Append(out, Head(text[r]))
                       /\ r = "primary" => seen' = Noticed(Head(text[r])) /\ ~NoContent(Head(text[r]))
                    \/ /\ out' = out /\ seen' = seen
                       /\ cancelled \/ Head(text[r]).words = <<>>
<1>1. CASE RelayHandsOver
  <2>1. text["primary"] # <<>> => Head(text["primary"]) \in TextsOf("primary")
    BY AnswerTypes, SeqSteps
  <2> QED
    BY <1>1, <2>1 DEF RelayHandsOver, NoContent, TextsOf, TakeText, Sources,
       turn, running, speaking, hearing
<1>2. CASE RelayPrimary
  <2>1. text["primary"] # <<>> => Head(text["primary"]) \in TextsOf("primary")
    BY AnswerTypes, SeqSteps
  <2>2. /\ UNCHANGED <<cancelled, current, said, runner, pending, flushing, status, err,
                       voice, tts, audio, cut, events, consumer, heard, final, provider>>
    BY <1>2 DEF RelayPrimary, turn, running, speaking, hearing
  <2>3. seen' = seen \/ (relay = "primary" /\ Speaker = "fallback")
    <3>1. seen' = Noticed(Head(text["primary"])) /\ relay = "primary"
      BY <1>2 DEF RelayPrimary
    <3>2. CASE seen
      BY <3>1, <3>2 DEF Noticed, SourceInv
    <3>3. CASE ~seen
      BY <3>1, <3>3 DEF Speaker
    <3> QED BY <3>2, <3>3
  <2>4. CASE Skips(Head(text["primary"]))
    <3>1. ~seen /\ Head(text["primary"]).kind = "reasoning" /\ text["primary"] # <<>>
      BY <1>2, <2>4 DEF Skips, RelayPrimary
    <3>2. out' = out /\ Head(text["primary"]).words = <<>> /\ seen' = seen
      <4>1. out' = out /\ seen' = Noticed(Head(text["primary"]))
        BY <1>2, <2>4 DEF RelayPrimary
      <4>2. Noticed(Head(text["primary"])) = FALSE
        BY <3>1 DEF Noticed
      <4>3. seen = FALSE
        BY <3>1 DEF SourceInv
      <4> QED BY <2>1, <3>1, <4>1, <4>2, <4>3 DEF TextsOf
    <3> QED BY <1>2, <2>2, <2>3, <3>1, <3>2 DEF RelayPrimary, TakeText, Sources
  <2>5. CASE ~Skips(Head(text["primary"]))
    BY <1>2, <2>2, <2>3, <2>5 DEF RelayPrimary, TakeText, PassOn, Sources
  <2> QED BY <2>4, <2>5
<1>3. CASE RelayNotice
  <2>1. /\ TextEvent("notice", <<>>) \in TextEvents /\ TextEvent("notice", <<>>).kind = "notice"
        /\ TextEvent("notice", <<>>).words = <<>>
    BY EmptySeq DEF TextEvent, TextEvents
  <2> QED BY <1>3, <2>1 DEF RelayNotice, PassOn, turn, remote, running, speaking, hearing
<1>4. CASE RelayOpens
  <2>1. /\ TextEvent("err", <<>>) \in TextEvents /\ TextEvent("err", <<>>).kind = "err"
        /\ TextEvent("err", <<>>).words = <<>>
    BY EmptySeq DEF TextEvent, TextEvents
  <2> QED BY <1>4, <2>1 DEF RelayOpens, PassOn, turn, running, speaking, hearing
<1>5. CASE RelayFallback
  <2>1. ~seen
    BY <1>5 DEF RelayFallback, SourceInv
  <2> QED BY <1>5, <2>1 DEF RelayFallback, TakeText, PassOn, Sources, turn, running, speaking, hearing
<1>6. CASE RelayEnds
  BY <1>6 DEF RelayEnds, turn, remote, running, speaking, hearing
<1>7. CASE RelayCancelled
  <2>1. relay = "fallback" => ~seen
    BY DEF SourceInv
  <2> QED BY <1>7, <2>1 DEF RelayCancelled, TakeText, Sources, turn, running, speaking, hearing
<1> QED BY <1>1, <1>2, <1>3, <1>4, <1>5, <1>6, <1>7 DEF RelayStep

\* what one provider and the relay do to the words on their way
LEMMA QuietStays ==
  ASSUME SourceInv, TypeOK, Asked, NEW s \in Sources, Quiet(s), [Next]_vars
  PROVE  /\ Quiet(s)' /\ said'[s] = said[s]
         /\ AllNums(s, text'[s]) \subseteq AllNums(s, text[s])
<1>0. text \in [Sources -> Seq(TextEvents)] /\ provider \in [Sources -> {"off", "open", "done", "closed"}]
  BY AnswerTypes
<1>1. ASSUME NEW r \in Sources, ProviderStep(r)
      PROVE  /\ Quiet(s)' /\ said'[s] = said[s]
             /\ AllNums(s, text'[s]) \subseteq AllNums(s, text[s])
  <2>1. Quiet(s)' /\ provider[s] # "open"
    BY <1>1, ProviderDoes DEF Quiet
  <2>2. CASE text'[s] = text[s] /\ said'[s] = said[s]
    BY <2>1, <2>2
  <2>3. ASSUME NEW e \in TextsOf(s), text'[s] = Append(text[s], e), e.words = <<>>, said'[s] = said[s]
        PROVE  said'[s] = said[s] /\ AllNums(s, text'[s]) \subseteq AllNums(s, text[s])
    <3>1. text[s] \in Seq(TextsOf(s)) /\ Nums(s, e.words) = {}
      BY <2>3, AnswerTypes, EmptyOrder
    <3> QED BY <2>3, <3>1, AppendOrder
  <2> QED BY <1>1, <2>1, <2>2, <2>3, ProviderDoes
<1>2. CASE RelayStep
  <2>1. said' = said
    BY <1>2, RelayDoes
  <2>2. Quiet(s)'
    BY <1>0, <1>2, RelayDoes DEF Quiet, Asked
  <2>3. text'[s] = text[s] \/ (text[s] # <<>> /\ text'[s] = Tail(text[s]))
    BY <1>0, <1>2, RelayDoes
  <2>4. AllNums(s, text'[s]) \subseteq AllNums(s, text[s])
    BY <2>3, AnswerTypes, HeadOrder
  <2> QED BY <2>1, <2>2, <2>4
<1>3. CASE RunnerOpens
  BY <1>0, <1>3 DEF RunnerOpens, Quiet, Asked, Sources
<1>4. CASE UNCHANGED <<provider, text, said>>
  BY <1>4 DEF Quiet
<1>5. CASE RunnerStep
  BY <1>3, <1>4, <1>5 DEF RunnerStep, RunnerHears, RunnerReads, RunnerReadsEnd, RunnerFlushes,
     RunnerSynthesizes, RunnerNoSentence, RunnerTakesChunk, RunnerEmits, RunnerSpoke, RunnerEnds,
     RunnerReports, remote
<1>6. CASE VoiceStep \/ ConsumerStep \/ Cancel \/ Drop \/ Over \/ UNCHANGED vars
  BY <1>4, <1>6 DEF VoiceStep, VoiceSpeaks, VoiceEnds, VoiceBreaks, ConsumerStep, ConsumerAborts,
     ConsumerHears, ConsumerWriteFails, ConsumerEnds, Cancel, Drop, Over, vars, remote
<1> QED BY <1>1, <1>2, <1>5, <1>6 DEF Next

\* who has not been asked is asked last
LEMMA AskedStays ==
  ASSUME SourceInv, TypeOK, Asked, [Next]_vars
  PROVE  Asked'
<1>0. provider \in [Sources -> {"off", "open", "done", "closed"}]
  BY AnswerTypes
<1>1. ASSUME NEW r \in Sources, ProviderStep(r) PROVE Asked'
  <2>1. UNCHANGED <<relay, runner>> /\ provider[r] # "off"
        /\ \A s \in Sources : s # r => provider'[s] = provider[s]
    BY <1>1, ProviderDoes
  <2> QED BY <2>1 DEF Asked, Sources
<1>2. CASE RelayStep
  <2>1. /\ UNCHANGED runner
        /\ provider'["primary"] = provider["primary"]
    BY <1>0, <1>2, RelayDoes DEF Sources
  <2>2. \/ relay' \in {"closed", "fallback"}
        \/ provider' = provider /\ relay \in {"off", "primary", "notice", "open"}
    BY <1>2 DEF RelayStep, RelayHandsOver, RelayPrimary, RelayNotice, RelayOpens, RelayFallback,
       RelayEnds, RelayCancelled, remote
  <2> QED BY <2>1, <2>2 DEF Asked
<1>3. CASE RunnerOpens
  <2>1. relay = "off"
    BY <1>3 DEF RunnerOpens, SourceInv, NotOpened
  <2>2. provider["fallback"] = "off" /\ provider'["fallback"] = "off"
    BY <1>0, <1>3, <2>1 DEF RunnerOpens, Asked, Sources
  <2>3. runner' \in {"read", "report"}
    BY <1>3 DEF RunnerOpens, GoOn, Fails
  <2> QED BY <2>2, <2>3 DEF Asked
<1>4. CASE UNCHANGED <<provider, relay>> /\ (runner' = runner \/ runner' \notin {"asr", "open"} \/ runner = "asr")
  BY <1>4 DEF Asked
<1>5. CASE RunnerStep
  <2>1. runner' = runner \/ runner' \notin {"asr", "open"} \/ runner = "asr"
    BY <1>5 DEF RunnerStep, RunnerHears, RunnerOpens, RunnerReads, RunnerReadsEnd, RunnerFlushes,
       RunnerSynthesizes, RunnerNoSentence, RunnerTakesChunk, RunnerEmits, RunnerSpoke, RunnerEnds,
       RunnerReports, GoOn, Fails, CancelSeen
  <2>2. RunnerOpens \/ UNCHANGED <<provider, relay>>
    BY <1>5 DEF RunnerStep, RunnerHears, RunnerReads, RunnerReadsEnd, RunnerFlushes,
       RunnerSynthesizes, RunnerNoSentence, RunnerTakesChunk, RunnerEmits, RunnerSpoke, RunnerEnds,
       RunnerReports, remote, relaying
  <2> QED BY <1>3, <1>4, <2>1, <2>2
<1>6. CASE VoiceStep \/ ConsumerStep \/ Cancel \/ Drop \/ Over \/ UNCHANGED vars
  BY <1>4, <1>6 DEF VoiceStep, VoiceSpeaks, VoiceEnds, VoiceBreaks, ConsumerStep, ConsumerAborts,
     ConsumerHears, ConsumerWriteFails, ConsumerEnds, Cancel, Drop, Over, vars, remote, relaying, running
<1> QED BY <1>1, <1>2, <1>5, <1>6 DEF Next

\* once the speaker is quiet it stays the speaker, and the relay adds no words
\* that are not in its channel
LEMMA SpeakerStays ==
  ASSUME SourceInv, TypeOK, Asked, Quiet(Speaker), [Next]_vars
  PROVE  /\ Speaker' = Speaker
         /\ AllNums(Speaker, out') \subseteq AllNums(Speaker, out) \cup AllNums(Speaker, text[Speaker])
<1>1. relay = "primary" => Speaker = "primary"
  BY DEF Asked, Quiet, Speaker
<1>2. seen' = seen /\ AllNums(Speaker, out') \subseteq AllNums(Speaker, out) \cup AllNums(Speaker, text[Speaker])
  <2>1. ASSUME NEW r \in Sources, ProviderStep(r) PROVE UNCHANGED <<seen, out>>
    BY <2>1, ProviderDoes
  <2>2. CASE RelayStep
    <3>1. seen' = seen
      BY <1>1, <2>2, RelayDoes
    <3>2. ASSUME NEW e \in TextEvents, e.words = <<>>, out' = Append(out, e)
          PROVE  AllNums(Speaker, out') \subseteq AllNums(Speaker, out)
      <4>1. Nums(Speaker, e.words) = {} /\ out \in Seq(TextEvents)
        BY <3>2, AnswerTypes, EmptyOrder
      <4> QED BY <3>2, <4>1, AppendOrder
    <3>3. ASSUME NEW r \in Sources, relay = r, r = "fallback" => ~seen, text[r] # <<>>,
                 out' = Append(out, Head(text[r]))
          PROVE  AllNums(Speaker, out') \subseteq AllNums(Speaker, out) \cup AllNums(Speaker, text[Speaker])
      <4>1. r = Speaker
        BY <1>1, <3>3 DEF Speaker, Sources
      <4>2. /\ out \in Seq(TextEvents) /\ text[r] \in Seq(TextEvents) /\ Head(text[r]) \in TextEvents
        BY <3>3, AnswerTypes, HeadTailProperties
      <4>3. Nums(Speaker, Head(text[r]).words) \subseteq AllNums(Speaker, text[r])
        BY <3>3, <4>2, HeadOrder
      <4>4. AllNums(Speaker, Append(out, Head(text[r])))
              \subseteq AllNums(Speaker, out) \cup Nums(Speaker, Head(text[r]).words)
        BY <4>2, AppendOrder
      <4> QED BY <3>3, <4>1, <4>3, <4>4
    <3> QED BY <2>2, <3>1, <3>2, <3>3, RelayDoes
  <2>3. CASE RunnerStep
    <3>1. seen' = seen /\ (out' = out \/ (out # <<>> /\ out' = Tail(out)))
      BY <2>3 DEF RunnerStep, RunnerHears, RunnerOpens, RunnerReads, RunnerReadsEnd, RunnerFlushes,
         RunnerSynthesizes, RunnerNoSentence, RunnerTakesChunk, RunnerEmits, RunnerSpoke,
         RunnerEnds, RunnerReports, relaying
    <3>2. AllNums(Speaker, out') \subseteq AllNums(Speaker, out)
      BY <3>1, AnswerTypes, HeadOrder
    <3> QED BY <3>1, <3>2
  <2>4. CASE VoiceStep \/ ConsumerStep \/ Cancel \/ Drop \/ Over \/ UNCHANGED vars
    BY <2>4 DEF VoiceStep, VoiceSpeaks, VoiceEnds, VoiceBreaks, ConsumerStep, ConsumerAborts,
       ConsumerHears, ConsumerWriteFails, ConsumerEnds, Cancel, Drop, Over, vars, relaying
  <2> QED BY <2>1, <2>2, <2>3, <2>4 DEF Next
<1> QED BY <1>2 DEF Speaker

\* what has been broken off stays so
LEMMA LiveBefore ==
  ASSUME SourceInv, TypeOK, [Next]_vars, Live'
  PROVE  Live
<1>1. ~cancelled /\ ~cut
  BY DEF Live, TypeOK, Next, ProviderStep, SayContent, SayReasoning, SayDone, SayError, Close,
     RelayStep, RelayHandsOver, RelayPrimary, RelayNotice, RelayOpens, RelayFallback, RelayEnds,
     RelayCancelled, RunnerStep, RunnerHears, RunnerOpens, RunnerReads, RunnerReadsEnd,
     RunnerFlushes, RunnerSynthesizes, RunnerNoSentence, RunnerTakesChunk, RunnerEmits,
     RunnerSpoke, RunnerEnds, RunnerReports, VoiceStep, VoiceSpeaks, VoiceEnds, VoiceBreaks,
     ConsumerStep, ConsumerAborts, ConsumerHears, ConsumerWriteFails, ConsumerEnds, Cancel, Drop,
     Over, vars, turn, speaking
<1>2. consumer = "read" /\ runner \notin {"report", "off"}
  BY DEF Live, TypeOK, Next, ProviderStep, SayContent, SayReasoning, SayDone, SayError, Close,
     RelayStep, RelayHandsOver, RelayPrimary, RelayNotice, RelayOpens, RelayFallback, RelayEnds,
     RelayCancelled, RunnerStep, RunnerHears, RunnerOpens, RunnerReads, RunnerReadsEnd,
     RunnerFlushes, RunnerSynthesizes, RunnerNoSentence, RunnerTakesChunk, RunnerEmits,
     RunnerSpoke, RunnerEnds, RunnerReports, VoiceStep, VoiceSpeaks, VoiceEnds, VoiceBreaks,
     ConsumerStep, ConsumerAborts, ConsumerHears, ConsumerWriteFails, ConsumerEnds, Cancel, Drop,
     Over, vars, running, hearing
<1> QED BY <1>1, <1>2 DEF Live

\* words that stay on their way are kept
LEMMA KeepsOn ==
  ASSUME NEW s, Kept(s), said'[s] = said[s],
         \A l \in 1..7 : \A m \in Places(s)[l] : \E k \in 1..7 : m \in Places(s)'[k]
  PROVE  Kept(s)'
<1>1. Said(s)' = Said(s)
  BY DEF Said
<1>2. \A m \in Said(s) : \E l \in 1..7 : m \in Places(s)'[l]
  BY DEF Kept
<1> QED BY <1>1, <1>2 DEF Kept

\* as long as nothing breaks the answer off no step loses a word
LEMMA NothingIsLost ==
  ASSUME SourceInv, TypeOK, OrderInv, NothingLost, Sentences, Reported, [Next]_vars
  PROVE  NothingLost'
<1> SUFFICES ASSUME Live', NEW s \in Sources PROVE Kept(s)'
  BY DEF NothingLost
<1>0. Live /\ Kept(s)
  BY LiveBefore DEF NothingLost
<1>1. ~cancelled /\ runner' \notin {"report", "off"} /\ ~cancelled' /\ ~cut' /\ consumer' = "read"
  BY <1>0 DEF Live
<1>2. CASE UNCHANGED <<heard, events, audio, voice, pending, out, text, said>>
  BY <1>0, <1>2, PlacesAre, KeepsOn
<1>3. ASSUME NEW r \in Sources, ProviderStep(r) PROVE Kept(s)'
  <2>1. UNCHANGED <<heard, events, audio, voice, pending, out>>
    BY <1>3, ProviderDoes
  <2>2. CASE text'[s] = text[s] /\ said'[s] = said[s]
    BY <1>0, <2>1, <2>2, PlacesAre, KeepsOn
  <2>3. ASSUME NEW e \in TextsOf(s), text'[s] = Append(text[s], e) PROVE Kept(s)' \/ said'[s] # said[s]
    <3>1. AllNums(s, text[s]) \subseteq AllNums(s, text'[s])
      BY <2>3, AnswerTypes, AppendOrder
    <3> QED BY <1>0, <2>1, <3>1, PlacesAre, KeepsOn
  <2>4. ASSUME NEW e \in TextsOf(s), text'[s] = Append(text[s], e), e.words \in Texts(s),
               said'[s] = said[s] + Len(e.words)
        PROVE  Kept(s)'
    <3>1. AllNums(s, text[s]) \subseteq AllNums(s, text'[s]) /\ Nums(s, e.words) \subseteq AllNums(s, text'[s])
      BY <2>4, AnswerTypes, AppendOrder
    <3>2. /\ \A m \in (said[s] + 1)..(said[s] + Len(e.words)) : m \in Nums(s, e.words)
          /\ Len(e.words) \in Nat /\ said[s] \in Nat
      BY <2>4, AnswerTypes, NextWords
    <3>3. \A m \in Said(s)' : m \in Said(s) \/ m \in (said[s] + 1)..(said[s] + Len(e.words))
      BY <2>4, <3>2 DEF Said
    <3>4. \A m \in Said(s) : \E l \in 1..7 : m \in Places(s)'[l]
      BY <1>0, <2>1, <3>1, PlacesAre DEF Kept
    <3>5. \A m \in Nums(s, e.words) : m \in Places(s)'[7]
      BY <3>1, PlacesAre
    <3> QED BY <3>2, <3>3, <3>4, <3>5 DEF Kept
  <2> QED BY <1>3, <2>2, <2>3, <2>4, ProviderDoes
<1>4. CASE RelayStep
  <2>1. UNCHANGED <<said, heard, events, audio, voice, pending>>
    BY <1>4, RelayDoes
  <2>2. CASE UNCHANGED <<text, out>>
    BY <1>2, <2>1, <2>2
  <2>3. ASSUME UNCHANGED text, NEW e \in TextEvents, out' = Append(out, e) PROVE Kept(s)'
    <3>1. AllNums(s, out) \subseteq AllNums(s, out')
      BY <2>3, AnswerTypes, AppendOrder
    <3> QED BY <1>0, <2>1, <2>3, <3>1, PlacesAre, KeepsOn
  <2>4. ASSUME NEW r \in Sources, text[r] # <<>>, text' = [text EXCEPT ![r] = Tail(@)],
               out' = Append(out, Head(text[r])) \/ (out' = out /\ Head(text[r]).words = <<>>)
        PROVE  Kept(s)'
    <3>1. /\ out \in Seq(TextEvents) /\ text[r] \in Seq(TextEvents) /\ Head(text[r]) \in TextEvents
          /\ text \in [Sources -> Seq(TextEvents)]
      BY <2>4, AnswerTypes, HeadTailProperties
    <3>2. AllNums(s, out) \subseteq AllNums(s, out')
      BY <2>4, <3>1, AppendOrder
    <3>3. Nums(s, Head(text[r]).words) \subseteq AllNums(s, out')
      BY <2>4, <3>1, AppendOrder, EmptyOrder
    <3>4. AllNums(s, text[s]) \subseteq AllNums(s, text'[s]) \cup AllNums(s, out')
      <4>1. CASE r # s
        BY <2>4, <3>1, <4>1
      <4>2. CASE r = s
        <5>1. text'[s] = Tail(text[s]) /\ text[s] # <<>> /\ text[s] \in Seq(TextEvents)
          BY <2>4, <3>1, <4>2
        <5>2. AllNums(s, text[s]) \subseteq Nums(s, Head(text[s]).words) \cup AllNums(s, Tail(text[s]))
          BY <5>1, HeadOrder
        <5> QED BY <3>3, <4>2, <5>1, <5>2
      <4> QED BY <4>1, <4>2
    <3> QED BY <1>0, <2>1, <3>2, <3>4, PlacesAre, KeepsOn
  <2> QED BY <1>1, <1>4, <2>2, <2>3, <2>4, RelayDoes
<1>5. CASE RunnerReads
  <2>1. /\ out # <<>> /\ out' = Tail(out) /\ pending' = pending \o Head(out).words
        /\ UNCHANGED <<heard, events, audio, voice, text, said>>
    BY <1>1, <1>5 DEF RunnerReads, CancelSeen, turn, remote, speaking, hearing
  <2>2. out \in Seq(TextEvents) /\ pending \in Seq(Words) /\ Head(out).words \in Seq(Words)
    <3>1. Head(out) \in TextEvents
      BY <2>1, AnswerTypes, HeadTailProperties
    <3> QED BY <3>1, AnswerTypes DEF TextEvents
  <2>3. /\ AllNums(s, out) \subseteq Nums(s, Head(out).words) \cup AllNums(s, Tail(out))
    BY <2>1, <2>2, HeadOrder
  <2>4. /\ Nums(s, pending) \subseteq Nums(s, pending \o Head(out).words)
        /\ Nums(s, Head(out).words) \subseteq Nums(s, pending \o Head(out).words)
    BY <2>2, ConcatOrder
  <2>5. AllNums(s, out) \subseteq Nums(s, pending') \cup AllNums(s, out') /\ Nums(s, pending) \subseteq Nums(s, pending')
    BY <2>1, <2>3, <2>4
  <2> QED BY <1>0, <2>1, <2>5, PlacesAre, KeepsOn
<1>6. CASE RunnerSynthesizes
  <2>1. PICK i \in NextEnd : pending' = Rest(i) /\ voice' = SubSeq(pending, 1, i) /\ audio' = <<>>
    BY <1>1, <1>6 DEF RunnerSynthesizes, Fails
  <2>2. UNCHANGED <<heard, events, out, text, said>> /\ voice = <<>> /\ audio = <<>>
    BY <1>0, <1>6 DEF RunnerSynthesizes, turn, remote, relaying, hearing, Sentences
  <2>3. pending \in Seq(Words) /\ i \in 1..Len(pending) /\ Rising(s, pending)
    BY <2>1, AnswerTypes, EndInside, OrderParts DEF OrderInv
  <2>4. Nums(s, pending) \subseteq Nums(s, SubSeq(pending, 1, i)) \cup Nums(s, SubSeq(pending, i + 1, Len(pending)))
    BY <2>3, CutOrder
  <2>5. Nums(s, pending) \subseteq Nums(s, voice') \cup Nums(s, pending')
    BY <2>1, <2>4 DEF Rest
  <2> QED BY <1>0, <2>2, <2>5, EmptyOrder, PlacesAre, KeepsOn
<1>7. CASE RunnerEmits
  <2>1. /\ audio # <<>> /\ audio' = Tail(audio) /\ events' = Append(events, AudioEvent(Head(audio).words))
        /\ UNCHANGED <<heard, voice, pending, out, text, said>>
    BY <1>1, <1>7 DEF RunnerEmits, SourceInv, EmitHasChunk, turn, remote, relaying, hearing
  <2>2. /\ audio \in Seq(Chunks) /\ events \in Seq(StreamEvents)
        /\ AudioEvent(Head(audio).words) \in StreamEvents
        /\ AudioEvent(Head(audio).words).words = Head(audio).words
    <3>1. Head(audio) \in Chunks
      BY <2>1, AnswerTypes, HeadTailProperties
    <3> QED BY <3>1, AnswerTypes DEF AudioEvent, StreamEvents, Chunks, Statuses
  <2>3. AllNums(s, audio) \subseteq Nums(s, Head(audio).words) \cup AllNums(s, Tail(audio))
    BY <2>1, <2>2, HeadOrder
  <2>4. /\ AllNums(s, events) \subseteq AllNums(s, events')
        /\ Nums(s, Head(audio).words) \subseteq AllNums(s, events')
    BY <2>1, <2>2, AppendOrder
  <2> QED BY <1>0, <2>1, <2>3, <2>4, PlacesAre, KeepsOn
<1>8. CASE RunnerStep
  <2>1. CASE RunnerTakesChunk
    BY <1>1, <1>2, <2>1 DEF RunnerTakesChunk, Fails, turn, remote, relaying, hearing
  <2>2. CASE RunnerReports
    BY <1>1, <2>2 DEF RunnerReports
  <2> QED
    BY <1>2, <1>5, <1>6, <1>7, <1>8, <2>1, <2>2 DEF RunnerStep, RunnerHears, RunnerOpens,
       RunnerReadsEnd, RunnerFlushes, RunnerNoSentence, RunnerSpoke, RunnerEnds, remote,
       relaying, speaking, hearing
<1>9. CASE VoiceSpeaks
  <2>1. /\ voice # <<>> /\ voice' = Tail(voice) /\ audio' = Append(audio, Chunk(<<Head(voice)>>))
        /\ UNCHANGED <<heard, events, pending, out, text, said>>
    BY <1>9 DEF VoiceSpeaks, turn, remote, relaying, running, hearing
  <2>2. /\ voice \in Seq(Words) /\ audio \in Seq(Chunks) /\ Chunk(<<Head(voice)>>) \in Chunks
        /\ Chunk(<<Head(voice)>>).words = <<Head(voice)>>
    <3>1. voice \in Seq(Words) /\ audio \in Seq(Chunks) /\ Head(voice) \in Words
      BY <2>1, AnswerTypes, HeadTailProperties
    <3> QED BY <3>1 DEF Chunk, Chunks
  <2>5. Rising(s, voice)
    BY OrderParts DEF OrderInv
  <2>3. Nums(s, voice) \subseteq Nums(s, <<Head(voice)>>) \cup Nums(s, Tail(voice))
    BY <2>1, <2>2, <2>5, WordOrder
  <2>4. /\ AllNums(s, audio) \subseteq AllNums(s, audio')
        /\ Nums(s, <<Head(voice)>>) \subseteq AllNums(s, audio')
    BY <2>1, <2>2, AppendOrder
  <2> QED BY <1>0, <2>1, <2>3, <2>4, PlacesAre, KeepsOn
<1>10. CASE VoiceBreaks
  <2>1. /\ audio' = audio \/ audio' = Append(audio, ChunkErr)
        /\ UNCHANGED <<heard, events, voice, pending, out, text, said>>
    BY <1>10 DEF VoiceBreaks, remote, relaying, running, hearing
  <2>2. ChunkErr \in Chunks
    BY EmptySeq DEF ChunkErr, Chunks
  <2>3. AllNums(s, audio) \subseteq AllNums(s, audio')
    BY <2>1, <2>2, AnswerTypes, AppendOrder
  <2> QED BY <1>0, <2>1, <2>3, PlacesAre, KeepsOn
<1>11. CASE ConsumerHears
  <2>1. /\ events # <<>> /\ events' = Tail(events)
        /\ UNCHANGED <<audio, voice, pending, out, text, said>>
    BY <1>11 DEF ConsumerHears, remote, relaying, running, speaking
  <2>2. Head(events) \in StreamEvents /\ heard \in Seq(Words) /\ events \in Seq(StreamEvents)
    BY <2>1, AnswerTypes, HeadTailProperties
  <2>3. heard' = heard \o Head(events).words
    <3>1. Head(events).kind # "done"
      <4>1. 1 \in DOMAIN events /\ Head(events) = events[1]
        BY <2>1, <2>2, LenProperties, HeadTailProperties, EmptySeq
      <4> QED BY <1>0, <4>1 DEF Reported, Live
    <3> QED BY <1>11, <2>2, <3>1 DEF ConsumerHears, StreamEvents
  <2>4. Head(events).words \in Seq(Words)
    BY <2>2 DEF StreamEvents
  <2>5. AllNums(s, events) \subseteq Nums(s, Head(events).words) \cup AllNums(s, Tail(events))
    BY <2>1, <2>2, HeadOrder
  <2>6. /\ Nums(s, heard) \subseteq Nums(s, heard')
        /\ Nums(s, Head(events).words) \subseteq Nums(s, heard')
    BY <2>2, <2>3, <2>4, ConcatOrder
  <2> QED BY <1>0, <2>1, <2>5, <2>6, PlacesAre, KeepsOn
<1>12. CASE ConsumerAborts \/ ConsumerWriteFails \/ ConsumerEnds
  BY <1>1, <1>12 DEF ConsumerAborts, ConsumerWriteFails, ConsumerEnds, Verdict
<1>13. CASE VoiceEnds \/ Cancel \/ Drop \/ Over \/ UNCHANGED vars
  BY <1>2, <1>13 DEF VoiceEnds, Cancel, Drop, Over, vars, remote, relaying, running, speaking, hearing
<1> QED
  BY <1>3, <1>4, <1>8, <1>9, <1>10, <1>11, <1>12, <1>13 DEF Next, VoiceStep, ConsumerStep

\* a sentence that is over is said in full, breaks the answer off, or ends with an error
LEMMA SentencesStay ==
  ASSUME SourceInv, TypeOK, Sentences, [Next]_vars
  PROVE  Sentences'
<1>0. /\ audio \in Seq(Chunks) /\ EmitHasChunk
      /\ Live' => Live /\ ~cancelled /\ runner' \notin {"report", "off"} /\ ~cut'
  BY AnswerTypes, LiveBefore DEF SourceInv, Live
<1>1. CASE UNCHANGED <<runner, tts, voice, audio>>
  BY <1>0, <1>1 DEF Sentences, Has
<1>2. CASE \/ Cancel \/ Drop \/ Over \/ UNCHANGED vars \/ ConsumerStep \/ RelayStep
           \/ \E s \in Sources : ProviderStep(s)
  <2>1. RelayStep \/ (\E s \in Sources : ProviderStep(s)) => UNCHANGED <<runner, tts, voice, audio>>
    BY RelayDoes, ProviderDoes
  <2> QED
    BY <1>1, <1>2, <2>1 DEF Cancel, Drop, Over, vars, ConsumerStep, ConsumerAborts, ConsumerHears,
       ConsumerWriteFails, ConsumerEnds, running, speaking
<1>3. CASE RunnerTakesChunk
  <2>1. /\ UNCHANGED <<tts, voice>> /\ runner = "speak"
        /\ \/ runner' = "report"
           \/ runner' = "emit" /\ audio' = audio /\ Head(audio).kind # "err"
           \/ cancelled /\ runner' = "cut"
    BY <1>3 DEF RunnerTakesChunk, Fails, GoOn
  <2> QED BY <1>0, <2>1 DEF Sentences, Has
<1>4. CASE RunnerEmits
  <2>1. /\ UNCHANGED <<tts, voice>> /\ runner = "emit" /\ audio' = Tail(audio) /\ audio # <<>>
        /\ runner' = "speak" \/ (cancelled /\ runner' = "cut")
    BY <1>0, <1>4 DEF RunnerEmits, GoOn, EmitHasChunk
  <2>2. Head(audio).kind # "err"
    BY <2>1 DEF Sentences
  <2>3. Has(audio, "err") => Has(audio', "err")
    BY <1>0, <2>1, <2>2, TailKinds
  <2> QED BY <1>0, <2>1, <2>3 DEF Sentences
<1>5. CASE RunnerSynthesizes
  <2>1. runner' = "report" \/ (runner' = "speak" /\ tts' = "open")
    BY <1>5 DEF RunnerSynthesizes, Fails, GoOn
  <2> QED BY <1>0, <2>1 DEF Sentences
<1>6. CASE RunnerSpoke
  <2>1. /\ runner' = "cut" /\ tts = "closed" /\ audio = <<>> /\ UNCHANGED <<tts, voice, audio>>
    BY <1>6 DEF RunnerSpoke, GoOn, speaking
  <2>2. ~Has(audio, "err")
    BY <2>1 DEF Has
  <2> QED BY <1>0, <2>1, <2>2 DEF Sentences
<1>7. CASE runner \notin {"speak", "emit"} /\ runner' # "emit" /\ UNCHANGED <<tts, voice, audio>>
  BY <1>0, <1>7 DEF Sentences, Has
<1>8. CASE RunnerStep
  <2>1. CASE RunnerReads
    BY <1>7, <2>1 DEF RunnerReads, speaking, GoOn, Fails, CancelSeen
  <2>2. CASE RunnerHears \/ RunnerOpens \/ RunnerReadsEnd \/ RunnerFlushes \/ RunnerNoSentence
             \/ RunnerEnds \/ RunnerReports
    BY <1>7, <2>2 DEF RunnerHears, RunnerOpens, RunnerReadsEnd, RunnerFlushes, RunnerNoSentence,
       RunnerEnds, RunnerReports, speaking, GoOn, Fails, CancelSeen
  <2> QED BY <1>3, <1>4, <1>5, <1>6, <1>8, <2>1, <2>2 DEF RunnerStep
<1>9. CASE VoiceStep
  <2>0. runner' = runner /\ tts = "open"
    BY <1>9 DEF VoiceStep, VoiceSpeaks, VoiceEnds, VoiceBreaks, running
  <2>1. Live' => runner' \in {"speak", "emit"}
    BY <1>0, <2>0 DEF Sentences
  <2>2. runner' = "emit" => Head(audio').kind # "err"
    <3>1. audio' = audio \/ \E e \in Chunks : audio' = Append(audio, e)
      <4>1. ChunkErr \in Chunks
        BY EmptySeq DEF ChunkErr, Chunks
      <4>2. voice # <<>> => Chunk(<<Head(voice)>>) \in Chunks
        <5>1. voice # <<>> => Head(voice) \in Words
          BY AnswerTypes, HeadTailProperties
        <5> QED BY <5>1 DEF Chunk, Chunks
      <4> QED BY <1>9, <4>1, <4>2 DEF VoiceStep, VoiceSpeaks, VoiceEnds, VoiceBreaks
    <3>2. runner = "emit" => audio # <<>> /\ Head(audio).kind # "err"
      BY <1>0 DEF Sentences, EmitHasChunk
    <3> QED BY <1>0, <2>0, <3>1, <3>2, AppendKinds
  <2>3. Live' /\ tts' = "closed" => voice' = <<>> \/ Has(audio', "err")
    <3>1. CASE VoiceSpeaks
      BY <3>1 DEF VoiceSpeaks
    <3>2. CASE VoiceEnds
      BY <3>2 DEF VoiceEnds
    <3>3. CASE VoiceBreaks
      <4>1. ChunkErr \in Chunks /\ ChunkErr.kind = "err"
        BY EmptySeq DEF ChunkErr, Chunks
      <4>2. cut' = TRUE \/ audio' = Append(audio, ChunkErr)
        BY <3>3 DEF VoiceBreaks
      <4> QED BY <1>0, <4>1, <4>2, AppendKinds
    <3> QED BY <1>9, <3>1, <3>2, <3>3 DEF VoiceStep
  <2> QED BY <2>1, <2>2, <2>3 DEF Sentences
<1> QED BY <1>2, <1>8, <1>9 DEF Next

\* a done stays the last of its provider, on either side of the relay
LEMMA DonesStay ==
  ASSUME SourceInv, TypeOK, Dones, Asked, [Next]_vars
  PROVE  Dones'
<1>0. /\ out \in Seq(TextEvents) /\ Speaker \in Sources
      /\ text \in [Sources -> Seq(TextEvents)]
      /\ \A s \in Sources : text[s] \in Seq(TextEvents) /\ text[s] \in Seq(TextsOf(s))
      /\ provider \in [Sources -> {"off", "open", "done", "closed"}]
  BY AnswerTypes
<1>1. \A s \in Sources : Quiet(s) => Quiet(s)'
  BY QuietStays
<1>2. Has(out, "done") => Quiet(Speaker) /\ Speaker' = Speaker /\ Quiet(Speaker)'
                            /\ AllNums(Speaker, text'[Speaker]) = {}
  BY <1>0, QuietStays, SpeakerStays DEF Dones
<1>3. ASSUME UNCHANGED <<text, out>> PROVE Dones'
  BY <1>1, <1>2, <1>3 DEF Dones
<1>4. ASSUME NEW r \in Sources, ProviderStep(r) PROVE Dones'
  <2>1. out' = out
    BY <1>4, ProviderDoes
  <2>2. ASSUME NEW s \in Sources PROVE DoneLast(text'[s]) /\ (Has(text'[s], "done") => Quiet(s)')
    <3>1. CASE text'[s] = text[s]
      BY <1>1, <3>1 DEF Dones
    <3>2. ASSUME NEW e \in TextsOf(s), text'[s] = Append(text[s], e), e.kind = "done" => Quiet(s)',
                 e.words = <<>> \/ provider[s] = "open"
          PROVE  DoneLast(text'[s]) /\ (Has(text'[s], "done") => Quiet(s)')
      <4>1. Has(text[s], "done") => e.words = <<>>
        BY <3>2 DEF Dones, Quiet
      <4>2. DoneLast(text'[s]) /\ (Has(text'[s], "done") <=> Has(text[s], "done") \/ e.kind = "done")
        BY <1>0, <3>2, <4>1, AppendKinds DEF Dones
      <4> QED BY <1>1, <3>2, <4>2 DEF Dones
    <3> QED BY <1>4, <3>1, <3>2, ProviderDoes
  <2> QED BY <1>2, <2>1, <2>2 DEF Dones
<1>5. CASE RelayStep
  <2>1. ASSUME UNCHANGED text, NEW e \in TextEvents, e.kind \in {"notice", "err"}, e.words = <<>>,
               out' = Append(out, e)
        PROVE  Dones'
    <3>1. DoneLast(out') /\ (Has(out', "done") => Has(out, "done"))
      BY <1>0, <2>1, AppendKinds DEF Dones
    <3> QED BY <1>1, <1>2, <2>1, <3>1 DEF Dones
  <2>2. ASSUME NEW r \in Sources, relay = r, r = "fallback" => ~seen /\ ~seen',
               text[r] # <<>>, text' = [text EXCEPT ![r] = Tail(@)],
               \/ /\ out' = Append(out, Head(text[r]))
                  /\ r = "primary" => seen' = Noticed(Head(text[r])) /\ ~NoContent(Head(text[r]))
               \/ out' = out
        PROVE  Dones'
    <3> DEFINE e == Head(text[r])
    <3>1. e \in TextEvents /\ e \in TextsOf(r) /\ text'[r] = Tail(text[r])
      BY <1>0, <2>2, HeadTailProperties
    <3>2. \A s \in Sources : s # r => text'[s] = text[s]
      BY <1>0, <2>2
    <3>3. /\ DoneLast(text'[r]) /\ (Has(text'[r], "done") => Has(text[r], "done"))
          /\ e.kind = "done" => /\ Has(text[r], "done")
                                /\ \A i \in DOMAIN text'[r] : text'[r][i].words = <<>>
      <4>1. text[r] \in Seq(TextEvents) /\ DoneLast(text[r]) /\ text[r] # <<>>
        BY <1>0, <2>2 DEF Dones
      <4> QED BY <3>1, <4>1, TailKinds
    <3>4. \A s \in Sources : DoneLast(text'[s]) /\ (Has(text'[s], "done") => Quiet(s)')
      BY <1>1, <3>2, <3>3 DEF Dones
    <3> HIDE DEF e
    <3>5. CASE out' = out
      BY <1>2, <3>4, <3>5 DEF Dones
    <3>6. CASE /\ out' = Append(out, e)
               /\ r = "primary" => seen' = Noticed(e) /\ ~NoContent(e)
      <4>1. Has(out, "done") => e.words = <<>>
        <5> SUFFICES ASSUME Has(out, "done") PROVE e.words = <<>>
          OBVIOUS
        <5>1. r = Speaker
          <6>1. Quiet(Speaker)
            BY <1>2
          <6> QED BY <2>2, <6>1 DEF Asked, Quiet, Speaker, Sources
        <5>2. AllNums(r, text[r]) = {} /\ Nums(r, e.words) \subseteq AllNums(r, text[r])
          BY <1>0, <2>2, <5>1, HeadOrder DEF Dones, e
        <5> QED BY <3>1, <5>2, Silence DEF TextsOf
      <4>2. DoneLast(out') /\ (Has(out', "done") <=> Has(out, "done") \/ e.kind = "done")
        BY <1>0, <3>1, <3>6, <4>1, AppendKinds DEF Dones
      <4>3. ASSUME e.kind = "done"
            PROVE  Speaker' = r /\ Quiet(r)' /\ AllNums(r, text'[r]) = {}
        <5>1. Speaker' = r
          <6>1. CASE r = "primary"
            BY <3>6, <4>3, <6>1 DEF NoContent, Noticed, Speaker
          <6>2. CASE r = "fallback"
            BY <2>2, <6>2 DEF Speaker
          <6> QED BY <6>1, <6>2 DEF Sources
        <5>2. Quiet(r)'
          BY <1>1, <3>3, <4>3 DEF Dones
        <5>3. AllNums(r, text'[r]) = {}
          BY <3>3, <4>3, Silence
        <5> QED BY <5>1, <5>2, <5>3
      <4>4. Has(out', "done") => Quiet(Speaker)' /\ AllNums(Speaker', text'[Speaker']) = {}
        BY <1>2, <4>2, <4>3
      <4> QED BY <3>4, <4>2, <4>4 DEF Dones
    <3> QED BY <2>2, <3>5, <3>6 DEF e
  <2> QED BY <1>3, <1>5, <2>1, <2>2, RelayDoes
<1>6. CASE RunnerReads
  <2>1. out # <<>> /\ out' = Tail(out) /\ text' = text
    BY <1>6 DEF RunnerReads, remote
  <2>2. DoneLast(out') /\ (Has(out', "done") => Has(out, "done"))
    BY <1>0, <2>1, TailKinds DEF Dones
  <2> QED BY <1>1, <1>2, <2>1, <2>2 DEF Dones
<1>7. CASE RunnerStep
  BY <1>3, <1>6, <1>7 DEF RunnerStep, RunnerHears, RunnerOpens, RunnerReadsEnd, RunnerFlushes,
     RunnerSynthesizes, RunnerNoSentence, RunnerTakesChunk, RunnerEmits, RunnerSpoke, RunnerEnds,
     RunnerReports, remote, relaying
<1>8. CASE VoiceStep \/ ConsumerStep \/ Cancel \/ Drop \/ Over \/ UNCHANGED vars
  BY <1>3, <1>8 DEF VoiceStep, VoiceSpeaks, VoiceEnds, VoiceBreaks, ConsumerStep, ConsumerAborts,
     ConsumerHears, ConsumerWriteFails, ConsumerEnds, Cancel, Drop, Over, vars, remote, relaying
<1> QED BY <1>4, <1>5, <1>7, <1>8 DEF Next

\* the relay closes its channel once all is said, after an error, or cancelled
LEMMA RelayEndsSaid ==
  ASSUME SourceInv, TypeOK, RelayEnded, [Next]_vars
  PROVE  RelayEnded'
<1>0. /\ out \in Seq(TextEvents) /\ Speaker \in Sources
      /\ text \in [Sources -> Seq(TextEvents)]
      /\ provider \in [Sources -> {"off", "open", "done", "closed"}]
  BY AnswerTypes
<1>1. CASE UNCHANGED <<relay, runner, seen, out, provider, text>> /\ (cancelled => cancelled')
  BY <1>1 DEF RelayEnded, Ended, Speaker, TypeOK
<1>2. ASSUME NEW r \in Sources, ProviderStep(r) PROVE RelayEnded'
  <2>1. UNCHANGED <<cancelled, relay, seen, out, runner>> /\ provider[r] # "closed"
    BY <1>2, ProviderDoes
  <2>2. Ended(Speaker) => provider'[Speaker] = "closed" /\ text'[Speaker] = <<>>
    <3>1. Ended(Speaker) => Speaker # r
      BY <2>1 DEF Ended
    <3> QED BY <1>0, <1>2, <3>1, ProviderDoes DEF Ended
  <2>3. Speaker' = Speaker
    BY <2>1 DEF Speaker
  <2> QED BY <2>1, <2>2, <2>3 DEF RelayEnded, Ended
<1>3. CASE RelayStep
  <2>0. UNCHANGED <<cancelled, runner>> /\ relay # "closed"
    BY <1>3, RelayDoes DEF RelayStep, RelayHandsOver, RelayPrimary, RelayNotice, RelayOpens,
       RelayFallback, RelayEnds, RelayCancelled
  <2>1. ASSUME NEW e \in TextEvents, e.kind = "err", out' = Append(out, e) PROVE Has(out', "err")
    BY <1>0, <2>1, AppendKinds
  <2>2. CASE RelayPrimary
    <3>1. text["primary"] # <<>> /\ text["primary"] \in Seq(TextEvents)
      BY <1>0, <2>2 DEF RelayPrimary, Sources
    <3>2. Head(text["primary"]) \in TextEvents
      BY <3>1, HeadTailProperties
    <3>3. relay' = "closed" => Head(text["primary"]).kind = "err" /\ out' = Append(out, Head(text["primary"]))
      BY <2>0, <2>2 DEF RelayPrimary, Skips, PassOn
    <3> QED BY <2>1, <3>2, <3>3 DEF RelayEnded
  <2>3. CASE RelayOpens
    <3>1. TextEvent("err", <<>>) \in TextEvents /\ TextEvent("err", <<>>).kind = "err"
      BY EmptySeq DEF TextEvent, TextEvents
    <3>2. relay' = "closed" => out' = Append(out, TextEvent("err", <<>>))
      BY <2>3 DEF RelayOpens, PassOn
    <3> QED BY <2>1, <3>1, <3>2 DEF RelayEnded
  <2>4. CASE RelayEnds
    <3>1. Ended(Speaker)
      BY <2>4 DEF RelayEnds, Speaker, SourceInv
    <3>2. UNCHANGED <<seen, provider, text>>
      BY <2>4 DEF RelayEnds, remote
    <3> QED BY <3>1, <3>2 DEF RelayEnded, Ended, Speaker
  <2>5. CASE RelayCancelled
    BY <2>0, <2>5 DEF RelayCancelled, RelayEnded
  <2>6. CASE RelayHandsOver \/ RelayNotice \/ RelayFallback
    BY <2>0, <2>6 DEF RelayHandsOver, RelayNotice, RelayFallback, RelayEnded
  <2> QED BY <1>3, <2>2, <2>3, <2>4, <2>5, <2>6 DEF RelayStep
<1>4. CASE RunnerReads
  <2>1. /\ out # <<>> /\ out' = Tail(out) /\ runner = "read"
        /\ UNCHANGED <<cancelled, relay, seen, provider, text>>
        /\ runner' = "report" \/ Head(out).kind # "err"
    BY <1>4 DEF RunnerReads, CancelSeen, Fails, turn, remote
  <2>2. Has(out, "err") => Has(out', "err") \/ Head(out).kind = "err"
    BY <1>0, <2>1, TailKinds
  <2> QED BY <2>1, <2>2 DEF RelayEnded, Ended, Speaker
<1>5. CASE RunnerOpens
  <2>1. runner' = "report" \/ relay' \in {"primary", "notice"}
    BY <1>5 DEF RunnerOpens, Fails
  <2> QED BY <2>1 DEF RelayEnded
<1>6. CASE RunnerStep
  <2>1. RunnerReads \/ RunnerOpens \/ UNCHANGED <<cancelled, relay, seen, out, provider, text>>
    BY <1>6 DEF RunnerStep, RunnerHears, RunnerReadsEnd, RunnerFlushes, RunnerSynthesizes,
       RunnerNoSentence, RunnerTakesChunk, RunnerEmits, RunnerSpoke, RunnerEnds, RunnerReports,
       turn, remote, relaying
  <2>2. runner # "off" /\ (runner = "report" => runner' = "off")
    BY <1>6 DEF RunnerStep, RunnerHears, RunnerOpens, RunnerReads, RunnerReadsEnd, RunnerFlushes,
       RunnerSynthesizes, RunnerNoSentence, RunnerTakesChunk, RunnerEmits, RunnerSpoke,
       RunnerEnds, RunnerReports
  <2>3. CASE UNCHANGED <<cancelled, relay, seen, out, provider, text>>
    BY <2>2, <2>3 DEF RelayEnded, Ended, Speaker
  <2> QED BY <1>4, <1>5, <2>1, <2>3
<1>7. CASE VoiceStep \/ ConsumerStep \/ Cancel \/ Drop \/ Over \/ UNCHANGED vars
  BY <1>1, <1>7 DEF VoiceStep, VoiceSpeaks, VoiceEnds, VoiceBreaks, ConsumerStep, ConsumerAborts,
     ConsumerHears, ConsumerWriteFails, ConsumerEnds, Cancel, Drop, Over, vars, turn, remote,
     relaying, running
<1> QED BY <1>2, <1>3, <1>6, <1>7 DEF Next

\* the runner stops reading once everything said has reached it
LEMMA FlushedStays ==
  ASSUME SourceInv, TypeOK, Dones, Asked, RelayEnded, Flushed, [Next]_vars
  PROVE  Flushed'
<1> DEFINE Stopped == runner \in {"tail", "end"} \/ flushing
           Empty == /\ Quiet(Speaker)
                    /\ AllNums(Speaker, out) = {} /\ AllNums(Speaker, text[Speaker]) = {}
<1> SUFFICES ASSUME Live'
             PROVE  (Stopped' => Empty') /\ (runner' = "end" => pending' = <<>>)
  BY DEF Flushed
<1>0. /\ out \in Seq(TextEvents) /\ Speaker \in Sources
      /\ Live /\ ~cancelled /\ runner' # "report"
  BY AnswerTypes, LiveBefore DEF Live
<1>1. ASSUME Quiet(Speaker), AllNums(Speaker, out') = {}, AllNums(Speaker, text[Speaker]) = {}
      PROVE  Empty'
  <2>1. Speaker' = Speaker /\ Quiet(Speaker)' /\ AllNums(Speaker, text'[Speaker]) = {}
    BY <1>0, <1>1, SpeakerStays, QuietStays
  <2> QED BY <1>1, <2>1
<1>2. ASSUME Stopped PROVE Empty'
  <2>1. Empty
    BY <1>0, <1>2 DEF Flushed
  <2>2. AllNums(Speaker, out') = {}
    BY <2>1, SpeakerStays
  <2> QED BY <1>1, <2>1, <2>2
<1>3. ASSUME RunnerReads, runner' = "tail" PROVE Empty'
  <2>1. out # <<>> /\ out' = Tail(out) /\ Head(out).kind = "done"
    BY <1>0, <1>3 DEF RunnerReads, CancelSeen, Fails, GoOn
  <2>2. Has(out, "done") /\ \A i \in DOMAIN out' : out'[i].words = <<>>
    BY <1>0, <2>1, TailKinds DEF Dones
  <2>3. Quiet(Speaker) /\ AllNums(Speaker, text[Speaker]) = {} /\ AllNums(Speaker, out') = {}
    BY <2>2, Silence DEF Dones
  <2> QED BY <1>1, <2>3
<1>4. ASSUME RunnerReadsEnd PROVE Empty'
  <2>1. relay = "closed" /\ runner = "read" /\ out = <<>> /\ out' = <<>>
    BY <1>4 DEF RunnerReadsEnd, relaying
  <2>2. ~Has(out, "err")
    BY <2>1 DEF Has
  <2>3. Ended(Speaker)
    BY <1>0, <2>1, <2>2 DEF RelayEnded
  <2>4. Quiet(Speaker) /\ AllNums(Speaker, text[Speaker]) = {} /\ AllNums(Speaker, out') = {}
    BY <2>1, <2>3, EmptyOrder DEF Ended, Quiet
  <2> QED BY <1>1, <2>4
<1>5. Stopped' => Stopped \/ RunnerReadsEnd \/ (RunnerReads /\ runner' = "tail")
  <2>1. CASE RunnerStep
    BY <2>1 DEF RunnerStep, RunnerHears, RunnerOpens, RunnerReads, RunnerReadsEnd, RunnerFlushes,
       RunnerSynthesizes, RunnerNoSentence, RunnerTakesChunk, RunnerEmits, RunnerSpoke, RunnerEnds,
       RunnerReports, GoOn, Fails, CancelSeen
  <2>2. UNCHANGED <<runner, flushing>> \/ RunnerStep
    <3>1. RelayStep \/ (\E s \in Sources : ProviderStep(s)) => UNCHANGED <<runner, flushing>>
      BY RelayDoes, ProviderDoes
    <3> QED
      BY <3>1 DEF Next, VoiceStep, VoiceSpeaks, VoiceEnds, VoiceBreaks, ConsumerStep,
         ConsumerAborts, ConsumerHears, ConsumerWriteFails, ConsumerEnds, Cancel, Drop, Over,
         vars, running
  <2> QED BY <2>1, <2>2
<1>6. runner' = "end" => pending' = <<>>
  <2> SUFFICES ASSUME runner' = "end" PROVE pending' = <<>>
    OBVIOUS
  <2>1. CASE UNCHANGED <<runner, pending>>
    BY <1>0, <2>1 DEF Flushed
  <2>2. CASE RunnerNoSentence
    <3>1. pending \in Seq(Words) /\ flushing /\ NextEnd = {} /\ pending' = pending
      BY <2>2, AnswerTypes DEF RunnerNoSentence, GoOn
    <3> QED BY <3>1, NoEndIsEmpty
  <2>3. UNCHANGED <<runner, pending>> \/ RunnerStep
    <3>1. RelayStep \/ (\E s \in Sources : ProviderStep(s)) => UNCHANGED <<runner, pending>>
      BY RelayDoes, ProviderDoes
    <3> QED
      BY <3>1 DEF Next, VoiceStep, VoiceSpeaks, VoiceEnds, VoiceBreaks, ConsumerStep,
         ConsumerAborts, ConsumerHears, ConsumerWriteFails, ConsumerEnds, Cancel, Drop, Over,
         vars, running
  <2>4. RunnerStep => RunnerNoSentence
    BY DEF RunnerStep, RunnerHears, RunnerOpens, RunnerReads, RunnerReadsEnd, RunnerFlushes,
       RunnerSynthesizes, RunnerNoSentence, RunnerTakesChunk, RunnerEmits, RunnerSpoke, RunnerEnds,
       RunnerReports, GoOn, Fails, CancelSeen
  <2> QED BY <2>1, <2>2, <2>3, <2>4
<1> QED BY <1>2, <1>3, <1>4, <1>5, <1>6

\* only the report of a completed run says so, and it has no words
LEMMA ReportedStays ==
  ASSUME SourceInv, TypeOK, Reported, [Next]_vars
  PROVE  Reported'
<1>0. events \in Seq(StreamEvents) /\ audio \in Seq(Chunks)
  BY AnswerTypes
<1>1. ASSUME UNCHANGED <<events, final>>, runner = "off" => runner' = "off" /\ status' = status
      PROVE  Reported'
  BY <1>1 DEF Reported
<1>2. ASSUME runner = "off" => runner' = "off" /\ status' = status, UNCHANGED final,
             NEW e \in StreamEvents, events' = Append(events, e),
             e.kind = "done" => runner' = "off" /\ e.words = <<>>,
             e.status = "completed" => runner' = "off" /\ status' = "completed"
      PROVE  Reported'
  <2>1. /\ DOMAIN events' = 1..(Len(events) + 1) /\ DOMAIN events = 1..Len(events) /\ Len(events) \in Nat
        /\ \A i \in 1..Len(events) : events'[i] = events[i]
        /\ events'[Len(events) + 1] = e
    BY <1>0, <1>2, LenProperties, AppendProperties
  <2>2. \A i \in DOMAIN events' : (i \in DOMAIN events /\ events'[i] = events[i]) \/ events'[i] = e
    BY <2>1
  <2> QED BY <1>2, <2>2 DEF Reported
<1>3. ASSUME runner' = runner, status' = status, events # <<>>, events' = Tail(events),
             final' \in {final, Head(events)}
      PROVE  Reported'
  <2>1. /\ Len(events) \in Nat /\ Len(events) >= 1 /\ DOMAIN events = 1..Len(events)
        /\ events' \in Seq(StreamEvents) /\ Len(events') = Len(events) - 1
        /\ Head(events) = events[1] /\ \A i \in 1..Len(events') : events'[i] = events[i + 1]
    BY <1>0, <1>3, LenProperties, HeadTailProperties, EmptySeq
  <2>2. DOMAIN events' = 1..(Len(events) - 1)
    BY <2>1, LenProperties
  <2>3. \A i \in DOMAIN events' : i + 1 \in DOMAIN events /\ events'[i] = events[i + 1]
    BY <2>1, <2>2
  <2>4. 1 \in DOMAIN events
    BY <2>1
  <2>5. final'.status = "completed" => runner = "off" /\ status = "completed"
    BY <1>3, <2>1, <2>4 DEF Reported
  <2> QED BY <1>3, <2>3, <2>5 DEF Reported
<1>4. CASE RelayStep \/ \E s \in Sources : ProviderStep(s)
  <2>1. UNCHANGED <<events, final, runner, status>>
    BY <1>4, RelayDoes, ProviderDoes
  <2> QED BY <1>1, <2>1
<1>5. CASE RunnerEmits
  <2>1. Head(audio) \in Chunks
    BY <1>0, <1>5, HeadTailProperties DEF SourceInv, EmitHasChunk, RunnerEmits
  <2>2. /\ AudioEvent(Head(audio).words) \in StreamEvents
        /\ AudioEvent(Head(audio).words).kind = "audio" /\ AudioEvent(Head(audio).words).status = "none"
    BY <2>1 DEF AudioEvent, StreamEvents, Chunks, Statuses
  <2>3. /\ runner = "emit" /\ UNCHANGED final
        /\ events' = events \/ events' = Append(events, AudioEvent(Head(audio).words))
    BY <1>5 DEF RunnerEmits, hearing
  <2> QED BY <1>1, <1>2, <2>2, <2>3
<1>6. CASE RunnerReports
  <2>1. /\ DoneEvent(status, err) \in StreamEvents /\ DoneEvent(status, err).words = <<>>
        /\ DoneEvent(status, err).status = status
    BY EmptySeq DEF DoneEvent, StreamEvents, TypeOK
  <2>2. /\ runner = "report" /\ runner' = "off" /\ UNCHANGED <<final, status>>
        /\ events' = events \/ events' = Append(events, DoneEvent(status, err))
    BY <1>6 DEF RunnerReports, hearing
  <2> QED BY <1>1, <1>2, <2>1, <2>2
<1>7. CASE RunnerStep
  <2>1. RunnerEmits \/ RunnerReports \/ (UNCHANGED <<events, final>> /\ runner # "off")
    BY <1>7 DEF RunnerStep, RunnerHears, RunnerOpens, RunnerReads, RunnerReadsEnd, RunnerFlushes,
       RunnerSynthesizes, RunnerNoSentence, RunnerTakesChunk, RunnerSpoke, RunnerEnds, hearing
  <2> QED BY <1>1, <1>5, <1>6, <2>1
<1>8. CASE ConsumerAborts \/ ConsumerHears \/ ConsumerWriteFails
  BY <1>3, <1>8 DEF ConsumerAborts, ConsumerHears, ConsumerWriteFails, running
<1>9. CASE VoiceStep \/ ConsumerEnds \/ Cancel \/ Drop \/ Over \/ UNCHANGED vars
  BY <1>1, <1>9 DEF VoiceStep, VoiceSpeaks, VoiceEnds, VoiceBreaks, ConsumerEnds, Cancel, Drop,
     Over, vars, running, hearing
<1> QED BY <1>4, <1>7, <1>8, <1>9 DEF Next, ConsumerStep

\* when a run that nothing broke off ends, all that was said has been passed on
LEMMA EndIsDelivered ==
  ASSUME SourceInv, NothingLost, Sentences, Flushed, Live, runner = "end"
  PROVE  Quiet(Speaker) /\ Said(Speaker) \subseteq Nums(Speaker, heard) \cup AllNums(Speaker, events)
<1>1. audio = <<>> /\ voice = <<>> /\ pending = <<>>
  BY DEF Sentences, Flushed
<1>2. /\ Quiet(Speaker)
      /\ AllNums(Speaker, out) = {} /\ AllNums(Speaker, text[Speaker]) = {}
  BY DEF Flushed
<1>3. Kept(Speaker)
  BY DEF NothingLost, Speaker, Sources
<1>4. \A l \in 3..7 : Places(Speaker)[l] = {}
  BY <1>1, <1>2, EmptyOrder, PlacesAre
<1>5. ASSUME NEW m \in Said(Speaker) PROVE m \in Nums(Speaker, heard) \cup AllNums(Speaker, events)
  <2>1. PICK l \in 1..7 : m \in Places(Speaker)[l]
    BY <1>3 DEF Kept
  <2>2. l = 1 \/ l = 2
    BY <1>4, <2>1
  <2> QED BY <2>1, <2>2, PlacesAre
<1> QED BY <1>2, <1>5

\* after its end the words of a completed run only move from the events to the device
LEMMA DeliveredStays ==
  ASSUME SourceInv, TypeOK, NothingLost, Sentences, Asked, Flushed, Delivered, Reported, [Next]_vars
  PROVE  Delivered'
<1>0. /\ heard \in Seq(Words) /\ events \in Seq(StreamEvents) /\ Speaker \in Sources
      /\ cut' = FALSE => cut = FALSE
  <2>1. cut' = cut \/ cut' = TRUE
    <3>1. RelayStep \/ (\E s \in Sources : ProviderStep(s)) => cut' = cut
      BY RelayDoes, ProviderDoes
    <3> QED
      BY <3>1 DEF Next, RunnerStep, RunnerHears, RunnerOpens, RunnerReads, RunnerReadsEnd,
         RunnerFlushes, RunnerSynthesizes, RunnerNoSentence, RunnerTakesChunk, RunnerEmits,
         RunnerSpoke, RunnerEnds, RunnerReports, VoiceStep, VoiceSpeaks, VoiceEnds, VoiceBreaks,
         ConsumerStep, ConsumerAborts, ConsumerHears, ConsumerWriteFails, ConsumerEnds, Cancel,
         Drop, Over, vars, speaking
  <2> QED BY <2>1, AnswerTypes DEF TypeOK
<1>1. ~ RunnerStep => UNCHANGED <<runner, status>>
  <2>1. RelayStep \/ (\E s \in Sources : ProviderStep(s)) => UNCHANGED <<runner, status>>
    BY RelayDoes, ProviderDoes
  <2> QED
    BY <2>1 DEF Next, VoiceStep, VoiceSpeaks, VoiceEnds, VoiceBreaks, ConsumerStep, ConsumerAborts,
       ConsumerHears, ConsumerWriteFails, ConsumerEnds, Cancel, Drop, Over, vars, running
<1>2. ~ ConsumerStep => UNCHANGED <<heard, final, consumer>>
  <2>1. RelayStep \/ (\E s \in Sources : ProviderStep(s)) => UNCHANGED <<heard, final, consumer>>
    BY RelayDoes, ProviderDoes
  <2> QED
    BY <2>1 DEF Next, RunnerStep, RunnerHears, RunnerOpens, RunnerReads, RunnerReadsEnd,
       RunnerFlushes, RunnerSynthesizes, RunnerNoSentence, RunnerTakesChunk, RunnerEmits,
       RunnerSpoke, RunnerEnds, RunnerReports, VoiceStep, VoiceSpeaks, VoiceEnds, VoiceBreaks,
       Cancel, Drop, Over, vars, hearing
<1>3. ~ ConsumerStep /\ ~ RunnerStep => UNCHANGED events
  <2>1. RelayStep \/ (\E s \in Sources : ProviderStep(s)) => UNCHANGED events
    BY RelayDoes, ProviderDoes
  <2> QED
    BY <2>1 DEF Next, VoiceStep, VoiceSpeaks, VoiceEnds, VoiceBreaks, Cancel, Drop, Over, vars
<1>4. status' = "completed" => runner' \in {"report", "off"}
  <2>1. RunnerStep /\ status = "completed" => RunnerReports
    BY DEF Delivered, RunnerStep, RunnerHears, RunnerOpens, RunnerReads, RunnerReadsEnd,
       RunnerFlushes, RunnerSynthesizes, RunnerNoSentence, RunnerTakesChunk, RunnerEmits,
       RunnerSpoke, RunnerEnds
  <2>2. RunnerReports => runner' = "off"
    BY DEF RunnerReports
  <2>3. RunnerStep /\ status # "completed" /\ status' = "completed" => runner' = "report"
    BY DEF RunnerStep, RunnerHears, RunnerOpens, RunnerReads, RunnerReadsEnd, RunnerFlushes,
       RunnerSynthesizes, RunnerNoSentence, RunnerTakesChunk, RunnerEmits, RunnerSpoke, RunnerEnds,
       RunnerReports, GoOn, Fails, CancelSeen
  <2> QED BY <1>1, <2>1, <2>2, <2>3 DEF Delivered
<1>5. status = "completed" /\ RunnerStep => RunnerReports
  BY DEF Delivered, RunnerStep, RunnerHears, RunnerOpens, RunnerReads, RunnerReadsEnd,
     RunnerFlushes, RunnerSynthesizes, RunnerNoSentence, RunnerTakesChunk, RunnerEmits,
     RunnerSpoke, RunnerEnds
<1>6. ASSUME Quiet(Speaker)
      PROVE  Speaker' = Speaker /\ Quiet(Speaker)' /\ Said(Speaker)' = Said(Speaker)
  <2>1. Speaker' = Speaker /\ Quiet(Speaker)' /\ said'[Speaker] = said[Speaker]
    BY <1>0, <1>6, SpeakerStays, QuietStays
  <2> QED BY <2>1 DEF Said
<1>7. ASSUME status = "completed", consumer = "read", consumer' = "read"
      PROVE  Nums(Speaker, heard) \cup AllNums(Speaker, events)
               \subseteq Nums(Speaker, heard') \cup AllNums(Speaker, events')
  <2>1. CASE ConsumerStep
    <3>1. ConsumerHears
      BY <1>7, <2>1 DEF ConsumerStep, ConsumerAborts, ConsumerWriteFails, ConsumerEnds, Verdict
    <3>2. events # <<>> /\ events' = Tail(events)
      BY <3>1 DEF ConsumerHears
    <3>3. Head(events) \in StreamEvents
      BY <1>0, <3>2, HeadTailProperties
    <3>4. Head(events).words \in Seq(Words) /\ Head(events).kind \in {"audio", "done"}
      BY <3>3 DEF StreamEvents
    <3>5. Head(events).kind = "done" => Head(events).words = <<>>
      <4>1. 1 \in DOMAIN events /\ Head(events) = events[1]
        BY <1>0, <3>2, LenProperties, HeadTailProperties, EmptySeq
      <4> QED BY <4>1 DEF Reported
    <3>6. AllNums(Speaker, events) \subseteq Nums(Speaker, Head(events).words) \cup AllNums(Speaker, events')
      BY <1>0, <3>2, HeadOrder
    <3>7. CASE Head(events).kind = "audio"
      <4>1. heard' = heard \o Head(events).words
        BY <3>1, <3>7 DEF ConsumerHears
      <4>2. /\ Nums(Speaker, heard) \subseteq Nums(Speaker, heard')
            /\ Nums(Speaker, Head(events).words) \subseteq Nums(Speaker, heard')
        BY <1>0, <3>4, <4>1, ConcatOrder
      <4> QED BY <3>6, <4>2
    <3>8. CASE Head(events).kind = "done"
      <4>1. heard' = heard /\ Nums(Speaker, Head(events).words) = {}
        BY <3>1, <3>5, <3>8, EmptyOrder DEF ConsumerHears
      <4> QED BY <3>6, <4>1
    <3> QED BY <3>4, <3>7, <3>8
  <2>2. CASE RunnerStep
    <3>1. heard' = heard /\ (events' = events \/ events' = Append(events, DoneEvent(status, err)))
      BY <1>5, <1>7, <2>2 DEF RunnerReports, hearing
    <3>2. DoneEvent(status, err) \in StreamEvents
      BY EmptySeq DEF DoneEvent, StreamEvents, TypeOK
    <3>3. AllNums(Speaker, events) \subseteq AllNums(Speaker, events')
      BY <1>0, <3>1, <3>2, AppendOrder
    <3> QED BY <3>1, <3>3
  <2> QED BY <1>2, <1>3, <2>1, <2>2
<1>8. ASSUME status' = "completed", ~cut', consumer' = "read"
      PROVE  /\ Quiet(Speaker)'
             /\ Said(Speaker)' \subseteq (Nums(Speaker, heard) \cup AllNums(Speaker, events))'
  <2>0. ~cut /\ consumer = "read"
    BY <1>0, <1>2, <1>8 DEF ConsumerStep, ConsumerAborts, ConsumerHears, ConsumerWriteFails,
       ConsumerEnds, TypeOK
  <2>1. CASE status = "completed"
    <3>1. Quiet(Speaker) /\ Said(Speaker) \subseteq Nums(Speaker, heard) \cup AllNums(Speaker, events)
      BY <2>0, <2>1 DEF Delivered
    <3> QED BY <1>6, <1>7, <1>8, <2>0, <2>1, <3>1
  <2>2. CASE status # "completed"
    <3>1. RunnerEnds /\ ~cancelled
      BY <1>1, <1>8, <2>2 DEF RunnerStep, RunnerHears, RunnerOpens, RunnerReads, RunnerReadsEnd,
         RunnerFlushes, RunnerSynthesizes, RunnerNoSentence, RunnerTakesChunk, RunnerEmits,
         RunnerSpoke, RunnerEnds, RunnerReports, GoOn, Fails, CancelSeen
    <3>2. runner = "end" /\ UNCHANGED <<heard, events>>
      BY <3>1 DEF RunnerEnds, hearing
    <3>3. Quiet(Speaker) /\ Said(Speaker) \subseteq Nums(Speaker, heard) \cup AllNums(Speaker, events)
      BY <2>0, <3>1, <3>2, EndIsDelivered DEF Live
    <3> QED BY <1>6, <3>2, <3>3
  <2> QED BY <2>1, <2>2
<1>9. ASSUME consumer' = "completed", ~cut'
      PROVE  heard' # <<>> /\ Quiet(Speaker)' /\ Said(Speaker)' \subseteq Nums(Speaker, heard)'
  <2>0. ~cut
    BY <1>0, <1>9 DEF TypeOK
  <2>1. CASE consumer = "completed"
    <3>1. heard # <<>> /\ Quiet(Speaker) /\ Said(Speaker) \subseteq Nums(Speaker, heard)
      BY <2>0, <2>1 DEF Delivered
    <3>2. heard' = heard
      BY <1>2, <2>1 DEF ConsumerStep, ConsumerAborts, ConsumerHears, ConsumerWriteFails, ConsumerEnds
    <3> QED BY <1>6, <3>1, <3>2
  <2>2. CASE consumer # "completed"
    <3>1. ConsumerEnds /\ Verdict = "completed"
      BY <1>2, <1>9, <2>2 DEF ConsumerStep, ConsumerAborts, ConsumerHears, ConsumerWriteFails,
         ConsumerEnds
    <3>2. final.status = "completed" /\ heard # <<>>
      BY <3>1 DEF Verdict
    <3>3. consumer = "read" /\ events = <<>> /\ heard' = heard
      BY <3>1 DEF ConsumerEnds
    <3>4. status = "completed"
      BY <3>2 DEF Reported
    <3>5. Quiet(Speaker) /\ Said(Speaker) \subseteq Nums(Speaker, heard) \cup AllNums(Speaker, events)
      BY <2>0, <3>3, <3>4 DEF Delivered
    <3> QED BY <1>6, <3>2, <3>3, <3>5, EmptyOrder
  <2> QED BY <2>1, <2>2
<1> QED BY <1>4, <1>8, <1>9 DEF Delivered

\* nobody has been asked and nothing has been said at first
LEMMA InitWholeness == Init => Wholeness
<1> SUFFICES ASSUME Init PROVE Wholeness
  OBVIOUS
<1>1. /\ runner = "asr" /\ status = "failed" /\ consumer = "read" /\ relay = "off"
      /\ tts = "off" /\ ~flushing
      /\ heard = <<>> /\ events = <<>> /\ audio = <<>> /\ voice = <<>> /\ pending = <<>>
      /\ out = <<>> /\ \A s \in Sources : text[s] = <<>> /\ provider[s] = "off" /\ said[s] = 0
      /\ final.status = "none"
  BY DEF Init, DoneEvent
<1>2. NothingLost
  BY <1>1 DEF NothingLost, Kept, Said
<1>3. Sentences /\ Flushed /\ Delivered
  BY <1>1 DEF Sentences, Flushed, Delivered
<1>4. \A kind : ~Has(<<>>, kind)
  BY DEF Has
<1>5. Dones
  BY <1>1, <1>4 DEF Dones, DoneLast
<1>6. Asked /\ RelayEnded /\ Reported
  BY <1>1 DEF Asked, RelayEnded, Reported, Sources
<1> QED BY <1>2, <1>3, <1>5, <1>6 DEF Wholeness

\* every step keeps the answer whole, or breaks it off
LEMMA NextWholeness == SourceInv /\ TypeOK /\ OrderInv /\ Wholeness /\ [Next]_vars => Wholeness'
BY NothingIsLost, SentencesStay, DonesStay, AskedStays, RelayEndsSaid, FlushedStays,
   DeliveredStays, ReportedStays DEF Wholeness

\* what is heard of a completed answer are the numbers of all that was said
LEMMA WholenessIsWhole ==
  ASSUME SourceInv, TypeOK, OrderInv, Wholeness
  PROVE  CompletedIsWhole
<1> SUFFICES ASSUME consumer = "completed", ~cut PROVE Len(heard) = said[heard[1].src]
  BY DEF CompletedIsWhole
<1>1. /\ heard # <<>> /\ heard \in Seq(WordsOf(Speaker)) /\ Speaker \in Sources
      /\ said[Speaker] \in Nat
  <2>1. heard # <<>>
    BY DEF Wholeness, Delivered
  <2>2. heard \in Seq(WordsOf(Speaker)) /\ Speaker \in Sources
    BY AnswerTypes DEF Downstream
  <2> QED BY <2>1, <2>2, AnswerTypes
<1>2. \A i \in DOMAIN heard : heard[i].src = Speaker
  BY <1>1, LenProperties, ElementOfSeq DEF WordsOf
<1>3. Rising(Speaker, heard) /\ Nums(Speaker, heard) \subseteq Said(Speaker)
  BY <1>1, OrderParts, PlacesAre DEF OrderInv, OrderOf
<1>4. Said(Speaker) \subseteq Nums(Speaker, heard)
  BY DEF Wholeness, Delivered
<1>5. Nums(Speaker, heard) = 1..said[Speaker]
  BY <1>3, <1>4 DEF Said
<1>6. Len(heard) = said[Speaker]
  BY <1>1, <1>2, <1>3, <1>5, RisingCounts
<1>7. 1 \in DOMAIN heard
  BY <1>1, LenProperties, EmptySeq
<1> QED BY <1>2, <1>6, <1>7

\* An answer reported as completed is every word its provider said, up to a
\* sentence whose audio broke off silently, for every number of words and every
\* capacity: writeXiaozhiStreamingVoicePipelineAnswer reports what the last
\* event of RunStream says, run completes only after the segmenter's flush, and
\* on the way there neither the relay, the segmenter nor the TTS drops a word
\* without an error that ends the run.
THEOREM CompleteAnswers == Spec => []CompletedIsWhole
<1>1. Spec => []SourceInv
  BY InitSource, NextSource, PTL DEF Spec
<1>2. Spec => []OrderInv
  BY <1>1, InitOrder, NextOrder, PTL DEF Spec
<1>3. Spec => []TypeOK
  BY PipelineTypes
<1>4. Spec => []Wholeness
  BY <1>1, <1>2, <1>3, InitWholeness, NextWholeness, PTL DEF Spec
<1> QED BY <1>1, <1>2, <1>3, <1>4, WholenessIsWhole, PTL

-----------------------------------------------------------------------------
(* The pipeline implements SpokenAnswer.                                   *)

\* what a queue passes on at a time is one word
Single(q, kind) == \A i \in DOMAIN q : q[i].kind = kind => Len(q[i].words) = 1

OneByOne == Single(audio, "chunk") /\ Single(events, "audio")

AnswerInv == SourceInv /\ TypeOK /\ OrderInv /\ Wholeness /\ OneByOne

\* queues of single words, as they are written and read
LEMMA SingleSteps ==
  ASSUME NEW S, NEW q \in Seq(S), NEW kind, Single(q, kind)
  PROVE  /\ \A e \in S : (e.kind = kind => Len(e.words) = 1) => Single(Append(q, e), kind)
         /\ q # <<>> => Single(Tail(q), kind) /\ (Head(q).kind = kind => Len(Head(q).words) = 1)
<1>1. Len(q) \in Nat /\ DOMAIN q = 1..Len(q)
  BY LenProperties
<1>2. ASSUME NEW e \in S, e.kind = kind => Len(e.words) = 1 PROVE Single(Append(q, e), kind)
  <2>1. /\ DOMAIN Append(q, e) = 1..(Len(q) + 1) /\ Append(q, e)[Len(q) + 1] = e
        /\ \A i \in 1..Len(q) : Append(q, e)[i] = q[i]
    BY <1>1, LenProperties, AppendProperties
  <2>2. \A i \in DOMAIN Append(q, e) : (i \in DOMAIN q /\ Append(q, e)[i] = q[i]) \/ Append(q, e)[i] = e
    BY <1>1, <2>1
  <2> QED BY <1>2, <2>2 DEF Single
<1>3. ASSUME q # <<>>
      PROVE  Single(Tail(q), kind) /\ (Head(q).kind = kind => Len(Head(q).words) = 1)
  <2>1. /\ Len(q) >= 1 /\ Head(q) = q[1]
        /\ Tail(q) \in Seq(S) /\ Len(Tail(q)) = Len(q) - 1
        /\ \A i \in 1..Len(Tail(q)) : Tail(q)[i] = q[i + 1]
    BY <1>1, <1>3, HeadTailProperties, EmptySeq
  <2>2. DOMAIN Tail(q) = 1..(Len(q) - 1)
    BY <2>1, LenProperties
  <2>3. \A i \in DOMAIN Tail(q) : i + 1 \in DOMAIN q /\ Tail(q)[i] = q[i + 1]
    BY <1>1, <2>1, <2>2
  <2>4. 1 \in DOMAIN q
    BY <1>1, <2>1
  <2> QED BY <2>1, <2>3, <2>4 DEF Single
<1> QED BY <1>2, <1>3

\* the voice sends one word at a time, the runner passes chunks on and no errors
LEMMA OneByOneStays ==
  ASSUME SourceInv, TypeOK, Sentences, OneByOne, [Next]_vars
  PROVE  OneByOne'
<1>0. audio \in Seq(Chunks) /\ events \in Seq(StreamEvents) /\ voice \in Seq(Words)
  BY AnswerTypes
<1>1. CASE UNCHANGED <<audio, events>>
  BY <1>1 DEF OneByOne
<1>2. CASE RelayStep \/ \E s \in Sources : ProviderStep(s)
  BY <1>1, <1>2, RelayDoes, ProviderDoes
<1>3. CASE RunnerTakesChunk
  <2>1. /\ audio # <<>> /\ audio' \in {audio, Tail(audio)} /\ events' = events
    BY <1>3 DEF RunnerTakesChunk
  <2> QED BY <1>0, <2>1, SingleSteps DEF OneByOne
<1>4. CASE RunnerEmits
  <2>1. /\ audio # <<>> /\ audio' = Tail(audio) /\ Head(audio).kind # "err"
        /\ events' = events \/ events' = Append(events, AudioEvent(Head(audio).words))
    BY <1>4 DEF RunnerEmits, SourceInv, EmitHasChunk, Sentences
  <2>2. Head(audio) \in Chunks
    BY <1>0, <2>1, HeadTailProperties
  <2>3. Len(Head(audio).words) = 1 /\ Head(audio).words \in Seq(Words)
    BY <1>0, <2>1, <2>2, SingleSteps DEF OneByOne, Chunks
  <2>4. /\ AudioEvent(Head(audio).words) \in StreamEvents
        /\ AudioEvent(Head(audio).words).words = Head(audio).words
    BY <2>3 DEF AudioEvent, StreamEvents, Statuses
  <2>5. Single(events', "audio")
    BY <1>0, <2>1, <2>3, <2>4, SingleSteps DEF OneByOne
  <2>6. Single(audio', "chunk")
    BY <1>0, <2>1, SingleSteps DEF OneByOne
  <2> QED BY <2>5, <2>6 DEF OneByOne
<1>5. CASE RunnerReports
  <2>1. DoneEvent(status, err) \in StreamEvents /\ DoneEvent(status, err).kind # "audio"
    BY EmptySeq DEF DoneEvent, StreamEvents, TypeOK
  <2>2. audio' = audio /\ (events' = events \/ events' = Append(events, DoneEvent(status, err)))
    BY <1>5 DEF RunnerReports, speaking
  <2> QED BY <1>0, <2>1, <2>2, SingleSteps DEF OneByOne
<1>6. CASE RunnerSynthesizes
  <2>1. audio' \in {audio, <<>>} /\ events' = events
    BY <1>6 DEF RunnerSynthesizes
  <2> QED BY <2>1 DEF OneByOne, Single
<1>7. CASE RunnerStep
  BY <1>1, <1>3, <1>4, <1>5, <1>6, <1>7 DEF RunnerStep, RunnerHears, RunnerOpens, RunnerReads,
     RunnerReadsEnd, RunnerFlushes, RunnerNoSentence, RunnerSpoke, RunnerEnds, speaking
<1>8. CASE VoiceSpeaks
  <2>1. voice # <<>> /\ audio' = Append(audio, Chunk(<<Head(voice)>>)) /\ events' = events
    BY <1>8 DEF VoiceSpeaks
  <2>2. Head(voice) \in Words
    BY <1>0, <2>1, HeadTailProperties
  <2>3. Chunk(<<Head(voice)>>) \in Chunks /\ Len(Chunk(<<Head(voice)>>).words) = 1
    BY <2>2 DEF Chunk, Chunks
  <2> QED BY <1>0, <2>1, <2>3, SingleSteps DEF OneByOne
<1>9. CASE VoiceBreaks
  <2>1. ChunkErr \in Chunks /\ ChunkErr.kind # "chunk"
    BY EmptySeq DEF ChunkErr, Chunks
  <2>2. events' = events /\ (audio' = audio \/ audio' = Append(audio, ChunkErr))
    BY <1>9 DEF VoiceBreaks
  <2> QED BY <1>0, <2>1, <2>2, SingleSteps DEF OneByOne
<1>10. CASE ConsumerAborts \/ ConsumerHears \/ ConsumerWriteFails
  <2>1. audio' = audio /\ events # <<>> /\ events' = Tail(events)
    BY <1>10 DEF ConsumerAborts, ConsumerHears, ConsumerWriteFails, speaking
  <2> QED BY <1>0, <2>1, SingleSteps DEF OneByOne
<1>11. CASE VoiceEnds \/ ConsumerEnds \/ Cancel \/ Drop \/ Over \/ UNCHANGED vars
  BY <1>1, <1>11 DEF VoiceEnds, ConsumerEnds, Cancel, Drop, Over, vars, speaking
<1> QED BY <1>2, <1>7, <1>8, <1>9, <1>10, <1>11 DEF Next, VoiceStep, ConsumerStep

\* the invariant of the refinement
LEMMA AnswerInvariant == Spec => []AnswerInv
<1>1. Init => OneByOne
  BY DEF Init, OneByOne, Single
<1>2. Wholeness => Sentences
  BY DEF Wholeness
<1>3. SourceInv /\ TypeOK /\ Wholeness /\ OneByOne /\ [Next]_vars => OneByOne'
  BY <1>2, OneByOneStays
<1>4. Spec => []SourceInv
  BY InitSource, NextSource, PTL DEF Spec
<1>5. Spec => []OrderInv
  BY <1>4, InitOrder, NextOrder, PTL DEF Spec
<1>6. Spec => []TypeOK
  BY PipelineTypes
<1>7. Spec => []Wholeness
  BY <1>4, <1>5, <1>6, InitWholeness, NextWholeness, PTL DEF Spec
<1>8. Spec => []OneByOne
  BY <1>1, <1>3, <1>4, <1>6, <1>7, PTL DEF Spec
<1> QED BY <1>4, <1>5, <1>6, <1>7, <1>8, PTL DEF AnswerInv

\* a provider's step is something said, or nothing new
LEMMA SayRefines ==
  ASSUME AnswerInv, NEW s \in Sources, ProviderStep(s)
  PROVE  [Answer!Next]_(Answer!vars)
<1>0. /\ SourceInv /\ TypeOK /\ Wholeness /\ said \in [Sources -> 0..MaxText] /\ MaxText \in Nat
  BY CapAssumption DEF AnswerInv, TypeOK
<1>1. UNCHANGED <<heard, consumer, cut>>
  BY <1>0, ProviderDoes
<1>2. CASE SayContent(s)
  <2>1. PICK w \in Texts(s) : /\ said' = [said EXCEPT ![s] = @ + Len(w)]
                              /\ said[s] + Len(w) <= MaxText
    BY <1>2 DEF SayContent
  <2>2. Len(w) \in {0, 1, 2}
    BY <2>1 DEF Texts
  <2>3. CASE Len(w) = 0
    BY <1>0, <1>1, <2>1, <2>3 DEF Answer!vars
  <2>4. CASE Len(w) # 0
    <3>1. said[s] + Len(w) \in (said[s] + 1)..MaxText
      BY <1>0, <2>1, <2>2, <2>4
    <3>2. ~Answer!Finished(s)
      <4> SUFFICES ASSUME consumer = "completed", ~cut PROVE heard[1].src # s
        BY DEF Answer!Finished
      <4>1. heard # <<>> /\ Quiet(Speaker)
        BY <1>0 DEF Wholeness, Delivered
      <4>2. heard \in Seq(WordsOf(Speaker))
        BY <1>0, AnswerTypes DEF Downstream
      <4>3. heard[1] \in WordsOf(Speaker)
        BY <4>1, <4>2, LenProperties, ElementOfSeq, EmptySeq
      <4>4. provider[s] = "open"
        BY <1>2 DEF SayContent
      <4> QED BY <4>1, <4>3, <4>4 DEF WordsOf, Quiet
    <3>3. Answer!Say(s)
      BY <1>1, <2>1, <3>1, <3>2 DEF Answer!Say
    <3> QED BY <3>3 DEF Answer!Next
  <2> QED BY <2>2, <2>3, <2>4
<1>3. CASE SayReasoning(s) \/ SayDone(s) \/ SayError(s) \/ Close(s)
  <2>1. said' = said
    BY <1>3 DEF SayReasoning, SayDone, SayError, Close
  <2> QED BY <1>1, <2>1 DEF Answer!vars
<1> QED BY <1>2, <1>3 DEF ProviderStep

\* an audio event is one word more, in order and said before
LEMMA HearRefines ==
  ASSUME AnswerInv, SourceInv', OrderInv', ConsumerHears
  PROVE  [Answer!Next]_(Answer!vars)
<1>0. /\ SourceInv /\ TypeOK /\ OneByOne
      /\ events # <<>> /\ consumer = "read" /\ UNCHANGED <<said, consumer, cut>>
  BY DEF AnswerInv, ConsumerHears, remote, speaking
<1>1. events \in Seq(StreamEvents) /\ heard \in Seq(Words)
  BY <1>0, AnswerTypes
<1>2. CASE Head(events).kind # "audio"
  BY <1>0, <1>2 DEF ConsumerHears, Answer!vars
<1>3. CASE Head(events).kind = "audio"
  <2>1. Head(events) \in StreamEvents
    BY <1>0, <1>1, HeadTailProperties
  <2>2. Head(events).words \in Seq(Words) /\ Len(Head(events).words) = 1
    BY <1>0, <1>1, <1>3, <2>1, SingleSteps DEF OneByOne, StreamEvents
  <2> DEFINE w == Head(events).words[1]
  <2>3. w \in Words
    BY <2>2, LenProperties, ElementOfSeq
  <2>4. heard' = Append(heard, w)
    <3>1. heard' = heard \o Head(events).words
      BY <1>3 DEF ConsumerHears
    <3>2. Head(events).words = <<w>>
      BY <2>2
    <3> HIDE DEF w
    <3>3. heard \o <<w>> = Append(heard, w)
      BY <1>1, <2>3
    <3> QED BY <3>1, <3>2, <3>3
  <2> HIDE DEF w
  <2>5. /\ Len(heard) \in Nat /\ DOMAIN heard = 1..Len(heard)
        /\ DOMAIN heard' = 1..(Len(heard) + 1) /\ heard'[Len(heard) + 1] = w
        /\ \A i \in 1..Len(heard) : heard'[i] = heard[i]
    BY <1>1, <2>3, <2>4, LenProperties, AppendProperties
  <2>6. PICK s \in Sources : \A i \in DOMAIN heard' : heard'[i].src = s
    <3>1. heard' \in Seq(WordsOf(Speaker')) /\ Speaker' \in Sources
      BY DEF SourceInv, Downstream, Speaker, Sources
    <3> QED BY <3>1, LenProperties, ElementOfSeq DEF WordsOf
  <2>7. Rising(s, heard') /\ Nums(s, heard') \subseteq Said(s)'
    <3>1. OrderOf(s)'
      BY DEF OrderInv
    <3> QED BY <3>1, PlacesAre DEF OrderOf
  <2>8. w.src = s /\ w.n \in 1..said[s]
    BY <1>0, <2>5, <2>6, <2>7 DEF Nums, Said
  <2>9. \A i \in DOMAIN heard : heard[i].src = s /\ heard[i].n < w.n
    BY <2>5, <2>6, <2>7 DEF Rising
  <2>10. w \in [src : {s}, n : 1..said[s], ends : BOOLEAN]
    BY <2>3, <2>8 DEF Words
  <2>11. Answer!Hear(s)
    BY <1>0, <2>4, <2>9, <2>10 DEF Answer!Hear, Answer!Continues
  <2> QED BY <2>6, <2>11 DEF Answer!Next
<1> QED BY <1>2, <1>3

\* the verdicts are given for what was heard
LEMMA VerdictRefines ==
  ASSUME CompletedIsWhole', ConsumerEnds
  PROVE  [Answer!Next]_(Answer!vars)
<1>1. consumer = "read" /\ consumer' = Verdict /\ UNCHANGED <<said, heard, cut>>
  BY DEF ConsumerEnds, remote, speaking
<1>2. Verdict \in Answer!Verdicts
  BY DEF Verdict, Answer!Verdicts
<1>3. Verdict = "completed" => Answer!Whole
  BY <1>1 DEF CompletedIsWhole, Answer!Whole, Verdict
<1>4. (Verdict = "degraded" => heard # <<>>) /\ (Verdict = "local_fallback" => heard = <<>>)
  BY DEF Verdict
<1>5. Answer!End(Verdict)
  BY <1>1, <1>3, <1>4 DEF Answer!End
<1> QED BY <1>2, <1>5 DEF Answer!Next

\* every step of the pipeline is a step of SpokenAnswer or a stutter
LEMMA StepAnswers ==
  ASSUME AnswerInv, AnswerInv', CompletedIsWhole', [Next]_vars
  PROVE  [Answer!Next]_(Answer!vars)
<1>0. SourceInv /\ TypeOK /\ SourceInv' /\ OrderInv'
  BY DEF AnswerInv
<1>1. CASE UNCHANGED <<said, heard, consumer, cut>>
  BY <1>1 DEF Answer!vars
<1>2. CASE RelayStep
  BY <1>0, <1>1, <1>2, RelayDoes
<1>3. CASE RunnerStep
  BY <1>1, <1>3 DEF RunnerStep, RunnerHears, RunnerOpens, RunnerReads, RunnerReadsEnd,
     RunnerFlushes, RunnerSynthesizes, RunnerNoSentence, RunnerTakesChunk, RunnerEmits,
     RunnerSpoke, RunnerEnds, RunnerReports, remote, speaking, hearing
<1>4. CASE VoiceStep
  <2>1. UNCHANGED <<said, heard, consumer>> /\ (cut' = cut \/ cut' = TRUE)
    BY <1>4 DEF VoiceStep, VoiceSpeaks, VoiceEnds, VoiceBreaks, remote, hearing
  <2> QED BY <1>1, <2>1 DEF Answer!Next, Answer!Break
<1>5. CASE ConsumerEnds
  BY <1>5, VerdictRefines
<1>6. CASE ConsumerAborts \/ ConsumerWriteFails
  <2>1. /\ consumer = "read" /\ consumer' \in {"cancelled", "write_error"}
        /\ UNCHANGED <<said, heard, cut>>
    BY <1>6 DEF ConsumerAborts, ConsumerWriteFails, remote, speaking
  <2>2. Answer!End(consumer') /\ consumer' \in Answer!Verdicts
    BY <2>1 DEF Answer!End, Answer!Verdicts
  <2> QED BY <2>2 DEF Answer!Next
<1>7. CASE Cancel \/ Drop \/ Over \/ UNCHANGED vars
  BY <1>1, <1>7 DEF Cancel, Drop, Over, vars, remote, speaking, hearing
<1> QED
  BY <1>0, <1>2, <1>3, <1>4, <1>5, <1>6, <1>7, SayRefines, HearRefines DEF Next, ConsumerStep

\* The pipeline implements SpokenAnswer for every number of words and every
\* capacity: the goroutines and channels between providers and device add up to
\* one speaker, heard word by word until RunStream's channel is closed or the
\* answer given up, and a verdict that is true of what was heard.
THEOREM ImplementsSpokenAnswer == Spec => AnswerSpec
<1>1. Init => Answer!Init
  BY DEF Init, Answer!Init
<1>2. AnswerInv /\ AnswerInv' /\ CompletedIsWhole' /\ [Next]_vars => [Answer!Next]_(Answer!vars)
  BY StepAnswers
<1> QED BY <1>1, <1>2, AnswerInvariant, CompleteAnswers, PTL DEF Spec, AnswerSpec, Answer!Spec
=============================================================================
