--------------------------- MODULE PipelineProofs ---------------------------
(* Theorems of PiiPipeline, for any texts that are sent, any keywords,     *)
(* wrong checksums, detection modes, and any detectors and stages that     *)
(* fail. They rest on one inductive invariant, PipeInv, that says of the   *)
(* entities what each stage may count on, and on the lemmas about the      *)
(* operators of PiiStages that the stages are built from.                  *)
EXTENDS PiiPipeline, DataLemmas

-----------------------------------------------------------------------------
(* Masking a span of the text                                              *)

(* Replacing a span of what is not replaced yet.                           *)
SpanBecomes(C, T, p, W, tok, x, s, e) ==
  /\ Replace(SubSeq(T, 1, p) \o W, x, tok)
       = SubSeq(T, 1, s - 1) \o (<<tok>> \o (SubSeq(T, e, p) \o W))
  /\ <<tok>> \o (SubSeq(T, e, p) \o W) \in Seq(C)

LEMMA SpanReplaced ==
  ASSUME NEW C, NEW T \in Seq(C), NEW p \in 0..Len(T), NEW W \in Seq(C), NEW tok \in C,
         NEW x, NEW s \in 1..p, NEW e \in (s + 1)..(p + 1), x.s = s, x.e = e
  PROVE  SpanBecomes(C, T, p, W, tok, x, s, e)
<1>. DEFINE n == Len(W)
<1>1. s \in Nat /\ e \in Nat /\ 1 <= s /\ s < e /\ e <= p + 1 /\ s <= p
  OBVIOUS
<1>a. PICK a : a = SubSeq(T, 1, p)
  OBVIOUS
<1>b. PICK acc : acc = a \o W
  OBVIOUS
<1>c. PICK l, r : l = SubSeq(acc, 1, s - 1) /\ r = SubSeq(acc, e, Len(acc))
  OBVIOUS
<1>d. PICK u, v : u = SubSeq(T, 1, s - 1) /\ v = SubSeq(T, e, p)
  OBVIOUS
<1>2. Len(T) \in Nat /\ n \in Nat /\ p \in Nat /\ p <= Len(T)
  OBVIOUS
<1>3. a \in Seq(C) /\ Len(a) = p /\ \A i \in 1..p : a[i] = T[i]
  BY <1>2, <1>a, SliceOf
<1>4. u \in Seq(C) /\ Len(u) = s - 1 /\ \A i \in 1..(s - 1) : u[i] = T[i]
  BY <1>1, <1>2, <1>d, SliceOf
<1>5. v \in Seq(C) /\ Len(v) = p - e + 1 /\ \A i \in 1..(p - e + 1) : v[i] = T[e + i - 1]
  BY <1>1, <1>2, <1>d, SliceOf
<1>. HIDE DEF n
<1>6. /\ acc \in Seq(C) /\ Len(acc) = p + n
      /\ \A i \in 1..(p + n) : acc[i] = IF i <= p THEN a[i] ELSE W[i - p]
  BY <1>3, <1>b, ConcatProperties DEF n
<1>7. l \in Seq(C) /\ Len(l) = s - 1 /\ \A i \in 1..(s - 1) : l[i] = acc[i]
  BY <1>1, <1>2, <1>6, <1>c, SliceOf
<1>8. r \in Seq(C) /\ Len(r) = (p + n) - e + 1 /\ \A i \in 1..((p + n) - e + 1) : r[i] = acc[e + i - 1]
  BY <1>1, <1>2, <1>6, <1>c, SliceOf
<1>9. /\ v \o W \in Seq(C) /\ Len(v \o W) = (p - e + 1) + n
      /\ \A i \in 1..((p - e + 1) + n) : (v \o W)[i] = IF i <= p - e + 1 THEN v[i] ELSE W[i - (p - e + 1)]
  BY <1>5, ConcatProperties DEF n
<1>10. l = u
  <2>1. ASSUME NEW i \in 1..(s - 1) PROVE l[i] = u[i]
    <3>1. i \in 1..p /\ i <= p /\ i \in 1..(p + n)
      BY <1>1, <1>2
    <3>. QED BY <1>3, <1>4, <1>6, <1>7, <3>1
  <2>. QED BY <1>4, <1>7, <2>1, SeqEqual
<1>11. r = v \o W
  <2>1. Len(r) = Len(v \o W) /\ Len(r) = (p - e + 1) + n
    BY <1>1, <1>2, <1>8, <1>9
  <2>2. ASSUME NEW i \in 1..((p - e + 1) + n) PROVE r[i] = (v \o W)[i]
    <3>1. r[i] = acc[e + i - 1] /\ e + i - 1 \in 1..(p + n)
      BY <1>1, <1>2, <1>8
    <3>2. CASE i <= p - e + 1
      <4>1. e + i - 1 <= p /\ e + i - 1 \in 1..p /\ i \in 1..(p - e + 1)
        BY <1>1, <1>2, <3>2
      <4>. QED BY <1>3, <1>5, <1>6, <1>9, <3>1, <3>2, <4>1
    <3>3. CASE ~(i <= p - e + 1)
      <4>1. ~(e + i - 1 <= p) /\ (e + i - 1) - p = i - (p - e + 1)
        BY <1>1, <1>2, <3>3
      <4>. QED BY <1>6, <1>9, <3>1, <3>3, <4>1
    <3>. QED BY <3>2, <3>3
  <2>. QED BY <1>8, <1>9, <2>1, <2>2, SeqEqual
<1>13. <<tok>> \in Seq(C)
  OBVIOUS
<1>14. (u \o <<tok>>) \o (v \o W) = u \o (<<tok>> \o (v \o W))
  <2>1. PICK y \in Seq(C), z \in Seq(C) : y = <<tok>> /\ z = v \o W
    BY <1>9, <1>13
  <2>2. JoinsAlike(u, y, z)
    BY <1>4, ConcatThree
  <2>. QED BY <2>1, <2>2 DEF JoinsAlike
<1>15. <<tok>> \o (v \o W) \in Seq(C)
  BY <1>9, <1>13, ConcatProperties
<1>16. Replace(acc, x, tok) = (l \o <<tok>>) \o r
  BY <1>c DEF Replace
<1>17. Replace(acc, x, tok) = u \o (<<tok>> \o (v \o W))
  BY <1>10, <1>11, <1>14, <1>16
<1>. QED BY <1>15, <1>17, <1>a, <1>b, <1>d DEF SpanBecomes

(* Due cell more of the text.                                              *)
MoreCell(C, T, q, p, W) ==
  /\ SubSeq(T, q, p) \o W = <<T[q]>> \o (SubSeq(T, q + 1, p) \o W)
  /\ SubSeq(T, q + 1, p) \o W \in Seq(C) /\ T[q] \in C /\ SubSeq(T, q, p) \o W \in Seq(C)

LEMMA CellMore ==
  ASSUME NEW C, NEW T \in Seq(C), NEW q \in Nat, NEW p \in Nat, 0 < q, q <= p, p <= Len(T), NEW W \in Seq(C)
  PROVE  MoreCell(C, T, q, p, W)
<1>1. q \in 1..Len(T) /\ p \in q..Len(T) /\ T[q] \in C
  OBVIOUS
<1>2. SubSeq(T, q, p) = <<T[q]>> \o SubSeq(T, q + 1, p)
  BY <1>1, SubSeqRecursiveFirst
<1>3. SubSeq(T, q + 1, p) \in Seq(C) /\ <<T[q]>> \in Seq(C)
  BY <1>1, SliceOf
<1>4. SubSeq(T, q + 1, p) \o W \in Seq(C)
  BY <1>3, ConcatProperties
<1>5. (<<T[q]>> \o SubSeq(T, q + 1, p)) \o W = <<T[q]>> \o (SubSeq(T, q + 1, p) \o W)
  BY <1>3, ConcatThree DEF JoinsAlike
<1>6. <<T[q]>> \o (SubSeq(T, q + 1, p) \o W) \in Seq(C)
  BY <1>3, <1>4, ConcatProperties
<1>. QED BY <1>1, <1>2, <1>4, <1>5, <1>6 DEF MoreCell

(* Masking from right to left                                              *)

(* What every cell that stays and every label that is put adds to keeps:   *)
(* P relates a position to what the text after it has become.              *)
Covers(x, i) == x.s <= i /\ i < x.e

Walk(T, X, C, P) ==
  /\ <<Len(T), <<>>>> \in P
  /\ \A p \in 1..Len(T) : \A W \in Seq(C) :
        <<p, W>> \in P /\ (\A x \in X : ~Covers(x, p)) => <<p - 1, <<T[p]>> \o W>> \in P
  /\ \A x \in X : \A W \in Seq(C) : <<x.e - 1, W>> \in P => <<x.s - 1, <<Mask(x)>> \o W>> \in P

(* Cells that nothing covers stay.                                         *)
LEMMA WalkDown ==
  ASSUME NEW C, NEW T \in Seq(C), NEW X, NEW P, Walk(T, X, C, P), NEW W \in Seq(C),
         NEW p \in Nat, NEW q \in Nat, q <= p, p <= Len(T), <<p, W>> \in P,
         \A i \in (q + 1)..p : \A x \in X : ~Covers(x, i)
  PROVE  <<q, SubSeq(T, q + 1, p) \o W>> \in P /\ SubSeq(T, q + 1, p) \o W \in Seq(C)
<1>. DEFINE S == {d \in Nat : d <= p - q => <<p - d, SubSeq(T, (p - d) + 1, p) \o W>> \in P}
<1>1. 0 \in S
  <2>1. SubSeq(T, (p - 0) + 1, p) = <<>>
    BY SubSeqEmpty
  <2>2. <<>> \o W = W
    BY ConcatEmptySeq
  <2>. QED BY <2>1, <2>2
<1>2. ASSUME NEW d \in Nat, d \in S PROVE d + 1 \in S
  <2>. SUFFICES d + 1 <= p - q => <<p - (d + 1), SubSeq(T, (p - (d + 1)) + 1, p) \o W>> \in P
    <3>1. d + 1 \in Nat
      OBVIOUS
    <3>. QED BY <3>1
  <2>. HAVE d + 1 <= p - q
  <2>1. PICK i \in Nat : i = p - d /\ 0 < i /\ i <= p /\ i \in (q + 1)..p /\ i \in 1..Len(T)
    <3>1. p - d \in Nat /\ 0 < p - d /\ p - d <= p /\ p - d \in (q + 1)..p /\ p - d \in 1..Len(T)
      OBVIOUS
    <3>. QED BY <3>1
  <2>2. <<i, SubSeq(T, i + 1, p) \o W>> \in P
    BY <1>2, <2>1
  <2>3. /\ SubSeq(T, i, p) \o W = <<T[i]>> \o (SubSeq(T, i + 1, p) \o W)
        /\ SubSeq(T, i + 1, p) \o W \in Seq(C)
    BY <2>1, CellMore DEF MoreCell
  <2>4. <<i - 1, <<T[i]>> \o (SubSeq(T, i + 1, p) \o W)>> \in P
    BY <2>1, <2>2, <2>3 DEF Walk
  <2>5. p - (d + 1) = i - 1 /\ (p - (d + 1)) + 1 = i
    BY <2>1
  <2>. QED BY <2>3, <2>4, <2>5
<1>. HIDE DEF S
<1>3. \A d \in Nat : d \in S
  BY <1>1, <1>2, CountedUp
<1>4. p - q \in Nat /\ p - (p - q) = q
  OBVIOUS
<1>5. <<q, SubSeq(T, q + 1, p) \o W>> \in P
  <2>1. PICK d \in Nat : d = p - q /\ p - d = q
    BY <1>4
  <2>2. d <= p - q /\ d \in S
    BY <1>3, <2>1
  <2>3. <<p - d, SubSeq(T, (p - d) + 1, p) \o W>> \in P
    BY <2>2 DEF S
  <2>. QED BY <2>1, <2>3
<1>6. SubSeq(T, q + 1, p) \in Seq(C)
  BY SliceOf
<1>. QED BY <1>5, <1>6, ConcatProperties

-----------------------------------------------------------------------------
(* The masking loop                                                        *)

(* The masking loop: what it has built when it stands before position p.   *)
InText(T, x)  == x.s \in 1..Len(T) /\ x.e \in (x.s + 1)..(Len(T) + 1)

Put(R, f, k) == Replace(f[k - 1], R[k], Mask(R[k]))

Puts(R, f, k) == f[k] = IF Maskable(R[k]) THEN Put(R, f, k) ELSE f[k - 1]

PutsOr(C, R, f, k) ==
  /\ Maskable(R[k]) /\ Put(R, f, k) \in Seq(C) => f[k] = Put(R, f, k)
  /\ ~Maskable(R[k]) => f[k] = f[k - 1]

Stands(T, R, n, t, k, p, W) ==
  /\ t = SubSeq(T, 1, p) \o W
  /\ \A j \in (k + 1)..n : R[j].e <= p + 1
  /\ \A i \in 1..k : Maskable(R[i]) => p < R[i].s

FoldsTo(C, R, n, f, P) == <<0, f[n]>> \in P /\ f[n] \in Seq(C) /\ \A k \in 1..n : Puts(R, f, k)

LEMMA MasksFold ==
  ASSUME NEW C, NEW T \in Seq(C), NEW n \in Nat, NEW R,
         \A i \in 1..n : InText(T, R[i]) /\ Mask(R[i]) \in C,
         \A i, j \in 1..n : i < j => R[j].e <= R[i].s,
         NEW f, f[0] = T, \A k \in 1..n : PutsOr(C, R, f, k),
         NEW X, X = {x \in {R[i] : i \in 1..n} : Maskable(x)},
         NEW P, Walk(T, X, C, P)
  PROVE  FoldsTo(C, R, n, f, P)
<1>. DEFINE At(k) == \E p \in 0..Len(T) : \E W \in Seq(C) : <<p, W>> \in P /\ Stands(T, R, n, f[k], k, p, W)
            S == {k \in Nat : k <= n => At(k) /\ (0 < k => Puts(R, f, k))}
<1>1. 0 \in S
  <2>1. <<>> \in Seq(C) /\ <<Len(T), <<>>>> \in P /\ Len(T) \in 0..Len(T) /\ Len(T) \in Nat
    BY DEF Walk
  <2>2. SubSeq(T, 1, Len(T)) = T /\ T \o <<>> = T
    OBVIOUS
  <2>3. \A j \in 1..n : R[j].e <= Len(T) + 1
    BY <2>1 DEF InText
  <2>4. Stands(T, R, n, f[0], 0, Len(T), <<>>)
    BY <2>2, <2>3 DEF Stands
  <2>5. At(0)
    BY <2>1, <2>4
  <2>. HIDE DEF At
  <2>. QED BY <2>5
<1>2. ASSUME NEW k \in Nat, k \in S PROVE k + 1 \in S
  <2>. SUFFICES k + 1 <= n => At(k + 1) /\ Puts(R, f, k + 1)
    <3>1. k + 1 \in Nat
      OBVIOUS
    <3>. QED BY <3>1
  <2>. HAVE k + 1 <= n
  <2>0. k <= n
    OBVIOUS
  <2>1. PICK p \in 0..Len(T), W \in Seq(C) : <<p, W>> \in P /\ Stands(T, R, n, f[k], k, p, W)
    BY <1>2, <2>0
  <2>. HIDE DEF S
  <2>2. k + 1 \in 1..n /\ k \in 0..n /\ (k + 1) - 1 = k /\ k + 1 \in (k + 1)..n
    OBVIOUS
  <2>4. CASE ~Maskable(R[k + 1])
    <3>0. f[k + 1] = f[k]
      BY <2>2, <2>4 DEF PutsOr
    <3>1. \A j \in (k + 1 + 1)..n : j \in (k + 1)..n
      OBVIOUS
    <3>2. \A i \in 1..(k + 1) : i = k + 1 \/ i \in 1..k
      OBVIOUS
    <3>3. Stands(T, R, n, f[k + 1], k + 1, p, W)
      BY <2>1, <2>4, <3>0, <3>1, <3>2 DEF Stands
    <3>4. Puts(R, f, k + 1)
      BY <2>2, <2>4, <3>0 DEF Puts
    <3>. QED BY <2>1, <3>3, <3>4
  <2>5. CASE Maskable(R[k + 1])
    <3>1. PICK x : x = R[k + 1]
      OBVIOUS
    <3>2. PICK s \in Nat, e \in Nat : s = x.s /\ e = x.e /\ s \in 1..Len(T) /\ e \in (s + 1)..(Len(T) + 1)
      <4>1. Len(T) \in Nat /\ x.s \in 1..Len(T) /\ x.e \in (x.s + 1)..(Len(T) + 1)
        BY <2>2, <3>1 DEF InText
      <4>2. x.s \in Nat /\ x.e \in Nat
        BY <4>1
      <4>. QED BY <4>1, <4>2
    <3>3. e <= p + 1 /\ Mask(x) \in C /\ x \in X
      BY <2>1, <2>2, <2>5, <3>1, <3>2 DEF Stands
    <3>a. p \in Nat /\ Len(T) \in Nat /\ p <= Len(T) /\ 1 <= s /\ s < e /\ e <= p + 1
      BY <3>2, <3>3
    <3>b. s \in Nat /\ e \in Nat
      BY <3>2
    <3>4. s \in 1..p /\ e \in (s + 1)..(p + 1) /\ s \in Nat /\ e \in Nat /\ p \in Nat /\ Len(T) \in Nat
            /\ e - 1 \in Nat /\ e - 1 <= p /\ p <= Len(T) /\ (e - 1) + 1 = e /\ s - 1 \in 0..Len(T)
      BY <3>a, <3>b
    <3>5. ASSUME NEW i \in ((e - 1) + 1)..p, NEW y \in X PROVE ~Covers(y, i)
      <4>1. PICK j \in 1..n : y = R[j] /\ Maskable(R[j])
        OBVIOUS
      <4>2. CASE j \in 1..k
        <5>1. p < y.s
          BY <2>1, <4>1, <4>2 DEF Stands
        <5>2. y.s \in Nat
          BY <4>1 DEF InText
        <5>. QED BY <3>4, <5>1, <5>2 DEF Covers
      <4>3. CASE j = k + 1
        BY <3>1, <3>2, <3>4, <4>1, <4>3 DEF Covers
      <4>4. CASE k + 1 < j
        <5>0. R[j].e <= R[k + 1].s
          BY <2>2, <4>4
        <5>1. y.e <= s /\ y.e \in Int
          BY <3>1, <3>2, <4>1, <5>0 DEF InText
        <5>. QED BY <3>4, <5>1 DEF Covers
      <4>. QED BY <2>2, <4>2, <4>3, <4>4
    <3>6. /\ <<e - 1, SubSeq(T, (e - 1) + 1, p) \o W>> \in P
          /\ SubSeq(T, (e - 1) + 1, p) \o W \in Seq(C)
      BY <2>1, <3>4, <3>5, WalkDown
    <3>7. PICK V \in Seq(C) : V = SubSeq(T, e, p) \o W /\ <<e - 1, V>> \in P
      BY <3>4, <3>6
    <3>8. <<s - 1, <<Mask(x)>> \o V>> \in P
      <4>1. <<x.e - 1, V>> \in P
        BY <3>2, <3>7
      <4>2. <<x.s - 1, <<Mask(x)>> \o V>> \in P
        BY <3>3, <4>1 DEF Walk
      <4>. QED BY <3>2, <4>2
    <3>9. /\ Replace(SubSeq(T, 1, p) \o W, x, Mask(x)) = SubSeq(T, 1, s - 1) \o (<<Mask(x)>> \o V)
          /\ <<Mask(x)>> \o V \in Seq(C)
      <4>1. x.s = s /\ x.e = e /\ Mask(x) \in C /\ s \in 1..p /\ e \in (s + 1)..(p + 1) /\ p \in 0..Len(T)
        BY <3>2, <3>3, <3>4
      <4>2. /\ Replace(SubSeq(T, 1, p) \o W, x, Mask(x)) = SubSeq(T, 1, s - 1) \o (<<Mask(x)>> \o (SubSeq(T, e, p) \o W))
            /\ <<Mask(x)>> \o (SubSeq(T, e, p) \o W) \in Seq(C)
        <5>1. PICK tok \in C : tok = Mask(x)
          BY <4>1
        <5>2. SpanBecomes(C, T, p, W, tok, x, s, e)
          BY <4>1, SpanReplaced
        <5>. QED BY <5>1, <5>2 DEF SpanBecomes
      <4>. QED BY <3>7, <4>2
    <3>c. Put(R, f, k + 1) = SubSeq(T, 1, s - 1) \o (<<Mask(x)>> \o V)
      BY <2>1, <2>2, <3>1, <3>9 DEF Stands, Put
    <3>d. SubSeq(T, 1, s - 1) \o (<<Mask(x)>> \o V) \in Seq(C)
      <4>1. s - 1 \in Nat /\ 1 <= (s - 1) + 1 /\ s - 1 <= Len(T)
        BY <3>4
      <4>2. SubSeq(T, 1, s - 1) \in Seq(C)
        BY <4>1, SliceOf
      <4>. QED BY <3>9, <4>2, ConcatProperties
    <3>10. f[k + 1] = SubSeq(T, 1, s - 1) \o (<<Mask(x)>> \o V) /\ f[k + 1] = Put(R, f, k + 1)
      BY <2>2, <2>5, <3>c, <3>d DEF PutsOr
    <3>11. ASSUME NEW j \in (k + 1 + 1)..n PROVE R[j].e <= (s - 1) + 1
      <4>1. j \in 1..n /\ k + 1 < j
        OBVIOUS
      <4>2. R[j].e <= R[k + 1].s
        BY <2>2, <4>1
      <4>3. (s - 1) + 1 = s
        BY <3>4
      <4>. QED BY <3>1, <3>2, <4>2, <4>3
    <3>12. ASSUME NEW i \in 1..(k + 1) PROVE s - 1 < R[i].s
      <4>1. CASE i = k + 1
        BY <3>1, <3>2, <3>4, <4>1
      <4>2. CASE i # k + 1
        <5>1. i \in 1..n /\ i < k + 1
          BY <2>2, <4>2
        <5>2. R[k + 1].e <= R[i].s /\ R[i].s \in Nat
          BY <2>2, <5>1 DEF InText
        <5>3. e <= R[i].s
          BY <3>1, <3>2, <5>2
        <5>4. PICK r \in Nat : r = R[i].s
          BY <5>2
        <5>5. s - 1 < r
          BY <3>a, <3>b, <5>3, <5>4
        <5>. QED BY <5>4, <5>5
      <4>. QED BY <4>1, <4>2
    <3>13. Stands(T, R, n, f[k + 1], k + 1, s - 1, <<Mask(x)>> \o V)
      BY <3>10, <3>11, <3>12 DEF Stands
    <3>14. Puts(R, f, k + 1)
      BY <2>5, <3>10 DEF Puts
    <3>. QED BY <3>4, <3>8, <3>9, <3>13, <3>14
  <2>. QED BY <2>4, <2>5
<1>. HIDE DEF S
<1>3. \A k \in Nat : k \in S
  BY <1>1, <1>2, CountedUp
<1>4. PICK p \in 0..Len(T), W \in Seq(C) : <<p, W>> \in P /\ Stands(T, R, n, f[n], n, p, W)
  <2>1. n <= n /\ n \in S
    BY <1>3
  <2>2. At(n)
    BY <2>1 DEF S
  <2>. QED BY <2>2
<1>8. ASSUME NEW k \in 1..n PROVE Puts(R, f, k)
  <2>1. k \in Nat /\ k <= n /\ 0 < k
    OBVIOUS
  <2>2. k \in S
    BY <1>3, <2>1
  <2>. HIDE DEF At
  <2>. QED BY <2>1, <2>2 DEF S
<1>5. p \in Nat /\ 0 \in Nat /\ 0 <= p /\ p <= Len(T) /\ 0 + 1 = 1
  OBVIOUS
<1>6. ASSUME NEW i \in (0 + 1)..p, NEW y \in X PROVE ~Covers(y, i)
  <2>1. PICK j \in 1..n : y = R[j] /\ Maskable(R[j])
    OBVIOUS
  <2>2. p < y.s /\ y.s \in Nat
    BY <1>4, <2>1 DEF Stands, InText
  <2>. QED BY <1>5, <2>2 DEF Covers
<1>7. <<0, SubSeq(T, 0 + 1, p) \o W>> \in P /\ SubSeq(T, 0 + 1, p) \o W \in Seq(C)
  BY <1>4, <1>5, <1>6, WalkDown
<1>. QED BY <1>4, <1>5, <1>7, <1>8 DEF Stands, FoldsTo

(* What stands from a span on: the span, then the rest.                    *)
LEMMA TailSpan ==
  ASSUME NEW C, NEW f \in [C -> Seq(C)], NEW T \in Seq(C), NEW x, InText(T, x)
  PROVE  /\ Spread(TailFrom(T, x.s - 1), f) = Spread(SubSeq(T, x.s, x.e - 1), f) \o Spread(TailFrom(T, x.e - 1), f)
         /\ SubSeq(T, x.s, x.e - 1) \in Seq(C) /\ TailFrom(T, x.e - 1) \in Seq(C)
              /\ TailFrom(T, x.s - 1) \in Seq(C)
<1>1. PICK n \in Nat : n = Len(T)
  OBVIOUS
<1>2. PICK a \in Nat : a = x.s /\ 1 <= a /\ a <= n /\ (a - 1) + 1 = a
  BY <1>1 DEF InText
<1>3. PICK b \in Nat : b = x.e - 1 /\ a <= b /\ b <= n
  <2>1. x.e - 1 \in Nat /\ a <= x.e - 1 /\ x.e - 1 <= n
    BY <1>1, <1>2 DEF InText
  <2>. QED BY <2>1
<1>4. /\ SubSeq(T, a, b) \o SubSeq(T, b + 1, n) = SubSeq(T, a, n)
      /\ SubSeq(T, a, b) \in Seq(C) /\ SubSeq(T, b + 1, n) \in Seq(C) /\ SubSeq(T, a, n) \in Seq(C)
  <2>1. 1 <= a /\ a <= b + 1 /\ b <= n /\ n <= Len(T)
    BY <1>1, <1>2, <1>3
  <2>. QED BY <2>1, SlicesJoin
<1>5. Spread(SubSeq(T, a, b) \o SubSeq(T, b + 1, n), f) = Spread(SubSeq(T, a, b), f) \o Spread(SubSeq(T, b + 1, n), f)
  BY <1>4, SpreadConcat
<1>. QED BY <1>1, <1>2, <1>3, <1>4, <1>5 DEF TailFrom

(* How often a cell occurs is how long the text of nothing else is.        *)
LEMMA CountIs ==
  ASSUME NEW C, NEW c \in C, NEW T \in Seq(C)
  PROVE  CountOf(c, T) = Len(Spread(T, Sieve({c}, C))) /\ CountOf(c, T) \in Nat
<1>. DEFINE K == Sieve({c}, C)
            S == {t \in Seq(C) : /\ IsFiniteSet({i \in DOMAIN t : t[i] = c})
                                 /\ Cardinality({i \in DOMAIN t : t[i] = c}) = Len(Spread(t, K))}
<1>1. K \in [C -> Seq(C)] /\ K[c] = <<c>> /\ \A d \in C : d # c => K[d] = <<>>
  BY KeepsType
<1>. HIDE DEF K
<1>2. <<>> \in S
  <2>1. {i \in DOMAIN <<>> : <<>>[i] = c} = {}
    OBVIOUS
  <2>2. Spread(<<>>, K) = <<>>
    <3>1. PICK o \in Seq(C) : o = <<>>
      <4>1. <<>> \in Seq(C)
        OBVIOUS
      <4>. QED BY <4>1
    <3>a. Placed(o, K) \in Seq(Seq(C)) /\ Len(Placed(o, K)) = Len(o) /\ Spread(o, K) = FlattenSeq(Placed(o, K))
      BY <1>1, SpreadRows
    <3>2. Placed(<<>>, K) \in Seq(Seq(C)) /\ Len(Placed(<<>>, K)) = 0
            /\ Spread(<<>>, K) = FlattenSeq(Placed(<<>>, K))
      BY <3>1, <3>a
    <3>3. FlattenSeq(Placed(<<>>, K)) = <<>>
      <4>1. \A i \in 1..Len(Placed(<<>>, K)) : Placed(<<>>, K)[i] = <<>>
        BY <3>2
      <4>. QED BY <3>2, <4>1, FlatNothing
    <3>. QED BY <3>2, <3>3
  <2>3. IsFiniteSet({}) /\ Cardinality({}) = 0 /\ Len(<<>>) = 0 /\ <<>> \in Seq(C)
    BY FS_EmptySet
  <2>. QED BY <2>1, <2>2, <2>3
<1>3. ASSUME NEW t \in Seq(C), NEW d \in C, t \in S PROVE Append(t, d) \in S
  <2>. DEFINE a == Append(t, d)
              A == {i \in DOMAIN t : t[i] = c}
              B == {i \in DOMAIN a : a[i] = c}
              n == Len(t)
  <2>1. a \in Seq(C) /\ DOMAIN a = 1..(n + 1) /\ a[n + 1] = d /\ (\A i \in 1..n : a[i] = t[i])
          /\ n \in Nat /\ DOMAIN t = 1..n
    OBVIOUS
  <2>2. IsFiniteSet(A) /\ Cardinality(A) = Len(Spread(t, K))
    BY <1>3
  <2>3. Spread(a, K) = Spread(t, K) \o K[d] /\ Spread(t, K) \in Seq(C)
    BY <1>1, SpreadAppend, SpreadType
  <2>. HIDE DEF a, n
  <2>4. CASE d = c
    <3>1. B = A \cup {n + 1} /\ n + 1 \notin A
      <4>1. \A i : i \in 1..(n + 1) <=> i \in 1..n \/ i = n + 1
        BY <2>1
      <4>2. n + 1 \notin 1..n /\ n + 1 \in 1..(n + 1)
        BY <2>1
      <4>. QED BY <2>1, <2>4, <4>1, <4>2
    <3>2. IsFiniteSet(B) /\ Cardinality(B) = Cardinality(A) + 1
      <4>1. IsFiniteSet(A \cup {n + 1})
              /\ Cardinality(A \cup {n + 1}) = IF n + 1 \in A THEN Cardinality(A) ELSE Cardinality(A) + 1
        BY <2>2, FS_AddElement, Zenon
      <4>. QED BY <3>1, <4>1
    <3>3. Len(Spread(a, K)) = Len(Spread(t, K)) + 1
      <4>1. K[d] = <<c>> /\ <<c>> \in Seq(C)
        BY <1>1, <2>4
      <4>. QED BY <2>3, <4>1
    <3>. QED BY <2>1, <2>2, <3>2, <3>3 DEF a
  <2>5. CASE d # c
    <3>1. B = A
      <4>1. \A i : i \in 1..(n + 1) <=> i \in 1..n \/ i = n + 1
        BY <2>1
      <4>. QED BY <2>1, <2>5, <4>1
    <3>2. Spread(a, K) = Spread(t, K)
      <4>1. K[d] = <<>>
        BY <1>1, <2>5
      <4>. QED BY <2>3, <4>1
    <3>. QED BY <2>1, <2>2, <3>1, <3>2 DEF a
  <2>. QED BY <2>4, <2>5
<1>. HIDE DEF S
<1>4. \A t \in Seq(C) : t \in S
  BY <1>2, <1>3, BuiltUp
<1>5. T \in S
  BY <1>4
<1>6. Spread(T, K) \in Seq(C)
  BY <1>1, SpreadType
<1>. QED BY <1>5, <1>6 DEF S, K, CountOf

-----------------------------------------------------------------------------
(* Sorting entities                                                        *)

RightOrder(S)  == {w \in S \X S : w[1].s > w[2].s}

LeftOrder(S)   == {w \in S \X S : w[1].s < w[2].s}

ScoreOrder(S)  == {w \in S \X S : HigherScore(w[1], w[2])}

SureOrder(S) == {w \in S \X S : ByConfidence(w[1], w[2])}

(* Entities that begin at different cells, put from the right to the left. *)
Starts(S) == IsFiniteSet(S) /\ (\A x \in S : x.s \in Nat) /\ \A x, y \in S : x.s = y.s => x = y

LEMMA RightToLeftHolds ==
  ASSUME NEW ents, Starts(Range(ents))
  PROVE  InOrderOf(RightToLeft(ents), Range(ents), RightOrder(Range(ents)))
<1>. DEFINE S == Range(ents)
            R == RightOrder(S)
            n == Cardinality(S)
<1>1. \A x, y \in S : Precedes(R, x, y) <=> x.s > y.s
  BY DEF Precedes, RightOrder
<1>2. IsFiniteSet(S) /\ (\A x \in S : x.s \in Nat) /\ \A x, y \in S : x.s = y.s => x = y
  BY DEF Starts
<1>. HIDE DEF R, S
<1>3. Total(S, R) /\ Passes(S, R) /\ \A x \in S : ~Precedes(R, x, x)
  BY <1>1, <1>2 DEF Total, Passes
<1>4. PICK p : Sorts(p, S, R)
  BY <1>2, <1>3, SortExists
<1>5. PICK q : q = RightToLeft(ents)
  OBVIOUS
<1>6. q = CHOOSE u \in [1..n -> S] : \A i, j \in DOMAIN u : i < j => u[i].s > u[j].s
  BY <1>5 DEF RightToLeft, InOrder, S
<1>7. p \in [1..n -> S] /\ \A i, j \in DOMAIN p : i < j => p[i].s > p[j].s
  <2>1. p \in [1..n -> S] /\ \A i, j \in DOMAIN p : i < j => Precedes(R, p[i], p[j])
    BY <1>4 DEF Sorts
  <2>. QED BY <1>1, <2>1
<1>8. q \in [1..n -> S] /\ \A i, j \in DOMAIN q : i < j => q[i].s > q[j].s
  BY <1>6, <1>7
<1>9. Sorts(q, S, R)
  BY <1>1, <1>8 DEF Sorts
<1>. QED BY <1>2, <1>3, <1>5, <1>9, SortHolds DEF InOrderOf, R, S

LEMMA ByPositionHolds ==
  ASSUME NEW ents, Starts(Range(ents))
  PROVE  InOrderOf(ByPosition(ents), Range(ents), LeftOrder(Range(ents)))
<1>. DEFINE S == Range(ents)
            R == LeftOrder(S)
            n == Cardinality(S)
<1>1. \A x, y \in S : Precedes(R, x, y) <=> x.s < y.s
  BY DEF Precedes, LeftOrder
<1>2. IsFiniteSet(S) /\ (\A x \in S : x.s \in Nat) /\ \A x, y \in S : x.s = y.s => x = y
  BY DEF Starts
<1>. HIDE DEF R, S
<1>3. Total(S, R) /\ Passes(S, R) /\ \A x \in S : ~Precedes(R, x, x)
  BY <1>1, <1>2 DEF Total, Passes
<1>4. PICK p : Sorts(p, S, R)
  BY <1>2, <1>3, SortExists
<1>5. PICK q : q = ByPosition(ents)
  OBVIOUS
<1>6. q = CHOOSE u \in [1..n -> S] : \A i, j \in DOMAIN u : i < j => u[i].s < u[j].s
  BY <1>5 DEF ByPosition, InOrder, S
<1>7. p \in [1..n -> S] /\ \A i, j \in DOMAIN p : i < j => p[i].s < p[j].s
  <2>1. p \in [1..n -> S] /\ \A i, j \in DOMAIN p : i < j => Precedes(R, p[i], p[j])
    BY <1>4 DEF Sorts
  <2>. QED BY <1>1, <2>1
<1>8. q \in [1..n -> S] /\ \A i, j \in DOMAIN q : i < j => q[i].s < q[j].s
  BY <1>6, <1>7
<1>9. Sorts(q, S, R)
  BY <1>1, <1>8 DEF Sorts
<1>. QED BY <1>2, <1>3, <1>5, <1>9, SortHolds DEF InOrderOf, R, S

(* The trailing sort of scoring: by confidence, then by position.          *)
LEMMA ByScoreHolds ==
  ASSUME NEW ents, Starts(Range(ents)), \A x \in Range(ents) : x.conf \in Nat
  PROVE  InOrderOf(ByScore(ents), Range(ents), ScoreOrder(Range(ents)))
<1>. DEFINE S == Range(ents)
            R == ScoreOrder(S)
            n == Cardinality(S)
<1>1. \A x, y \in S : Precedes(R, x, y) <=> HigherScore(x, y)
  BY DEF Precedes, ScoreOrder
<1>2. IsFiniteSet(S) /\ (\A x \in S : x.s \in Nat /\ x.conf \in Nat) /\ \A x, y \in S : x.s = y.s => x = y
  BY DEF Starts
<1>. HIDE DEF R, S
<1>3. Total(S, R) /\ Passes(S, R) /\ \A x \in S : ~Precedes(R, x, x)
  BY <1>1, <1>2 DEF Total, Passes, HigherScore
<1>4. PICK p : Sorts(p, S, R)
  BY <1>2, <1>3, SortExists
<1>5. PICK q : q = ByScore(ents)
  OBVIOUS
<1>6. q = CHOOSE u \in [1..n -> S] : \A i, j \in DOMAIN u : i < j => HigherScore(u[i], u[j])
  BY <1>5 DEF ByScore, InOrder, S
<1>7. p \in [1..n -> S] /\ \A i, j \in DOMAIN p : i < j => HigherScore(p[i], p[j])
  <2>1. p \in [1..n -> S] /\ \A i, j \in DOMAIN p : i < j => Precedes(R, p[i], p[j])
    BY <1>4 DEF Sorts
  <2>. QED BY <1>1, <2>1
<1>8. q \in [1..n -> S] /\ \A i, j \in DOMAIN q : i < j => HigherScore(q[i], q[j])
  BY <1>6, <1>7
<1>9. Sorts(q, S, R)
  BY <1>1, <1>8 DEF Sorts
<1>. QED BY <1>2, <1>3, <1>5, <1>9, SortHolds DEF InOrderOf, R, S

(* The order in which duplicates are weighed.                              *)
Ranked(S) ==
  /\ IsFiniteSet(S)
  /\ \A x \in S : x.s \in Nat /\ x.e \in Nat /\ x.conf \in Nat /\ x.by \in DOMAIN Rank
  /\ \A x, y \in S : x.s = y.s /\ x.e = y.e /\ x.by = y.by => x = y

LEMMA SurestHolds ==
  ASSUME NEW S, Ranked(S)
  PROVE  InOrderOf(InOrder(S, ByConfidence), S, SureOrder(S))
<1>. DEFINE R == SureOrder(S)
            n == Cardinality(S)
<1>1. \A x, y \in S : Precedes(R, x, y) <=> ByConfidence(x, y)
  BY DEF Precedes, SureOrder
<1>2. /\ IsFiniteSet(S)
      /\ \A x \in S : x.s \in Nat /\ x.e \in Nat /\ x.conf \in Nat /\ x.by \in DOMAIN Rank
      /\ \A x, y \in S : x.s = y.s /\ x.e = y.e /\ x.by = y.by => x = y
  BY DEF Ranked
<1>. HIDE DEF R
<1>a. \A d \in DOMAIN Rank : Rank[d] \in Nat
  BY DEF Rank
<1>b. \A d, g \in DOMAIN Rank : Rank[d] = Rank[g] => d = g
  BY DEF Rank
<1>3. Total(S, R)
  <2>. SUFFICES ASSUME NEW x \in S, NEW y \in S, x # y PROVE ByConfidence(x, y) \/ ByConfidence(y, x)
    BY <1>1 DEF Total
  <2>1. x.s # y.s \/ x.e # y.e \/ Rank[x.by] # Rank[y.by]
    BY <1>2, <1>b
  <2>. QED BY <1>2, <1>a, <2>1 DEF ByConfidence
<1>c. Passes(S, R)
  <2>. SUFFICES ASSUME NEW x \in S, NEW y \in S, NEW z \in S, ByConfidence(x, y), ByConfidence(y, z)
                PROVE  ByConfidence(x, z)
    BY <1>1 DEF Passes
  <2>1. Rank[x.by] \in Nat /\ Rank[y.by] \in Nat /\ Rank[z.by] \in Nat
    BY <1>2, <1>a
  <2>. QED BY <1>2, <2>1 DEF ByConfidence
<1>d. \A x \in S : ~Precedes(R, x, x)
  BY <1>1, <1>2, <1>a DEF ByConfidence
<1>4. PICK p : Sorts(p, S, R)
  BY <1>2, <1>3, <1>c, SortExists
<1>5. PICK q : q = InOrder(S, ByConfidence)
  OBVIOUS
<1>6. q = CHOOSE u \in [1..n -> S] : \A i, j \in DOMAIN u : i < j => ByConfidence(u[i], u[j])
  BY <1>5 DEF InOrder
<1>7. p \in [1..n -> S] /\ \A i, j \in DOMAIN p : i < j => ByConfidence(p[i], p[j])
  <2>1. p \in [1..n -> S] /\ \A i, j \in DOMAIN p : i < j => Precedes(R, p[i], p[j])
    BY <1>4 DEF Sorts
  <2>. QED BY <1>1, <2>1
<1>8. q \in [1..n -> S] /\ \A i, j \in DOMAIN q : i < j => ByConfidence(q[i], q[j])
  BY <1>6, <1>7
<1>9. Sorts(q, S, R)
  BY <1>1, <1>8 DEF Sorts
<1>. QED BY <1>2, <1>d, <1>5, <1>9, SortHolds DEF InOrderOf, R

-----------------------------------------------------------------------------
(* What masking makes of a text                                            *)

Apart(x, y)    == x.e <= y.s \/ y.e <= x.s

AllApart(ents) == \A j, k \in 1..Len(ents) : j # k => Apart(ents[j], ents[k])

Spans(ents, T) == /\ ents \in Seq(Range(ents)) /\ AllApart(ents)
                  /\ \A k \in 1..Len(ents) : InText(T, ents[k])

ToMask(ents)   == {x \in Range(ents) : Maskable(x)}

LEMMA SpansStart ==
  ASSUME NEW ents, NEW C, NEW T \in Seq(C), Spans(ents, T)
  PROVE  /\ Starts(Range(ents)) /\ \A x \in Range(ents) : InText(T, x)
         /\ \A x, y \in Range(ents) : x # y => Apart(x, y)
         /\ Range(ents) = {ents[i] : i \in 1..Len(ents)} /\ Len(ents) \in Nat
<1>1. ents \in Seq(Range(ents)) /\ Len(ents) \in Nat
  BY DEF Spans
<1>2. IsFiniteSet(Range(ents)) /\ Range(ents) = {ents[i] : i \in 1..Len(ents)}
  BY <1>1, RangeFinite
<1>3. \A x \in Range(ents) : InText(T, x)
  BY <1>2 DEF Spans
<1>4. \A x, y \in Range(ents) : x # y => Apart(x, y)
  BY <1>2 DEF Spans, AllApart
<1>5. \A x \in Range(ents) : x.s \in Nat /\ x.e \in Nat /\ x.s < x.e
  BY <1>3 DEF InText
<1>6. \A x, y \in Range(ents) : x.s = y.s => x = y
  BY <1>4, <1>5 DEF Apart
<1>. QED BY <1>1, <1>2, <1>3, <1>4, <1>5, <1>6 DEF Starts

(* What masking makes of a text.                                           *)
LEMMA AppliedWalk ==
  ASSUME NEW C, NEW T \in Seq(C), NEW ents, Spans(ents, T), \A x \in Range(ents) : Mask(x) \in C,
         NEW P, Walk(T, ToMask(ents), C, P)
  PROVE  <<0, ApplyMasks(T, ents)>> \in P /\ ApplyMasks(T, ents) \in Seq(C)
<1>. DEFINE S == Range(ents)
            X == Seq(C)
<1>1. Starts(S) /\ (\A x \in S : InText(T, x)) /\ \A x, y \in S : x # y => Apart(x, y)
  BY SpansStart
<1>2. PICK R : R = RightToLeft(ents)
  OBVIOUS
<1>3. InOrderOf(R, S, RightOrder(S))
  BY <1>1, <1>2, RightToLeftHolds
<1>4. PICK n \in Nat : n = Len(R)
  BY <1>3 DEF InOrderOf
<1>5. R \in Seq(S) /\ Range(R) = S /\ \A i \in 1..n : R[i] \in S
  BY <1>3, <1>4 DEF InOrderOf
<1>6. ASSUME NEW i \in 1..n, NEW j \in 1..n, i < j PROVE R[j].e <= R[i].s
  <2>1. R[i].s > R[j].s
    BY <1>3, <1>4, <1>6 DEF InOrderOf, Precedes, RightOrder
  <2>2. PICK x \in S, y \in S : x = R[i] /\ y = R[j]
    BY <1>5
  <2>3. x.s \in Nat /\ y.s \in Nat /\ x.e \in Nat /\ y.e \in Nat /\ x.s < x.e /\ y.s < y.e
    <3>1. InText(T, x) /\ InText(T, y) /\ Len(T) \in Nat
      BY <1>1
    <3>. QED BY <3>1 DEF InText
  <2>4. Apart(x, y)
    <3>1. x # y
      BY <2>1, <2>2, <2>3
    <3>. QED BY <1>1, <3>1
  <2>. QED BY <2>1, <2>2, <2>3, <2>4 DEF Apart
<1>7. S = {R[i] : i \in 1..n}
  BY <1>3, <1>4, <1>5, RangeFinite
<1>8. \A i \in 1..n : InText(T, R[i]) /\ Mask(R[i]) \in C
  BY <1>1, <1>5
<1>9. Walk(T, {x \in {R[i] : i \in 1..n} : Maskable(x)}, C, P)
  BY <1>7 DEF ToMask
<1>. DEFINE Goes(w) == Maskable(R[w[1]]) /\ Replace(w[2], R[w[1]], Mask(R[w[1]])) \in X
            G == [w \in (1..n) \X X |-> IF Goes(w) THEN Replace(w[2], R[w[1]], Mask(R[w[1]])) ELSE w[2]]
<1>10. G \in [(1..n) \X X -> X]
  OBVIOUS
<1>11. \A k \in 1..n : \A t \in X : G[<<k, t>>]
         = IF Maskable(R[k]) /\ Replace(t, R[k], Mask(R[k])) \in X THEN Replace(t, R[k], Mask(R[k])) ELSE t
  OBVIOUS
<1>. HIDE DEF G, S
<1>12. PICK f \in [0..n -> X] : f[0] = T /\ \A k \in 1..n : f[k] = G[<<k, f[k - 1]>>]
  <2>1. T \in X /\ n \in Nat
    OBVIOUS
  <2>2. StepsUp(X, T, n, G)
    BY <1>10, <2>1, StepsExist
  <2>. QED BY <2>2 DEF StepsUp
<1>13. ASSUME NEW k \in 1..n PROVE PutsOr(C, R, f, k)
  <2>1. k - 1 \in 0..n /\ f[k - 1] \in X
    <3>1. k - 1 \in 0..n
      OBVIOUS
    <3>. QED BY <3>1
  <2>2. f[k] = IF Maskable(R[k]) /\ Replace(f[k - 1], R[k], Mask(R[k])) \in X
               THEN Replace(f[k - 1], R[k], Mask(R[k])) ELSE f[k - 1]
    BY <1>11, <1>12, <2>1
  <2>. QED BY <2>2 DEF PutsOr, Put
<1>14. \A k \in 1..n : Puts(R, f, k)
  BY <1>6, <1>8, <1>9, <1>12, <1>13, MasksFold DEF FoldsTo
<1>. DEFINE Is(m) == m = [k \in 0..n |-> IF k = 0 THEN T
                          ELSE IF Maskable(R[k]) THEN Replace(m[k - 1], R[k], Mask(R[k])) ELSE m[k - 1]]
<1>15. Is(f)
  <2>1. ASSUME NEW k \in 0..n
        PROVE  f[k] = IF k = 0 THEN T
                      ELSE IF Maskable(R[k]) THEN Replace(f[k - 1], R[k], Mask(R[k])) ELSE f[k - 1]
    <3>1. CASE k = 0
      BY <1>12, <3>1
    <3>2. CASE k # 0
      <4>1. k \in 1..n
        BY <3>2
      <4>2. Puts(R, f, k)
        BY <1>14, <4>1
      <4>. QED BY <3>2, <4>2 DEF Puts, Put
    <3>. QED BY <3>1, <3>2
  <2>2. f = [k \in 0..n |-> f[k]]
    OBVIOUS
  <2>. QED BY <2>1, <2>2
<1>16. PICK m : Is(m) /\ ApplyMasks(T, ents) = m[n]
  <2>1. ApplyMasks(T, ents) = (CHOOSE m : Is(m))[n]
    BY <1>2, <1>4 DEF ApplyMasks
  <2>2. Is(CHOOSE m : Is(m))
    BY <1>15
  <2>. QED BY <2>1, <2>2
<1>17. m[0] = T
         /\ \A k \in 1..n : m[k] = IF Maskable(R[k]) THEN Replace(m[k - 1], R[k], Mask(R[k])) ELSE m[k - 1]
  <2>1. m = [k \in 0..n |-> IF k = 0 THEN T
                     ELSE IF Maskable(R[k]) THEN Replace(m[k - 1], R[k], Mask(R[k])) ELSE m[k - 1]]
    BY <1>16
  <2>2. 0 \in 0..n /\ \A k \in 1..n : k \in 0..n /\ k # 0
    OBVIOUS
  <2>. QED BY <2>1, <2>2
<1>18. \A k \in 1..n : PutsOr(C, R, m, k)
  BY <1>17 DEF PutsOr, Put
<1>. HIDE DEF Is
<1>19. <<0, m[n]>> \in P /\ m[n] \in Seq(C)
  <2>1. FoldsTo(C, R, n, m, P)
    BY <1>6, <1>8, <1>9, <1>17, <1>18, MasksFold
  <2>. QED BY <2>1 DEF FoldsTo
<1>. QED BY <1>16, <1>19

(* What masking keeps, counts and leaves readable.  Whatever rewriting     *)
(* gives the same for a label as for the span it stands for, and for the   *)
(* cells themselves, gives the same for the masked text as for the text.   *)
Labelled(T, ents, C) == T \in Seq(C) /\ Spans(ents, T) /\ \A x \in Range(ents) : Mask(x) \in C

AlikeOn(T, ents, f, g) ==
  /\ \A i \in 1..Len(T) : f[T[i]] = g[T[i]]
  /\ \A x \in ToMask(ents) : f[Mask(x)] = Spread(SubSeq(T, x.s, x.e - 1), g)

Follows(T, ents, C, f, g) == ApplyMasks(T, ents) \in Seq(C) /\ Spread(ApplyMasks(T, ents), f) = Spread(T, g)

LEMMA MaskedSpread ==
  ASSUME NEW C, NEW T, NEW ents, Labelled(T, ents, C),
         NEW f \in [C -> Seq(C)], NEW g \in [C -> Seq(C)], AlikeOn(T, ents, f, g)
  PROVE  Follows(T, ents, C, f, g)
<1>0. /\ T \in Seq(C) /\ Spans(ents, T) /\ \A x \in Range(ents) : Mask(x) \in C
      /\ \A i \in 1..Len(T) : f[T[i]] = g[T[i]]
      /\ \A x \in ToMask(ents) : f[Mask(x)] = Spread(SubSeq(T, x.s, x.e - 1), g)
  BY DEF Labelled, AlikeOn
<1>. DEFINE P == {w \in Int \X Seq(C) : Spread(w[2], f) = Spread(TailFrom(T, w[1]), g)}
            X == ToMask(ents)
<1>1. \A p \in Int : \A W \in Seq(C) : <<p, W>> \in P <=> Spread(W, f) = Spread(TailFrom(T, p), g)
  OBVIOUS
<1>2. \A p : \A W : <<p, W>> \in P => p \in Int /\ W \in Seq(C)
  OBVIOUS
<1>3. \A x \in X : InText(T, x) /\ Mask(x) \in C /\ x.s \in Nat /\ x.e \in Nat
  <2>1. \A x \in X : InText(T, x) /\ Mask(x) \in C
    BY <1>0, SpansStart DEF ToMask
  <2>. QED BY <2>1 DEF InText
<1>. HIDE DEF P, X
<1>4. <<Len(T), <<>>>> \in P
  <2>1. TailFrom(T, Len(T)) = <<>> /\ Len(T) \in Int /\ <<>> \in Seq(C)
    BY <1>0, SubSeqEmpty DEF TailFrom
  <2>2. Spread(<<>>, f) = <<>> /\ Spread(<<>>, g) = <<>>
    BY FlatEmpty DEF Spread
  <2>. QED BY <1>1, <2>1, <2>2
<1>5. ASSUME NEW p \in 1..Len(T), NEW W \in Seq(C), <<p, W>> \in P PROVE <<p - 1, <<T[p]>> \o W>> \in P
  <2>1. Spread(W, f) = Spread(TailFrom(T, p), g)
    BY <1>1, <1>5
  <2>2. Spread(TailFrom(T, p - 1), g) = g[T[p]] \o Spread(TailFrom(T, p), g) /\ T[p] \in C
    BY <1>0, TailCell
  <2>3. CellSpreads(C, f, T[p], W)
    BY <2>2, SpreadCell
  <2>4. f[T[p]] = g[T[p]] /\ p - 1 \in Int
    BY <1>0
  <2>. QED BY <1>1, <2>1, <2>2, <2>3, <2>4 DEF CellSpreads
<1>6. ASSUME NEW x \in X, NEW W \in Seq(C), <<x.e - 1, W>> \in P PROVE <<x.s - 1, <<Mask(x)>> \o W>> \in P
  <2>1. Spread(W, f) = Spread(TailFrom(T, x.e - 1), g)
    BY <1>1, <1>2, <1>6
  <2>2. Spread(TailFrom(T, x.s - 1), g) = Spread(SubSeq(T, x.s, x.e - 1), g) \o Spread(TailFrom(T, x.e - 1), g)
    BY <1>0, <1>3, TailSpan
  <2>3. CellSpreads(C, f, Mask(x), W)
    BY <1>3, SpreadCell
  <2>4. f[Mask(x)] = Spread(SubSeq(T, x.s, x.e - 1), g) /\ x.s - 1 \in Int
    BY <1>0, <1>3 DEF X
  <2>. QED BY <1>1, <2>1, <2>2, <2>3, <2>4 DEF CellSpreads
<1>7. Walk(T, X, C, P)
  BY <1>4, <1>5, <1>6 DEF Walk
<1>8. <<0, ApplyMasks(T, ents)>> \in P /\ ApplyMasks(T, ents) \in Seq(C)
  BY <1>0, <1>7, AppliedWalk DEF X
<1>9. Spread(ApplyMasks(T, ents), f) = Spread(TailFrom(T, 0), g)
  BY <1>1, <1>8
<1>10. TailFrom(T, 0) = T
  BY <1>0 DEF TailFrom
<1>. QED BY <1>8, <1>9, <1>10 DEF Follows

(* Masking only takes occurrences away of what is no label, and takes one  *)
(* away of what a masked span held at z.                                   *)
LEMMA MaskedCounts ==
  ASSUME NEW C, NEW T \in Seq(C), NEW ents, Spans(ents, T), \A x \in Range(ents) : Mask(x) \in C,
         NEW c \in C, \A x \in ToMask(ents) : Mask(x) # c,
         NEW z \in Nat, z = 0 \/ (z \in 1..Len(T) /\ T[z] = c /\ \E x \in ToMask(ents) : Covers(x, z))
  PROVE  CountOf(c, ApplyMasks(T, ents)) + (IF 0 < z THEN 1 ELSE 0) <= CountOf(c, T)
<1>. DEFINE K == Sieve({c}, C)
            L(W) == Len(Spread(W, K))
            Due(p) == IF p < z THEN 1 ELSE 0
            P == {w \in Int \X Seq(C) : L(w[2]) + Due(w[1]) <= L(TailFrom(T, w[1]))}
            X == ToMask(ents)
<1>1. \A p \in Int : \A W \in Seq(C) : <<p, W>> \in P <=> L(W) + Due(p) <= L(TailFrom(T, p))
  OBVIOUS
<1>2. \A p : \A W : <<p, W>> \in P => p \in Int /\ W \in Seq(C)
  OBVIOUS
<1>3. \A x \in X : InText(T, x) /\ Mask(x) \in C /\ x.s \in Nat /\ x.e \in Nat /\ x.s < x.e /\ x.e <= Len(T) + 1
  <2>1. \A x \in X : InText(T, x) /\ Mask(x) \in C
    BY SpansStart DEF ToMask
  <2>. QED BY <2>1 DEF InText
<1>a. K \in [C -> Seq(C)] /\ \A d \in C : K[d] = IF d = c THEN <<c>> ELSE <<>>
  <2>1. K \in [C -> Seq(C)] /\ \A d \in C : K[d] = IF d \in {c} THEN <<d>> ELSE <<>>
    BY KeepsType
  <2>2. \A d : d \in {c} <=> d = c
    OBVIOUS
  <2>. HIDE DEF K
  <2>. QED BY <2>1, <2>2
<1>. HIDE DEF P, X, K
<1>b. \A W \in Seq(C) : Spread(W, K) \in Seq(C) /\ L(W) \in Nat
  <2>1. \A W \in Seq(C) : Spread(W, K) \in Seq(C)
    BY <1>a, SpreadType
  <2>. QED BY <2>1
<1>4. <<Len(T), <<>>>> \in P
  <2>1. TailFrom(T, Len(T)) = <<>> /\ Len(T) \in Int /\ <<>> \in Seq(C)
    BY SubSeqEmpty DEF TailFrom
  <2>2. L(<<>>) \in Nat /\ Due(Len(T)) = 0
    BY <1>b, <2>1
  <2>3. L(TailFrom(T, Len(T))) = L(<<>>)
    BY <2>1
  <2>. HIDE DEF L, Due
  <2>4. L(<<>>) + Due(Len(T)) <= L(TailFrom(T, Len(T)))
    BY <2>2, <2>3
  <2>. QED BY <1>1, <2>1, <2>4
<1>5. ASSUME NEW p \in 1..Len(T), NEW W \in Seq(C), <<p, W>> \in P, \A x \in X : ~Covers(x, p)
      PROVE  <<p - 1, <<T[p]>> \o W>> \in P
  <2>1. L(W) + Due(p) <= L(TailFrom(T, p))
    BY <1>1, <1>5
  <2>2. Spread(TailFrom(T, p - 1), K) = K[T[p]] \o Spread(TailFrom(T, p), K) /\ T[p] \in C
          /\ TailFrom(T, p) \in Seq(C)
    BY <1>a, TailCell
  <2>3. CellSpreads(C, K, T[p], W)
    BY <1>a, <2>2, SpreadCell
  <2>4. p # z
    BY <1>5 DEF X
  <2>5. PICK k \in Nat : k = Len(K[T[p]])
    BY <1>a, <2>2
  <2>6. L(TailFrom(T, p - 1)) = k + L(TailFrom(T, p)) /\ L(<<T[p]>> \o W) = k + L(W)
    <3>1. Spread(TailFrom(T, p), K) \in Seq(C) /\ Spread(W, K) \in Seq(C) /\ K[T[p]] \in Seq(C)
      BY <1>a, <1>b, <2>2
    <3>. QED BY <2>2, <2>3, <2>5, <3>1 DEF CellSpreads
  <2>7. Due(p - 1) = Due(p) /\ Due(p) \in Nat /\ L(W) \in Nat /\ L(TailFrom(T, p)) \in Nat /\ p - 1 \in Int
    BY <1>b, <2>2, <2>4
  <2>8. <<T[p]>> \o W \in Seq(C)
    BY <2>3 DEF CellSpreads
  <2>. HIDE DEF L, Due
  <2>9. L(<<T[p]>> \o W) + Due(p - 1) <= L(TailFrom(T, p - 1))
    BY <2>1, <2>6, <2>7
  <2>. QED BY <1>1, <2>7, <2>8, <2>9
<1>6. ASSUME NEW x \in X, NEW W \in Seq(C), <<x.e - 1, W>> \in P PROVE <<x.s - 1, <<Mask(x)>> \o W>> \in P
  <2>1. L(W) + Due(x.e - 1) <= L(TailFrom(T, x.e - 1))
    BY <1>1, <1>2, <1>6
  <2>2. /\ Spread(TailFrom(T, x.s - 1), K) = Spread(SubSeq(T, x.s, x.e - 1), K) \o Spread(TailFrom(T, x.e - 1), K)
        /\ SubSeq(T, x.s, x.e - 1) \in Seq(C) /\ TailFrom(T, x.e - 1) \in Seq(C)
    BY <1>3, <1>a, TailSpan
  <2>3. CellSpreads(C, K, Mask(x), W)
    BY <1>3, <1>a, SpreadCell
  <2>4. K[Mask(x)] = <<>>
    BY <1>3, <1>a DEF X
  <2>5. PICK u \in Seq(C) : u = SubSeq(T, x.s, x.e - 1)
    BY <2>2
  <2>6. L(TailFrom(T, x.s - 1)) = L(u) + L(TailFrom(T, x.e - 1)) /\ L(<<Mask(x)>> \o W) = L(W)
    <3>1. Spread(TailFrom(T, x.e - 1), K) \in Seq(C) /\ Spread(u, K) \in Seq(C) /\ Spread(W, K) \in Seq(C)
      BY <1>b, <2>2
    <3>2. Spread(<<Mask(x)>> \o W, K) = Spread(W, K)
      BY <2>3, <2>4, <3>1 DEF CellSpreads
    <3>. QED BY <2>2, <2>5, <3>1, <3>2
  <2>7. Due(x.s - 1) \in Nat /\ Due(x.e - 1) \in Nat /\ L(W) \in Nat /\ L(u) \in Nat
          /\ L(TailFrom(T, x.e - 1)) \in Nat /\ x.s - 1 \in Int
    BY <1>3, <1>b, <2>2
  <2>8. Due(x.s - 1) <= Due(x.e - 1) + L(u)
    <3>1. CASE ~(x.s <= z /\ z < x.e)
      BY <1>3, <2>7, <3>1
    <3>2. CASE x.s <= z /\ z < x.e
      <4>1. PICK i \in 1..Len(u) : u[i] = c
        <5>1. PICK a \in Nat, b \in Nat : a = x.s /\ b = x.e - 1 /\ 1 <= a /\ a <= b + 1 /\ b <= Len(T)
                /\ a <= z /\ z <= b
          <6>1. x.s \in Nat /\ x.e - 1 \in Nat /\ 1 <= x.s /\ x.s <= (x.e - 1) + 1 /\ x.e - 1 <= Len(T)
                  /\ x.s <= z /\ z <= x.e - 1
            BY <1>3, <3>2 DEF InText
          <6>. QED BY <6>1
        <5>2. u \in Seq(C) /\ Len(u) = b - a + 1 /\ \A i \in 1..(b - a + 1) : u[i] = T[a + i - 1]
          <6>1. u = SubSeq(T, a, b)
            BY <2>5, <5>1
          <6>0. 1 <= a /\ a <= b + 1 /\ b <= Len(T)
            BY <5>1
          <6>2. /\ SubSeq(T, a, b) \in Seq(C) /\ Len(SubSeq(T, a, b)) = b - a + 1
                /\ \A i \in 1..(b - a + 1) : SubSeq(T, a, b)[i] = T[a + i - 1]
            BY <6>0, SliceOf
          <6>. QED BY <6>1, <6>2
        <5>3. (z - a) + 1 \in 1..(b - a + 1) /\ a + ((z - a) + 1) - 1 = z
          BY <5>1
        <5>4. T[z] = c
          BY <5>1
        <5>. QED BY <5>2, <5>3, <5>4
      <4>2. L(u) = CountOf(c, u) /\ L(u) \in Nat
        BY CountIs DEF K
      <4>3. L(u) # 0
        <5>1. IsFiniteSet(DOMAIN u)
          <6>1. DOMAIN u = 1..Len(u) /\ Len(u) \in Nat
            OBVIOUS
          <6>. QED BY <6>1, FS_Interval
        <5>2. IsFiniteSet({j \in DOMAIN u : u[j] = c})
          BY <5>1, FS_Subset
        <5>3. {j \in DOMAIN u : u[j] = c} # {}
          BY <4>1
        <5>. QED BY <4>2, <5>2, <5>3, FS_EmptySet DEF CountOf
      <4>. QED BY <2>7, <4>2, <4>3
    <3>. QED BY <3>1, <3>2
  <2>9. <<Mask(x)>> \o W \in Seq(C)
    BY <2>3 DEF CellSpreads
  <2>. HIDE DEF L, Due
  <2>10. L(<<Mask(x)>> \o W) + Due(x.s - 1) <= L(TailFrom(T, x.s - 1))
    BY <2>1, <2>6, <2>7, <2>8
  <2>. QED BY <1>1, <2>7, <2>9, <2>10
<1>7. Walk(T, X, C, P)
  BY <1>4, <1>5, <1>6 DEF Walk
<1>8. <<0, ApplyMasks(T, ents)>> \in P /\ ApplyMasks(T, ents) \in Seq(C)
  BY <1>7, AppliedWalk DEF X
<1>9. L(ApplyMasks(T, ents)) + Due(0) <= L(TailFrom(T, 0))
  BY <1>1, <1>8
<1>10. TailFrom(T, 0) = T
  BY DEF TailFrom
<1>11. L(ApplyMasks(T, ents)) = CountOf(c, ApplyMasks(T, ents)) /\ L(T) = CountOf(c, T)
  BY <1>8, CountIs DEF K
<1>. QED BY <1>9, <1>10, <1>11

-----------------------------------------------------------------------------
(* What masking leaves readable                                            *)

(* What stands between two others is found in them.                        *)
LEMMA FoundBetween ==
  ASSUME NEW C, NEW v \in Seq(C), NEW t \in Seq(C), NEW u \in Seq(C), 0 < Len(t)
  PROVE  Occurs(t, v \o (t \o u))
<1>1. PICK w \in Seq(C) : w = t \o u /\ Len(w) = Len(t) + Len(u)
        /\ \A i \in 1..(Len(t) + Len(u)) : w[i] = IF i <= Len(t) THEN t[i] ELSE u[i - Len(t)]
  <2>1. /\ t \o u \in Seq(C) /\ Len(t \o u) = Len(t) + Len(u)
        /\ \A i \in 1..(Len(t) + Len(u)) : (t \o u)[i] = IF i <= Len(t) THEN t[i] ELSE u[i - Len(t)]
    BY ConcatProperties
  <2>. QED BY <2>1
<1>2. PICK y \in Seq(C) : y = v \o w /\ Len(y) = Len(v) + Len(w)
        /\ \A i \in 1..(Len(v) + Len(w)) : y[i] = IF i <= Len(v) THEN v[i] ELSE w[i - Len(v)]
  <2>1. /\ v \o w \in Seq(C) /\ Len(v \o w) = Len(v) + Len(w)
        /\ \A i \in 1..(Len(v) + Len(w)) : (v \o w)[i] = IF i <= Len(v) THEN v[i] ELSE w[i - Len(v)]
    BY ConcatProperties
  <2>. QED BY <2>1
<1>3. PICK n \in Nat, m \in Nat, k \in Nat : n = Len(v) /\ m = Len(t) /\ k = Len(u)
  OBVIOUS
<1>4. PICK i \in Nat, j \in Nat : i = n + 1 /\ j = n + m
  OBVIOUS
<1>5. i \in DOMAIN y /\ i + Len(t) - 1 <= Len(y) /\ i + Len(t) - 1 = j /\ 1 <= i /\ i <= j + 1 /\ j <= Len(y)
        /\ j - i + 1 = m
  BY <1>1, <1>2, <1>3, <1>4
<1>6. 1 <= i /\ i <= j + 1 /\ j <= Len(y)
  BY <1>5
<1>7. /\ SubSeq(y, i, j) \in Seq(C) /\ Len(SubSeq(y, i, j)) = j - i + 1
      /\ \A l \in 1..(j - i + 1) : SubSeq(y, i, j)[l] = y[i + l - 1]
  BY <1>6, SliceOf
<1>8. ASSUME NEW l \in 1..m PROVE SubSeq(y, i, j)[l] = t[l]
  <2>1. i + l - 1 = n + l /\ n + l \in 1..(Len(v) + Len(w)) /\ ~(n + l <= n) /\ (n + l) - n = l
          /\ l \in 1..(Len(t) + Len(u)) /\ l <= Len(t)
    BY <1>1, <1>3, <1>4
  <2>2. SubSeq(y, i, j)[l] = y[n + l]
    BY <1>5, <1>7, <2>1
  <2>3. y[n + l] = w[l]
    BY <1>2, <1>3, <2>1
  <2>4. w[l] = t[l]
    BY <1>1, <2>1
  <2>. QED BY <2>2, <2>3, <2>4
<1>9. SubSeq(y, i, j) = t
  <2>1. Len(SubSeq(y, i, j)) = Len(t)
    BY <1>3, <1>5, <1>7
  <2>2. \A l \in 1..Len(SubSeq(y, i, j)) : SubSeq(y, i, j)[l] = t[l]
    BY <1>3, <1>8, <2>1
  <2>. QED BY <1>7, <2>1, <2>2, SeqEqual
<1>10. Occurs(t, y)
  BY <1>5, <1>9 DEF Occurs
<1>. QED BY <1>1, <1>2, <1>10

(* A span that no masked one touches stays readable.                       *)
LEMMA MaskedReads ==
  ASSUME NEW C, NEW T \in Seq(C), NEW ents, Spans(ents, T), \A x \in Range(ents) : Mask(x) \in C,
         NEW z, InText(T, z), \A x \in ToMask(ents) : Apart(x, z)
  PROVE  Occurs(SubSeq(T, z.s, z.e - 1), ApplyMasks(T, ents))
<1>1. PICK a \in Nat, b \in Nat : a = z.s /\ b = z.e - 1
  BY DEF InText
<1>2. 1 <= a /\ a <= b /\ b <= Len(T) /\ Len(T) \in Nat
  BY <1>1 DEF InText
<1>3. \A x \in ToMask(ents) : /\ InText(T, x) /\ Mask(x) \in C /\ x.s \in Nat /\ x.e \in Nat /\ x.s < x.e
                              /\ x.e <= a \/ b < x.s
  <2>1. \A x \in ToMask(ents) : InText(T, x) /\ Mask(x) \in C
    BY SpansStart DEF ToMask
  <2>2. z.e \in Int
    BY <1>2 DEF InText
  <2>. QED BY <1>1, <1>2, <2>1, <2>2 DEF InText, Apart
<1>. DEFINE Low(p) == IF p + 1 < a THEN a ELSE p + 1
            Ends(W, p, v, u) == W = v \o (SubSeq(T, Low(p), b) \o u) /\ (a - 1 <= p => v = <<>>)
            P == {w \in Int \X Seq(C) : \E v \in Seq(C) : \E u \in Seq(C) : Ends(w[2], w[1], v, u)}
            X == ToMask(ents)
<1>4. \A p \in Int : \A W \in Seq(C) : <<p, W>> \in P <=> \E v \in Seq(C) : \E u \in Seq(C) : Ends(W, p, v, u)
  OBVIOUS
<1>5. \A p : \A W : <<p, W>> \in P => p \in Int /\ W \in Seq(C)
  OBVIOUS
<1>. HIDE DEF P, X
<1>o. <<>> \in Seq(C) /\ \A s \in Seq(C) : <<>> \o s = s
  OBVIOUS
<1>6. ASSUME NEW p \in Int, b <= p, NEW W \in Seq(C) PROVE <<p, W>> \in P
  <2>1. Low(p) = p + 1 /\ p + 1 \in Int /\ b < p + 1
    BY <1>2, <1>6
  <2>2. SubSeq(T, p + 1, b) = <<>>
    BY <2>1, SubSeqEmpty
  <2>3. Ends(W, p, <<>>, W)
    BY <1>o, <2>1, <2>2
  <2>. HIDE DEF Ends
  <2>. QED BY <1>4, <1>o, <2>3
<1>7. <<Len(T), <<>>>> \in P
  <2>1. Len(T) \in Int /\ b <= Len(T) /\ <<>> \in Seq(C)
    BY <1>2, <1>o
  <2>. QED BY <1>6, <2>1
<1>8. ASSUME NEW p \in 1..Len(T), NEW W \in Seq(C), <<p, W>> \in P PROVE <<p - 1, <<T[p]>> \o W>> \in P
  <2>1. PICK v \in Seq(C), u \in Seq(C) : Ends(W, p, v, u)
    <3>1. p \in Int
      OBVIOUS
    <3>. HIDE DEF Ends
    <3>. QED BY <1>4, <1>8, <3>1
  <2>2. T[p] \in C /\ p \in Nat /\ p <= Len(T) /\ 0 < p /\ p - 1 \in Int /\ <<T[p]>> \in Seq(C)
    OBVIOUS
  <2>3. <<T[p]>> \o W \in Seq(C)
    BY <2>2, ConcatProperties
  <2>4. CASE b <= p - 1
    BY <1>6, <2>2, <2>3, <2>4
  <2>5. CASE a <= p /\ p <= b
    <3>1. Low(p) = p + 1 /\ Low(p - 1) = p /\ v = <<>>
      BY <1>2, <2>1, <2>2, <2>5
    <3>2. W = SubSeq(T, p + 1, b) \o u
      <4>1. SubSeq(T, p + 1, b) \in Seq(C)
        <5>1. 1 <= p + 1 /\ p + 1 <= b + 1 /\ b <= Len(T) /\ p + 1 \in Nat
          BY <1>2, <2>2, <2>5
        <5>. QED BY <5>1, SliceOf
      <4>2. SubSeq(T, p + 1, b) \o u \in Seq(C)
        BY <4>1, ConcatProperties
      <4>. QED BY <1>o, <2>1, <3>1, <4>2
    <3>3. SubSeq(T, p, b) \o u = <<T[p]>> \o (SubSeq(T, p + 1, b) \o u) /\ SubSeq(T, p, b) \o u \in Seq(C)
      <4>1. 0 < p /\ p <= b /\ b <= Len(T) /\ p \in Nat
        BY <1>2, <2>2, <2>5
      <4>2. MoreCell(C, T, p, b, u)
        BY <4>1, CellMore
      <4>. QED BY <4>2 DEF MoreCell
    <3>4. Ends(<<T[p]>> \o W, p - 1, <<>>, u)
      BY <1>o, <3>1, <3>2, <3>3
    <3>. HIDE DEF Ends
    <3>. QED BY <1>4, <1>o, <2>2, <2>3, <3>4
  <2>6. CASE p < a
    <3>1. Low(p) = a /\ Low(p - 1) = a /\ ~(a - 1 <= p - 1)
      BY <1>2, <2>2, <2>6
    <3>2. PICK r \in Seq(C) : r = SubSeq(T, a, b) \o u
      <4>1. SubSeq(T, a, b) \in Seq(C)
        <5>1. a <= b + 1
          BY <1>2
        <5>. QED BY <1>2, <5>1, SliceOf
      <4>2. SubSeq(T, a, b) \o u \in Seq(C)
        BY <4>1, ConcatProperties
      <4>. QED BY <4>2
    <3>3. PICK h \in Seq(C) : h = <<T[p]>>
      BY <2>2
    <3>4. JoinsAlike(h, v, r) /\ h \o v \in Seq(C)
      BY ConcatThree, ConcatProperties
    <3>5. <<T[p]>> \o W = (h \o v) \o r
      BY <2>1, <3>1, <3>2, <3>3, <3>4 DEF JoinsAlike
    <3>6. Ends(<<T[p]>> \o W, p - 1, h \o v, u)
      BY <3>1, <3>2, <3>5
    <3>. HIDE DEF Ends
    <3>. QED BY <1>4, <2>2, <2>3, <3>4, <3>6
  <2>. QED BY <1>2, <2>2, <2>4, <2>5, <2>6
<1>9. ASSUME NEW x \in X, NEW W \in Seq(C), <<x.e - 1, W>> \in P PROVE <<x.s - 1, <<Mask(x)>> \o W>> \in P
  <2>1. PICK s \in Nat, e \in Nat : s = x.s /\ e = x.e /\ s < e /\ (e <= a \/ b < s)
    BY <1>3 DEF X
  <2>2. Mask(x) \in C /\ <<Mask(x)>> \in Seq(C)
    BY <1>3 DEF X
  <2>3. <<Mask(x)>> \o W \in Seq(C)
    BY <2>2, ConcatProperties
  <2>4. CASE b < s
    <3>1. s - 1 \in Int /\ b <= s - 1
      BY <2>1, <2>4
    <3>. QED BY <1>6, <2>1, <2>3, <3>1
  <2>5. CASE e <= a
    <3>1. e - 1 \in Int /\ s - 1 \in Int /\ Low(e - 1) = a /\ Low(s - 1) = a /\ ~(a - 1 <= s - 1)
      BY <1>2, <2>1, <2>5
    <3>0. <<e - 1, W>> \in P
      BY <1>9, <2>1
    <3>a. PICK v \in Seq(C), u \in Seq(C) : Ends(W, e - 1, v, u)
      BY <1>4, <3>0, <3>1
    <3>2. PICK r \in Seq(C) : r = SubSeq(T, a, b) \o u
      <4>1. SubSeq(T, a, b) \in Seq(C)
        <5>1. a <= b + 1
          BY <1>2
        <5>. QED BY <1>2, <5>1, SliceOf
      <4>2. SubSeq(T, a, b) \o u \in Seq(C)
        BY <4>1, ConcatProperties
      <4>. QED BY <4>2
    <3>3. PICK h \in Seq(C) : h = <<Mask(x)>>
      BY <2>2
    <3>4. JoinsAlike(h, v, r) /\ h \o v \in Seq(C)
      BY ConcatThree, ConcatProperties
    <3>5. <<Mask(x)>> \o W = (h \o v) \o r
      BY <3>a, <3>1, <3>2, <3>3, <3>4 DEF JoinsAlike
    <3>6. Ends(<<Mask(x)>> \o W, s - 1, h \o v, u)
      BY <3>1, <3>2, <3>5
    <3>. HIDE DEF Ends
    <3>7. <<s - 1, <<Mask(x)>> \o W>> \in P
      BY <1>4, <2>3, <3>1, <3>4, <3>6
    <3>. QED BY <2>1, <3>7
  <2>. QED BY <2>1, <2>4, <2>5
<1>10. Walk(T, X, C, P)
  BY <1>7, <1>8, <1>9 DEF Walk
<1>11. <<0, ApplyMasks(T, ents)>> \in P /\ ApplyMasks(T, ents) \in Seq(C)
  BY <1>10, AppliedWalk DEF X
<1>12. PICK v \in Seq(C), u \in Seq(C) : Ends(ApplyMasks(T, ents), 0, v, u)
  <2>1. 0 \in Int
    OBVIOUS
  <2>. HIDE DEF Ends
  <2>. QED BY <1>4, <1>11, <2>1
<1>13. Low(0) = a
  BY <1>2
<1>14. PICK t \in Seq(C) : t = SubSeq(T, a, b) /\ 0 < Len(t)
  <2>1. a <= b + 1
    BY <1>2
  <2>2. SubSeq(T, a, b) \in Seq(C) /\ Len(SubSeq(T, a, b)) = b - a + 1
    BY <1>2, <2>1, SliceOf
  <2>3. 0 < b - a + 1
    BY <1>2
  <2>. QED BY <2>2, <2>3
<1>15. Occurs(t, v \o (t \o u))
  BY <1>14, FoundBetween
<1>. QED BY <1>1, <1>12, <1>13, <1>14, <1>15

-----------------------------------------------------------------------------
(* The inductive invariant                                                 *)

(* The inductive invariant of the pipeline. BaseText is the text the       *)
(* entities are spans of: the normalised one, or the one sent when         *)
(* normalisation raised.                                                   *)
BaseText == IF "normalization" \in raised THEN call.text ELSE Normalize(call.text)

OneCell(x, B) == /\ x.e = x.s + 1 /\ B[x.s].kind = "pii" /\ B[x.s].form = "raw"
                 /\ ~IsExampleEmail(B[x.s])

TwoCaps(x, B) == /\ x.e = x.s + 2 /\ x.e <= Len(B) + 1 /\ x.type = "name"
                 /\ B[x.s].kind = "cap" /\ B[x.s + 1].kind = "cap"

Fits(x, B) ==
  /\ x = [s |-> x.s, e |-> x.e, type |-> x.type, conf |-> x.conf, by |-> x.by, txt |-> x.txt]
  /\ x.s \in 1..Len(B) /\ (OneCell(x, B) \/ TwoCaps(x, B))
  /\ x.type = B[x.s].type /\ x.txt = SubSeq(B, x.s, x.e - 1)
  /\ x.conf \in 0..1000 /\ x.by \in DOMAIN Rank

Listed(ents, B) == /\ ents \in Seq(Range(ents)) /\ AllApart(ents)
                   /\ \A k \in 1..Len(ents) : Fits(ents[k], B)

(* Every structured value that counts has an entity of confidence n.       *)
Counted(B) == {c \in Values(B) : c.type \in Structured /\ c.form = "raw" /\ c.of \notin BadSums}

Sure(ents, B, n) ==
  \A c \in Counted(B) : \E k \in 1..Len(ents) :
     ents[k].conf >= n /\ B[ents[k].s] = c /\ ents[k].e = ents[k].s + 1

(* What was dropped is no part of what is left, or all that is left was.   *)
LostStands(L, ents, B) ==
  \A x \in L :
    /\ Fits(x, B)
    /\ \/ \A k \in 1..Len(ents) : Apart(ents[k], x)
       \/ /\ \E k \in 1..Len(ents) : ents[k].s = x.s /\ ents[k].e = x.e
          /\ \A k \in 1..Len(ents) : \E y \in L : y.txt = ents[k].txt

(* After masking: the text is the masked one, or its repair.               *)
Made(ents, B) == IF "masking" \in raised THEN B ELSE ApplyMasks(B, ents)

AllMade(T, ents, map, B) ==
  /\ Listed(ents, B) /\ LostStands(lost, ents, B)
  /\ Unsearched \/ Sure(ents, B, 700)
  /\ T = IF repaired THEN Repair(Made(ents, B)) ELSE Made(ents, B)
  /\ "masking" \notin answered => map = MaskingMap(ents)

Begun  == stage \in {"normalization", "detection"} => lost = {} /\ ctx.ents = <<>>

AtText == /\ stage = "normalization" => raised = {} /\ ctx.text = call.text
          /\ stage \in {"detection", "scoring", "context", "masking"} =>
               ctx.text = BaseText /\ "masking" \notin raised
          /\ stage \in {"normalization", "detection", "scoring", "context", "masking", "integrity"} => ~repaired

AtScoring == stage = "scoring" => lost = {} /\ (Unsearched \/ Sure(ctx.ents, BaseText, 900))

AtMasking == stage \in {"context", "masking"} =>
               LostStands(lost, ctx.ents, BaseText) /\ (Unsearched \/ Sure(ctx.ents, BaseText, 700))

AtEnd  == stage \in {"integrity", "verification", "return"} => AllMade(ctx.text, ctx.ents, ctx.map, BaseText)

AtRest == stage = "idle" /\ calls > 0 /\ out.ok => AllMade(out.text, out.ents, out.map, BaseText)

PipeTyped ==
  /\ stage \in Stages \cup {"idle", "return"} /\ mode \in {"hybrid"} \cup Overrides
  /\ raised \subseteq answered /\ answered \subseteq Stages
  /\ out.ok \in BOOLEAN /\ repaired \in BOOLEAN /\ blind \in BOOLEAN /\ calls \in 0..MaxCalls
  /\ call.text \in Inputs \cup {<<>>} /\ (stage # "idle" => call.text \in Inputs)
  /\ ctx = [text |-> ctx.text, ents |-> ctx.ents, map |-> ctx.map]
  /\ call = [text |-> call.text, said |-> call.said]
  /\ call.said \in Sayings \cup {{}}

PipeInv ==
  /\ PipeTyped /\ Listed(ctx.ents, BaseText)
  /\ Begun /\ AtText /\ AtScoring /\ AtMasking /\ AtEnd /\ AtRest

-----------------------------------------------------------------------------
(* What an entity is                                                       *)

(* What an entity is                                                       *)

LEMMA FitsIn ==
  ASSUME NEW C, NEW B \in Seq(C), NEW x, Fits(x, B)
  PROVE  /\ InText(B, x) /\ x.s \in Nat /\ x.e \in Nat /\ 1 <= x.s /\ x.s < x.e /\ x.e <= Len(B) + 1
         /\ x.e = x.s + 1 \/ x.e = x.s + 2
         /\ x.conf \in 0..1000 /\ x.by \in DOMAIN Rank
         /\ x.txt = SubSeq(B, x.s, x.e - 1) /\ x.txt \in Seq(C) /\ Len(x.txt) = x.e - x.s
         /\ \A i \in 1..(x.e - x.s) : x.txt[i] = B[x.s + i - 1]
<1>1. Len(B) \in Nat /\ x.s \in 1..Len(B) /\ (x.e = x.s + 1 \/ x.e = x.s + 2) /\ x.e <= Len(B) + 1
  BY DEF Fits, OneCell, TwoCaps
<1>2. x.s \in Nat /\ x.e \in Nat /\ 1 <= x.s /\ x.s < x.e /\ x.e \in (x.s + 1)..(Len(B) + 1)
  BY <1>1
<1>3. PICK a \in Nat, b \in Nat : a = x.s /\ b = x.e - 1
  BY <1>2
<1>4. 1 <= a /\ a <= b + 1 /\ b <= Len(B)
  BY <1>1, <1>2, <1>3
<1>5. /\ SubSeq(B, a, b) \in Seq(C) /\ Len(SubSeq(B, a, b)) = b - a + 1
      /\ \A i \in 1..(b - a + 1) : SubSeq(B, a, b)[i] = B[a + i - 1]
  BY <1>4, SliceOf
<1>6. x.txt = SubSeq(B, a, b) /\ b - a + 1 = x.e - x.s
  BY <1>2, <1>3 DEF Fits
<1>. QED BY <1>1, <1>2, <1>3, <1>5, <1>6, Zenon DEF InText, Fits

(* The cells of a span, one by one: values, and halves of names.           *)
LEMMA SpanCells ==
  ASSUME NEW C, NEW B \in Seq(C), NEW x, Fits(x, B)
  PROVE  /\ \A i \in x.s..(x.e - 1) : /\ i \in 1..Len(B) /\ B[i].kind \in {"pii", "cap"}
                                      /\ ~IsExampleEmail(B[i])
         /\ x.e = x.s + 1 => x.txt = <<B[x.s]>>
         /\ x.e = x.s + 2 => x.txt = <<B[x.s], B[x.s + 1]>>
<1>1. /\ x.s \in Nat /\ x.e \in Nat /\ 1 <= x.s /\ x.s < x.e /\ x.e <= Len(B) + 1
      /\ x.e = x.s + 1 \/ x.e = x.s + 2
      /\ x.txt \in Seq(C) /\ Len(x.txt) = x.e - x.s
      /\ \A i \in 1..(x.e - x.s) : x.txt[i] = B[x.s + i - 1]
  <2>1. x.s \in Nat /\ x.e \in Nat /\ 1 <= x.s /\ x.s < x.e /\ x.e <= Len(B) + 1
    BY FitsIn
  <2>2. x.e = x.s + 1 \/ x.e = x.s + 2
    BY FitsIn
  <2>3. x.txt \in Seq(C) /\ Len(x.txt) = x.e - x.s
    BY FitsIn
  <2>4. \A i \in 1..(x.e - x.s) : x.txt[i] = B[x.s + i - 1]
    BY FitsIn
  <2>. QED BY <2>1, <2>2, <2>3, <2>4, Zenon
<1>2. Len(B) \in Nat
  OBVIOUS
<1>3. ASSUME NEW i \in x.s..(x.e - 1)
      PROVE  i \in 1..Len(B) /\ B[i].kind \in {"pii", "cap"} /\ ~IsExampleEmail(B[i])
  <2>1. i \in 1..Len(B) /\ (i = x.s \/ (x.e = x.s + 2 /\ i = x.s + 1))
    BY <1>1, <1>2
  <2>2. x.e = x.s + 1 \/ x.e = x.s + 2
    BY <1>1
  <2>3. CASE x.e = x.s + 1
    <3>1. OneCell(x, B) /\ i = x.s
      <4>1. OneCell(x, B) \/ x.e = x.s + 2
        BY DEF Fits, TwoCaps
      <4>2. x.e # x.s + 2
        BY <1>1, <2>3
      <4>. QED BY <2>1, <4>1, <4>2
    <3>. QED BY <2>1, <3>1 DEF OneCell
  <2>4. CASE x.e = x.s + 2
    <3>1. TwoCaps(x, B)
      BY <1>1, <2>4 DEF Fits, OneCell
    <3>2. B[i].kind = "cap"
      BY <2>1, <2>4, <3>1 DEF TwoCaps
    <3>. QED BY <2>1, <3>2 DEF IsExampleEmail
  <2>. QED BY <2>2, <2>3, <2>4
<1>4. ASSUME x.e = x.s + 1 PROVE x.txt = <<B[x.s]>>
  <2>1. Len(x.txt) = 1 /\ x.txt[1] = B[x.s]
    <3>1. x.e - x.s = 1 /\ 1 \in 1..1 /\ x.s + 1 - 1 = x.s
      BY <1>1, <1>4
    <3>2. \A i \in 1..1 : x.txt[i] = B[x.s + i - 1]
      BY <1>1, <3>1
    <3>3. x.txt[1] = B[x.s + 1 - 1]
      BY <3>1, <3>2
    <3>. QED BY <1>1, <3>1, <3>3
  <2>2. PICK t \in Seq(C), c \in C : t = x.txt /\ c = B[x.s]
    <3>1. x.s \in 1..Len(B)
      BY <1>1, <1>2, <1>4
    <3>2. B[x.s] \in C /\ x.txt \in Seq(C)
      BY <1>1, <3>1
    <3>. QED BY <3>2
  <2>3. t = <<c>>
    BY <2>1, <2>2
  <2>. QED BY <2>2, <2>3
<1>5. ASSUME x.e = x.s + 2 PROVE x.txt = <<B[x.s], B[x.s + 1]>>
  <2>1. Len(x.txt) = 2 /\ x.txt[1] = B[x.s] /\ x.txt[2] = B[x.s + 1]
    <3>1. x.e - x.s = 2 /\ 1 \in 1..2 /\ 2 \in 1..2 /\ x.s + 1 - 1 = x.s /\ x.s + 2 - 1 = x.s + 1
      BY <1>1, <1>5
    <3>2. \A i \in 1..2 : x.txt[i] = B[x.s + i - 1]
      BY <1>1, <3>1
    <3>3. x.txt[1] = B[x.s + 1 - 1] /\ x.txt[2] = B[x.s + 2 - 1]
      BY <3>1, <3>2
    <3>. QED BY <1>1, <3>1, <3>3
  <2>2. PICK t \in Seq(C), c \in C, d \in C : t = x.txt /\ c = B[x.s] /\ d = B[x.s + 1]
    <3>1. x.s \in 1..Len(B) /\ x.s + 1 \in 1..Len(B)
      BY <1>1, <1>2, <1>5
    <3>2. B[x.s] \in C /\ B[x.s + 1] \in C /\ x.txt \in Seq(C)
      BY <1>1, <3>1
    <3>. QED BY <3>2
  <2>3. t = <<c, d>>
    BY <2>1, <2>2
  <2>. QED BY <2>2, <2>3
<1>. QED BY <1>3, <1>4, <1>5

(* A label is no cell of a text that was sent.                             *)
LEMMA MaskIsToken == \A x : Mask(x).kind = "tok"
BY DEF Mask, Token

ListCells(B, ents) == Range(B) \cup {Mask(x) : x \in Range(ents)} \cup {Word, Masked}

LEMMA ListedSpans ==
  ASSUME NEW C, NEW B \in Seq(C), NEW ents, Listed(ents, B)
  PROVE  /\ Spans(ents, B) /\ B \in Seq(ListCells(B, ents))
         /\ \A x \in Range(ents) : Fits(x, B) /\ Mask(x) \in ListCells(B, ents)
<1>1. ents \in Seq(Range(ents)) /\ AllApart(ents) /\ \A k \in 1..Len(ents) : Fits(ents[k], B)
  BY DEF Listed
<1>2. \A k \in 1..Len(ents) : InText(B, ents[k])
  BY <1>1, FitsIn
<1>3. Range(ents) = {ents[k] : k \in 1..Len(ents)}
  BY <1>1, RangeFinite
<1>4. B \in Seq(Range(B))
  BY RangeFinite
<1>5. B \in Seq(ListCells(B, ents))
  <2>1. \A i \in 1..Len(B) : B[i] \in ListCells(B, ents)
    BY <1>4 DEF ListCells
  <2>2. B \in [1..Len(B) -> ListCells(B, ents)] /\ Len(B) \in Nat
    BY <2>1
  <2>. QED BY <2>2, RowOf
<1>. QED BY <1>1, <1>2, <1>3, <1>5 DEF Spans, ListCells

-----------------------------------------------------------------------------
(* Lists of entities                                                       *)

(* The members of a list that a set holds.                                 *)
Picked(ents, A) == FlattenSeq([i \in DOMAIN ents |-> IF ents[i] \in A THEN <<ents[i]>> ELSE <<>>])

LEMMA PickedHolds ==
  ASSUME NEW ents, ents \in Seq(Range(ents)), NEW A
  PROVE  /\ Picked(ents, A) \in Seq(Range(ents)) /\ Range(Picked(ents, A)) = Range(ents) \cap A
         /\ \E h : Rising(h, Len(Picked(ents, A)), Len(ents))
                     /\ \A k \in 1..Len(Picked(ents, A)) : Picked(ents, A)[k] = ents[h[k]]
<1>. DEFINE u == [i \in DOMAIN ents |-> IF ents[i] \in A THEN <<ents[i]>> ELSE <<>>]
<1>1. Picks(ents, u)
  BY DEF Picks
<1>2. FlattenSeq(u) \in Seq(Range(ents)) /\ Thinned(ents, u, FlattenSeq(u))
  BY <1>1, FlatThinned
<1>3. PICK f \in Seq(Range(ents)) : f = Picked(ents, A) /\ f = FlattenSeq(u)
  BY <1>2 DEF Picked
<1>4. DOMAIN ents = 1..Len(ents) /\ Len(ents) \in Nat /\ Range(ents) = {ents[i] : i \in 1..Len(ents)}
  BY RangeFinite
<1>6. \A i \in 1..Len(ents) : u[i] = <<ents[i]>> <=> ents[i] \in A
  BY <1>4
<1>. HIDE DEF u
<1>5. /\ \A i \in 1..Len(ents) : u[i] = <<ents[i]>> => \E k \in 1..Len(f) : f[k] = ents[i]
      /\ \E h : Rising(h, Len(f), Len(ents)) /\ \A k \in 1..Len(f) : f[k] = ents[h[k]]
           /\ u[h[k]] = <<ents[h[k]]>>
  BY <1>2, <1>3 DEF Thinned
<1>7. PICK h : Rising(h, Len(f), Len(ents)) /\ \A k \in 1..Len(f) : f[k] = ents[h[k]]
        /\ u[h[k]] = <<ents[h[k]]>>
  BY <1>5
<1>8. \A k \in 1..Len(f) : h[k] \in 1..Len(ents) /\ f[k] = ents[h[k]] /\ f[k] \in A
  BY <1>6, <1>7 DEF Rising
<1>9. Range(f) = {f[k] : k \in 1..Len(f)}
  BY RangeFinite
<1>10. Range(f) = Range(ents) \cap A
  <2>1. \A x \in Range(f) : x \in Range(ents) /\ x \in A
    BY <1>4, <1>8, <1>9
  <2>2. ASSUME NEW x \in Range(ents), x \in A PROVE x \in Range(f)
    <3>1. PICK i \in 1..Len(ents) : x = ents[i]
      BY <1>4
    <3>2. u[i] = <<ents[i]>>
      BY <1>6, <2>2, <3>1
    <3>. QED BY <1>5, <1>9, <3>1, <3>2
  <2>. QED BY <2>1, <2>2
<1>. QED BY <1>3, <1>7, <1>10

(* A list of which every two entities are apart, put together anew.        *)
LEMMA ListedAnew ==
  ASSUME NEW C, NEW B \in Seq(C), NEW ents, Listed(ents, B), NEW q, q \in Seq(Range(q)),
         Range(q) \subseteq Range(ents), \A i, j \in 1..Len(q) : i # j => q[i] # q[j]
  PROVE  Listed(q, B)
<1>1. Spans(ents, B) /\ \A x \in Range(ents) : Fits(x, B)
  BY ListedSpans
<1>2. \A x, y \in Range(ents) : x # y => Apart(x, y)
  BY <1>1, SpansStart
<1>3. \A i \in 1..Len(q) : q[i] \in Range(ents)
  BY RangeFinite
<1>4. AllApart(q)
  BY <1>2, <1>3 DEF AllApart
<1>. QED BY <1>1, <1>3, <1>4 DEF Listed

LEMMA Distinct ==
  ASSUME NEW C, NEW B \in Seq(C), NEW ents, Listed(ents, B)
  PROVE  /\ \A i, j \in 1..Len(ents) : i # j => ents[i] # ents[j]
         /\ \A x, y \in Range(ents) : x # y => Apart(x, y)
<1>1. Spans(ents, B) /\ ents \in Seq(Range(ents)) /\ AllApart(ents) /\ Len(ents) \in Nat
  BY ListedSpans DEF Listed
<1>2. ASSUME NEW i \in 1..Len(ents), NEW j \in 1..Len(ents), i # j PROVE ents[i] # ents[j]
  <2>1. Apart(ents[i], ents[j]) /\ Fits(ents[i], B)
    BY <1>1, <1>2 DEF AllApart, Listed
  <2>2. ents[i].s \in Nat /\ ents[i].e \in Nat /\ ents[i].s < ents[i].e
    BY <2>1, FitsIn
  <2>3. ~Apart(ents[i], ents[i])
    BY <2>2 DEF Apart
  <2>. QED BY <2>1, <2>3
<1>. QED BY <1>1, <1>2, SpansStart

LEMMA PickedListed ==
  ASSUME NEW C, NEW B \in Seq(C), NEW ents, Listed(ents, B), NEW A
  PROVE  Listed(Picked(ents, A), B) /\ Range(Picked(ents, A)) = Range(ents) \cap A
<1>1. ents \in Seq(Range(ents)) /\ \A i, j \in 1..Len(ents) : i # j => ents[i] # ents[j]
  BY Distinct DEF Listed
<1>2. PICK q \in Seq(Range(ents)) : q = Picked(ents, A) /\ Range(q) = Range(ents) \cap A
        /\ \E h : Rising(h, Len(q), Len(ents)) /\ \A k \in 1..Len(q) : q[k] = ents[h[k]]
  BY <1>1, PickedHolds
<1>3. PICK h : Rising(h, Len(q), Len(ents)) /\ \A k \in 1..Len(q) : q[k] = ents[h[k]]
  BY <1>2
<1>4. ASSUME NEW i \in 1..Len(q), NEW j \in 1..Len(q), i # j PROVE q[i] # q[j]
  <2>1. Len(q) \in Nat /\ Len(ents) \in Nat
    BY <1>1
  <2>2. h[i] \in 1..Len(ents) /\ h[j] \in 1..Len(ents) /\ h[i] # h[j]
    <3>1. h[i] \in 1..Len(ents) /\ h[j] \in 1..Len(ents) /\ (i < j => h[i] < h[j]) /\ (j < i => h[j] < h[i])
      BY <1>3 DEF Rising
    <3>. QED BY <1>4, <2>1, <3>1
  <2>. QED BY <1>1, <1>3, <2>2
<1>5. q \in Seq(Range(q)) /\ Range(q) \subseteq Range(ents)
  BY <1>2, RangeFinite
<1>6. Listed(q, B)
  BY <1>4, <1>5, ListedAnew
<1>. QED BY <1>2, <1>6

(* So is a list sorted.                                                    *)
LEMMA SortedListed ==
  ASSUME NEW C, NEW B \in Seq(C), NEW ents, Listed(ents, B), NEW q, NEW R, InOrderOf(q, Range(ents), R)
  PROVE  Listed(q, B) /\ Range(q) = Range(ents)
<1>1. q \in Seq(Range(q)) /\ Range(q) = Range(ents) /\ \A i, j \in 1..Len(q) : i # j => q[i] # q[j]
  BY DEF InOrderOf
<1>. QED BY <1>1, ListedAnew

(* A list of the entities with other confidences.                          *)
Rescored(ents, new) == /\ new = [k \in DOMAIN ents |-> [ents[k] EXCEPT !.conf = new[k].conf]]
                       /\ \A k \in 1..Len(ents) : new[k].conf \in 0..1000

LEMMA RescoredListed ==
  ASSUME NEW C, NEW B \in Seq(C), NEW ents, Listed(ents, B), NEW new, Rescored(ents, new)
  PROVE  /\ Listed(new, B) /\ Len(new) = Len(ents)
         /\ \A k \in 1..Len(ents) : /\ new[k].s = ents[k].s /\ new[k].e = ents[k].e /\ new[k].txt = ents[k].txt
                                    /\ new[k].type = ents[k].type /\ new[k].by = ents[k].by
<1>1. ents \in Seq(Range(ents)) /\ AllApart(ents) /\ \A k \in 1..Len(ents) : Fits(ents[k], B)
  BY DEF Listed
<1>2. DOMAIN ents = 1..Len(ents) /\ Len(ents) \in Nat
  BY <1>1
<1>3. new = [k \in 1..Len(ents) |-> [ents[k] EXCEPT !.conf = new[k].conf]]
  BY <1>2 DEF Rescored
<1>4. ASSUME NEW k \in 1..Len(ents)
      PROVE  /\ Fits(new[k], B) /\ new[k].s = ents[k].s /\ new[k].e = ents[k].e /\ new[k].txt = ents[k].txt
             /\ new[k].type = ents[k].type /\ new[k].by = ents[k].by
  <2>. DEFINE x == ents[k]
              y == new[k]
  <2>1. x = [s |-> x.s, e |-> x.e, type |-> x.type, conf |-> x.conf, by |-> x.by, txt |-> x.txt]
    BY <1>1 DEF Fits
  <2>2. y = [x EXCEPT !.conf = y.conf]
    BY <1>3
  <2>. HIDE DEF x, y
  <2>3. /\ y = [s |-> x.s, e |-> x.e, type |-> x.type, conf |-> y.conf, by |-> x.by, txt |-> x.txt]
    BY <2>1, <2>2
  <2>4. /\ y.s = x.s /\ y.e = x.e /\ y.type = x.type /\ y.by = x.by /\ y.txt = x.txt
    BY <2>3, SMTT(30)
  <2>5. Fits(x, B) /\ y.conf \in 0..1000
    BY <1>1, Zenon DEF Rescored, x, y
  <2>6. Fits(y, B)
    BY <2>3, <2>4, <2>5 DEF Fits, OneCell, TwoCaps
  <2>. QED BY <2>4, <2>6 DEF x, y
<1>5. DOMAIN new = 1..Len(ents)
  BY <1>3
<1>6. new \in [1..Len(ents) -> {new[k] : k \in 1..Len(ents)}]
  BY <1>3
<1>7. new \in Seq({new[k] : k \in 1..Len(ents)}) /\ Len(new) = Len(ents)
  BY <1>2, <1>6, RowOf
<1>8. new \in Seq(Range(new))
  BY <1>7, RangeFinite
<1>9. AllApart(new)
  BY <1>1, <1>4, <1>7 DEF AllApart, Apart
<1>. QED BY <1>4, <1>7, <1>8, <1>9 DEF Listed

-----------------------------------------------------------------------------
(* Texts that were sent; scores                                            *)

(* What a cell of a text that was sent may be.                             *)
LEMMA SentCells ==
  ASSUME NEW c, Sent(c)
  PROVE  /\ c = [kind |-> c.kind, type |-> c.type, of |-> c.of, form |-> c.form]
         /\ c.kind \in {"word", "cap", "pii"}
         /\ c.kind = "pii" => c.type \in {"email", "phone", "zip_code", "credit_card"}
              /\ c.form \in {"raw", "obf"}
         /\ c.kind = "cap" => c.type = "name" /\ c = Cap(c.of)
         /\ c.kind = "word" => c = Word \/ c = Cue
<1>1. CASE c = Word
  BY <1>1 DEF Word
<1>2. CASE c = Cue
  BY <1>2 DEF Cue
<1>3. CASE c = Cap(c.of)
  BY <1>3 DEF Cap
<1>4. CASE /\ c = [Pii(c.type, c.of) EXCEPT !.form = c.form]
           /\ c.type \in DOMAIN RegexWeight /\ c.form \in {"raw", "obf"}
  <2>1. c = [kind |-> "pii", type |-> c.type, of |-> c.of, form |-> c.form]
    BY <1>4 DEF Pii
  <2>2. c.type \in {"email", "phone", "zip_code", "credit_card"}
    BY <1>4 DEF RegexWeight
  <2>. QED BY <1>4, <2>1, <2>2
<1>. QED BY <1>1, <1>2, <1>3, <1>4 DEF Sent

LEMMA StandardSent ==
  ASSUME NEW c, Sent(c)
  PROVE  /\ Sent(Standard(c)) /\ Standard(c).kind = c.kind /\ Standard(c).type = c.type
         /\ Standard(c).of = c.of /\ (c.form = "raw" => Standard(c) = c)
<1>1. PICK k, t, v, f : c = [kind |-> k, type |-> t, of |-> v, form |-> f]
  BY SentCells
<1>2. Standard(c) = [kind |-> k, type |-> t, of |-> v, form |-> IF f = "obf" THEN "raw" ELSE f]
  BY <1>1 DEF Standard
<1>3. CASE c = Word \/ c = Cue \/ c = Cap(c.of)
  <2>1. f = "raw"
    BY <1>1, <1>3 DEF Word, Cue, Cap
  <2>2. Standard(c) = c
    BY <1>1, <1>2, <2>1
  <2>. QED BY <2>2
<1>4. CASE /\ c = [Pii(c.type, c.of) EXCEPT !.form = c.form]
           /\ c.type \in DOMAIN RegexWeight /\ c.form \in {"raw", "obf"}
  <2>1. k = "pii" /\ t \in DOMAIN RegexWeight /\ f \in {"raw", "obf"}
    BY <1>1, <1>4 DEF Pii
  <2>2. Standard(c) = [kind |-> "pii", type |-> t, of |-> v, form |-> "raw"]
    BY <1>2, <2>1
  <2>3. Standard(c) = [Pii(Standard(c).type, Standard(c).of) EXCEPT !.form = Standard(c).form]
    BY <2>2 DEF Pii
  <2>4. Standard(c).type = t /\ Standard(c).form = "raw" /\ Standard(c).kind = "pii" /\ Standard(c).of = v
    BY <2>2
  <2>5. Sent(Standard(c))
    BY <2>1, <2>3, <2>4 DEF Sent
  <2>6. f = "raw" => Standard(c) = c
    BY <1>1, <2>1, <2>2
  <2>. QED BY <1>1, <2>1, <2>4, <2>5, <2>6
<1>. QED BY <1>3, <1>4 DEF Sent

(* A text that was sent, as it is or normalised.                           *)
SentText(B) == B \in Seq(Range(B)) /\ \A i \in 1..Len(B) : Sent(B[i])

LEMMA NormalizeSent ==
  ASSUME NEW T, SentText(T)
  PROVE  /\ SentText(Normalize(T)) /\ Len(Normalize(T)) = Len(T)
         /\ \A i \in 1..Len(T) : Normalize(T)[i] = Standard(T[i])
<1>1. DOMAIN T = 1..Len(T) /\ Len(T) \in Nat
  BY DEF SentText
<1>2. Normalize(T) = [i \in 1..Len(T) |-> Standard(T[i])]
  BY <1>1 DEF Normalize
<1>3. Normalize(T) \in [1..Len(T) -> {Standard(T[i]) : i \in 1..Len(T)}]
  BY <1>2
<1>4. Normalize(T) \in Seq({Standard(T[i]) : i \in 1..Len(T)}) /\ Len(Normalize(T)) = Len(T)
  BY <1>1, <1>3, RowOf
<1>5. \A i \in 1..Len(T) : Sent(Normalize(T)[i])
  BY <1>2, StandardSent DEF SentText
<1>. QED BY <1>2, <1>4, <1>5, RangeFinite DEF SentText

LEMMA InputSent ==
  ASSUME NEW T \in Inputs
  PROVE  SentText(T)
BY InputsAssumption DEF SentText

LEMMA BaseSent == PipeTyped => /\ SentText(BaseText) /\ SentText(call.text) /\ Len(BaseText) = Len(call.text)
                               /\ \A i \in 1..Len(BaseText) : BaseText[i].type = call.text[i].type
<1>. SUFFICES ASSUME PipeTyped PROVE /\ SentText(BaseText) /\ SentText(call.text)
       /\ Len(BaseText) = Len(call.text)
                               /\ \A i \in 1..Len(BaseText) : BaseText[i].type = call.text[i].type
  OBVIOUS
<1>1. SentText(call.text)
  <2>1. call.text \in Inputs \cup {<<>>}
    BY DEF PipeTyped
  <2>2. SentText(<<>>)
    BY DEF SentText
  <2>. QED BY <2>1, <2>2, InputSent
<1>. QED BY <1>1, NormalizeSent, StandardSent DEF BaseText, SentText

LEMMA ClipHolds ==
  ASSUME NEW n \in Int
  PROVE  Clip(n) \in 0..1000 /\ \A m \in 0..1000 : m <= n => m <= Clip(n)
BY DEF Clip

LEMMA SaidCount ==
  ASSUME NEW said, NEW words, IsFiniteSet(words)
  PROVE  Cardinality(said \cap words) \in Nat
<1>1. IsFiniteSet(said \cap words)
  BY FS_Intersection
<1>. QED BY <1>1, FS_CardinalityType

LEMMA FewWords ==
  /\ IsFiniteSet({"example", "test"}) /\ IsFiniteSet({"my", "personal", "private"})
  /\ IsFiniteSet({"my", "personal"}) /\ IsFiniteSet({"my"}) /\ IsFiniteSet({"personal", "private"})
<1>1. /\ {"example", "test"} = {"example"} \cup {"test"} /\ {"my", "personal"} = {"my"} \cup {"personal"}
      /\ {"my", "personal", "private"} = ({"my"} \cup {"personal"}) \cup {"private"}
      /\ {"personal", "private"} = {"personal"} \cup {"private"}
  OBVIOUS
<1>2. \A w : IsFiniteSet({w})
  BY FS_Singleton
<1>3. \A a, b : IsFiniteSet(a) /\ IsFiniteSet(b) => IsFiniteSet(a \cup b)
  BY FS_Union
<1>4. IsFiniteSet({"example"} \cup {"test"}) /\ IsFiniteSet({"my"} \cup {"personal"})
      /\ IsFiniteSet({"personal"} \cup {"private"}) /\ IsFiniteSet({"my"})
  BY <1>2, <1>3
<1>5. IsFiniteSet(({"my"} \cup {"personal"}) \cup {"private"})
  BY <1>2, <1>3, <1>4
<1>. QED BY <1>1, <1>4, <1>5, Zenon

LEMMA BaseConfidenceHolds ==
  ASSUME NEW x, x.conf \in 0..1000, x.by \in DOMAIN Rank
  PROVE  BaseConfidence(x) \in 0..1000 /\ x.conf <= BaseConfidence(x)
<1>1. PatternConfidence(x) \in 500..800
  BY DEF PatternConfidence
<1>2. Weight(x) \in 600..900
  <2>1. x.by \in {"regex", "heuristics", "dictionary", "contextual", "ner"}
    BY DEF Rank
  <2>. QED BY <2>1 DEF Weight
<1>3. PICK a \in 600..900 : a = Weight(x)
  BY <1>2
<1>7. PICK b \in 500..800 : b = PatternConfidence(x)
  BY <1>1
<1>8. PICK n \in 0..1000 : n = x.conf
  OBVIOUS
<1>4. (a + b) \div 2 \in 0..1000
  OBVIOUS
<1>5. BaseConfidence(x) = IF n > (a + b) \div 2 THEN n ELSE (a + b) \div 2
  BY <1>3, <1>7, <1>8 DEF BaseConfidence, AtLeast
<1>6. PICK m \in 0..1000 : m = (a + b) \div 2
  BY <1>4
<1>. QED BY <1>5, <1>6, <1>8

(* The context moves a confidence within bounds, and a structured value's  *)
(* only up.                                                                *)
Moved(x, c, d, n) == d \in 0..1000 /\ (x.type \in Structured /\ n <= c => c <= d)

LEMMA ContextualHolds ==
  ASSUME NEW x, NEW c, c \in 0..1000, NEW T, NEW said
  PROVE  Moved(x, c, Contextual(x, c, T, said), 0)
<1>. DEFINE up == IF x.type \in DOMAIN Booster
                  THEN Booster[x.type].each * Cardinality(said \cap Booster[x.type].words)
                  ELSE 0
            cue == IF x.type = "email" /\ Cue \in Range(T) THEN 37 ELSE 0
            down == IF x.type \in Structured THEN 0
                    ELSE 41 * Cardinality(said \cap Keywords.teaching)
<1>1. up \in Nat
  <2>1. ASSUME x.type \in DOMAIN Booster
        PROVE  Booster[x.type].each \in {37, 25, 75} /\ IsFiniteSet(Booster[x.type].words)
    <3>1. x.type \in {"email", "phone", "name", "credit_card"}
      BY <2>1 DEF Booster
    <3>2. /\ Booster["email"] = [words |-> {"my", "personal", "private"}, each |-> 37]
          /\ Booster["phone"] = [words |-> {"my", "personal"}, each |-> 37]
          /\ Booster["name"] = [words |-> {"my"}, each |-> 25]
          /\ Booster["credit_card"] = [words |-> {"my"}, each |-> 75]
      BY DEF Booster
    <3>3. Booster[x.type].each \in {37, 25, 75}
      BY <3>1, <3>2
    <3>4. Booster[x.type].words \in {{"my", "personal", "private"}, {"my", "personal"}, {"my"}}
      BY <3>1, <3>2
    <3>. QED BY <3>3, <3>4, FewWords
  <2>2. CASE x.type \in DOMAIN Booster
    <3>1. Cardinality(said \cap Booster[x.type].words) \in Nat
      BY <2>1, <2>2, SaidCount
    <3>2. PICK n \in Nat, e \in {37, 25, 75} : n = Cardinality(said \cap Booster[x.type].words)
            /\ e = Booster[x.type].each
      BY <2>1, <2>2, <3>1
    <3>3. up = e * n
      BY <2>2, <3>2
    <3>. HIDE DEF up
    <3>. QED BY <3>3
  <2>. QED BY <2>2
<1>2. cue \in Nat
  OBVIOUS
<1>3. down \in Nat /\ (x.type \in Structured => down = 0)
  <2>1. Cardinality(said \cap Keywords.teaching) \in Nat
    <3>1. IsFiniteSet(Keywords.teaching)
      BY FewWords DEF Keywords
    <3>. QED BY <3>1, SaidCount
  <2>. QED BY <2>1
<1>4. Contextual(x, c, T, said) = Clip(c + up + cue - down)
  BY DEF Contextual
<1>. HIDE DEF up, cue, down
<1>5. PICK n \in Int : n = c + up + cue - down
  BY <1>1, <1>2, <1>3
<1>6. x.type \in Structured => c <= n
  BY <1>1, <1>2, <1>3, <1>5
<1>7. Clip(n) \in 0..1000 /\ (c <= n => c <= Clip(n))
  BY DEF Clip
<1>8. Contextual(x, c, T, said) = Clip(n)
  BY <1>4, <1>5
<1>. QED BY <1>6, <1>7, <1>8 DEF Moved

LEMMA StretchHolds ==
  ASSUME NEW x, NEW c, c \in 0..1000, NEW mean
  PROVE  Moved(x, c, Stretch(x, c, mean), 750)
<1>. DEFINE G == \/ x.type \in Structured /\ c >= 750
                 \/ x.type = "name" /\ c >= MinConfidence
            d == (7 * c + 3 * Sigmoid(c - mean)) \div 10
<1>1. Sigmoid(c - mean) \in {990, 950, 880, 730, 500, 270, 120, 50, 10}
  BY DEF Sigmoid
<1>2. PICK s \in 0..1000 : s = Sigmoid(c - mean)
  BY <1>1
<1>3. (7 * c + 3 * s) \div 10 \in Int
  OBVIOUS
<1>4. PICK b \in Int : b = d
  BY <1>2, <1>3
<1>5. Stretch(x, c, mean) = Clip(IF G THEN AtLeast(d, c) ELSE d)
  BY Zenon DEF Stretch
<1>6. x.type \in Structured /\ 750 <= c => G
  <2>1. 750 <= c => c >= 750
    OBVIOUS
  <2>. QED BY <2>1, Zenon
<1>. HIDE DEF G, d
<1>7. AtLeast(b, c) \in Int /\ c <= AtLeast(b, c)
  BY DEF AtLeast
<1>8. PICK n \in Int : n = IF G THEN AtLeast(b, c) ELSE b
  BY <1>7
<1>9. Clip(n) \in 0..1000 /\ (c <= n => c <= Clip(n))
  BY DEF Clip
<1>10. Stretch(x, c, mean) = Clip(n)
  BY <1>4, <1>5, <1>8
<1>11. G => c <= n
  BY <1>7, <1>8
<1>. QED BY <1>6, <1>9, <1>10, <1>11 DEF Moved

(* The values that count, and their entities.                              *)
LEMMA CountedCell ==
  ASSUME NEW B, SentText(B), NEW c \in Counted(B)
  PROVE  /\ c.type \in {"email", "phone", "credit_card"} /\ c.type \in Structured /\ ~IsExampleEmail(c)
         /\ c.kind = "pii" /\ c.form = "raw" /\ c.of \notin BadSums /\ \E i \in 1..Len(B) : B[i] = c
<1>1. c \in Values(B) /\ c.type \in Structured /\ c.form = "raw" /\ c.of \notin BadSums
  BY DEF Counted
<1>2. c \in Range(B) /\ c.kind = "pii" /\ ~IsExampleEmail(c)
  BY <1>1 DEF Values
<1>3. PICK i \in 1..Len(B) : B[i] = c
  BY <1>2, RangeFinite DEF SentText
<1>4. Sent(c)
  BY <1>3 DEF SentText
<1>5. c.type \in {"email", "phone", "zip_code", "credit_card"}
  BY <1>2, <1>4, SentCells
<1>. QED BY <1>1, <1>2, <1>3, <1>5 DEF Structured

Certain(x) == x.type \in {"email", "phone", "credit_card"} /\ ~IsExampleEmail(x.txt[1])

LEMMA SureKept ==
  ASSUME NEW B, SentText(B), NEW c \in Counted(B), NEW x, Fits(x, B), B[x.s] = c, x.e = x.s + 1
  PROVE  /\ Certain(x) /\ x.type = c.type
         /\ \A n \in {550, 700, 900} : x.conf >= n => PassesFloor(x) /\ ValidInContext(x) /\ Maskable(x)
<1>1. B \in Seq(Range(B)) /\ c.type \in {"email", "phone", "credit_card"} /\ ~IsExampleEmail(c)
  BY CountedCell DEF SentText
<1>2. x.txt = <<c>> /\ x.type = c.type /\ x.conf \in 0..1000
  BY <1>1, SpanCells, Zenon DEF Fits
<1>3. x.txt[1] = c
  BY <1>2
<1>4. ~StopwordName(x)
  BY <1>1, <1>2 DEF StopwordName
<1>5. ASSUME NEW n \in {550, 700, 900}, x.conf >= n PROVE x.conf >= 550 /\ x.conf >= 300
  BY <1>2, <1>5
<1>. QED BY <1>1, <1>2, <1>3, <1>4, <1>5 DEF Certain, PassesFloor, ValidInContext, Maskable, MinConfidence

(* What moves confidences keeps the structured values sure.                *)
LEMMA SureRescored ==
  ASSUME NEW B, SentText(B), NEW ents, Listed(ents, B), NEW new, Rescored(ents, new),
         NEW n, NEW m, Sure(ents, B, n),
         \A k \in 1..Len(ents) : Certain(ents[k]) /\ ents[k].conf >= n => new[k].conf >= m
  PROVE  Sure(new, B, m)
<1>1. B \in Seq(Range(B))
  BY DEF SentText
<1>2. /\ Len(new) = Len(ents)
      /\ \A k \in 1..Len(ents) : new[k].s = ents[k].s /\ new[k].e = ents[k].e
  BY <1>1, RescoredListed
<1>3. ASSUME NEW c \in Counted(B)
      PROVE  \E k \in 1..Len(new) : new[k].conf >= m /\ B[new[k].s] = c /\ new[k].e = new[k].s + 1
  <2>1. PICK k \in 1..Len(ents) : ents[k].conf >= n /\ B[ents[k].s] = c /\ ents[k].e = ents[k].s + 1
    BY DEF Sure
  <2>2. Fits(ents[k], B)
    BY DEF Listed
  <2>3. Certain(ents[k])
    BY <2>1, <2>2, SureKept
  <2>. QED BY <1>2, <2>1, <2>3
<1>. QED BY <1>3 DEF Sure

LEMMA ScoreRescored ==
  ASSUME NEW B, SentText(B), NEW ents, Listed(ents, B), NEW T, NEW said
  PROVE  Rescored(ents, Score(ents, T, said)) /\ (Sure(ents, B, 900) => Sure(Score(ents, T, said), B, 700))
<1>. DEFINE raw  == [k \in DOMAIN ents |-> Contextual(ents[k], BaseConfidence(ents[k]), T, said)]
            mean == FoldLeft(LAMBDA a, b : a + b, 0, raw) \div AtLeast(1, Len(ents))
            new == Score(ents, T, said)
<1>1. new = [k \in DOMAIN ents |-> [ents[k] EXCEPT !.conf = Stretch(ents[k], raw[k], mean)]]
  BY Zenon DEF Score
<1>2. ents \in Seq(Range(ents)) /\ DOMAIN ents = 1..Len(ents) /\ \A k \in 1..Len(ents) : Fits(ents[k], B)
  BY DEF Listed
<1>3. ASSUME NEW k \in 1..Len(ents)
      PROVE  /\ raw[k] \in 0..1000
             /\ Certain(ents[k]) => ents[k].conf <= raw[k]
  <2>1. ents[k].conf \in 0..1000 /\ ents[k].by \in DOMAIN Rank
    BY <1>2 DEF Fits
  <2>2. BaseConfidence(ents[k]) \in 0..1000 /\ ents[k].conf <= BaseConfidence(ents[k])
    BY <2>1, BaseConfidenceHolds, Zenon
  <2>3. PICK c \in 0..1000 : c = BaseConfidence(ents[k])
    BY <2>2, Zenon
  <2>4. Contextual(ents[k], c, T, said) \in 0..1000
          /\ (ents[k].type \in Structured => c <= Contextual(ents[k], c, T, said))
    <3>1. Moved(ents[k], c, Contextual(ents[k], c, T, said), 0)
      BY ContextualHolds, Zenon
    <3>2. 0 <= c
      OBVIOUS
    <3>. QED BY <3>1, <3>2, Zenon DEF Moved
  <2>5. raw[k] = Contextual(ents[k], c, T, said)
    BY <1>2, <2>3
  <2>6. Certain(ents[k]) => ents[k].type \in Structured
    BY DEF Certain, Structured
  <2>. HIDE DEF raw
  <2>7. PICK a \in 0..1000 : a = ents[k].conf
    BY <2>1, Zenon
  <2>8. PICK b \in 0..1000 : b = Contextual(ents[k], c, T, said)
    BY <2>4, Zenon
  <2>9. Certain(ents[k]) => a <= c /\ c <= b
    BY <2>2, <2>3, <2>4, <2>6, <2>7, <2>8
  <2>10. Certain(ents[k]) => a <= b
    BY <2>9
  <2>. QED BY <2>5, <2>7, <2>8, <2>10
<1>. HIDE DEF raw, mean, new
<1>4. ASSUME NEW k \in 1..Len(ents)
      PROVE  /\ new[k] = [ents[k] EXCEPT !.conf = new[k].conf] /\ new[k].conf \in 0..1000
             /\ Certain(ents[k]) /\ ents[k].conf >= 900 => new[k].conf >= 700
  <2>1. new[k] = [ents[k] EXCEPT !.conf = Stretch(ents[k], raw[k], mean)]
    BY <1>1, <1>2
  <2>2. PICK c \in 0..1000 : c = raw[k]
    BY <1>3, Zenon
  <2>3. /\ Stretch(ents[k], c, mean) \in 0..1000
        /\ ents[k].type \in Structured /\ 750 <= c => c <= Stretch(ents[k], c, mean)
    <3>1. Moved(ents[k], c, Stretch(ents[k], c, mean), 750)
      BY StretchHolds, ZenonT(60)
    <3>. QED BY <3>1, Zenon DEF Moved
  <2>4. ents[k] = [s |-> ents[k].s, e |-> ents[k].e, type |-> ents[k].type, conf |-> ents[k].conf,
                   by |-> ents[k].by, txt |-> ents[k].txt]
    BY <1>2 DEF Fits
  <2>5. new[k].conf = Stretch(ents[k], c, mean)
    BY <2>1, <2>2, <2>4
  <2>6. Certain(ents[k]) => ents[k].type \in Structured /\ ents[k].conf <= c
    BY <1>3, <2>2 DEF Certain, Structured
  <2>7. ents[k].conf \in 0..1000
    <3>1. Fits(ents[k], B)
      BY <1>2
    <3>. QED BY <3>1, Zenon DEF Fits
  <2>8. PICK a \in 0..1000 : a = ents[k].conf
    BY <2>7, Zenon
  <2>12. PICK d \in 0..1000 : d = Stretch(ents[k], c, mean)
    BY <2>3, ZenonT(60)
  <2>9. a <= c /\ a >= 900 => c >= 750 /\ 750 <= c
    OBVIOUS
  <2>10. c <= d /\ 750 <= c => d >= 700
    OBVIOUS
  <2>11. Certain(ents[k]) /\ ents[k].conf >= 900 => new[k].conf >= 700
    BY <2>3, <2>5, <2>6, <2>8, <2>12, <2>9, <2>10
  <2>. QED BY <2>1, <2>3, <2>5, <2>11
<1>5. new = [k \in DOMAIN ents |-> [ents[k] EXCEPT !.conf = new[k].conf]]
  <2>1. new = [k \in 1..Len(ents) |-> new[k]]
    BY <1>1, <1>2, SMTT(30)
  <2>. QED BY <1>2, <1>4, <2>1
<1>6. Rescored(ents, new)
  BY <1>4, <1>5, Zenon DEF Rescored
<1>7. ASSUME Sure(ents, B, 900) PROVE Sure(new, B, 700)
  <2>1. \A k \in 1..Len(ents) : Certain(ents[k]) /\ ents[k].conf >= 900 => new[k].conf >= 700
    BY <1>4, Zenon
  <2>. QED BY <1>6, <1>7, <2>1, SureRescored
<1>. QED BY <1>6, <1>7, Zenon DEF new

(* A list with the confidence of each entity rewritten.                    *)
Written(ents, new, conf) == Rescored(ents, new) /\ \A k \in 1..Len(ents) : new[k].conf = conf[k]

Rewrites(ents, new, conf) == new = [k \in DOMAIN ents |-> [ents[k] EXCEPT !.conf = conf[k]]]

LEMMA ConfWritten ==
  ASSUME NEW B, NEW ents, Listed(ents, B), NEW conf, NEW new, Rewrites(ents, new, conf),
         \A k \in 1..Len(ents) : conf[k] \in 0..1000
  PROVE  Written(ents, new, conf)
<1>0. new = [k \in DOMAIN ents |-> [ents[k] EXCEPT !.conf = conf[k]]]
  BY DEF Rewrites
<1>1. ents \in Seq(Range(ents)) /\ DOMAIN ents = 1..Len(ents) /\ \A k \in 1..Len(ents) : Fits(ents[k], B)
  BY DEF Listed
<1>2. ASSUME NEW k \in 1..Len(ents)
      PROVE  new[k] = [ents[k] EXCEPT !.conf = conf[k]] /\ new[k].conf = conf[k]
  <2>1. new[k] = [ents[k] EXCEPT !.conf = conf[k]]
    BY <1>0, <1>1
  <2>2. Fits(ents[k], B)
    BY <1>1
  <2>3. ents[k] = [s |-> ents[k].s, e |-> ents[k].e, type |-> ents[k].type, conf |-> ents[k].conf,
                   by |-> ents[k].by, txt |-> ents[k].txt]
    BY <2>2, Zenon DEF Fits
  <2>. QED BY <2>1, <2>3
<1>3. new = [k \in DOMAIN ents |-> [ents[k] EXCEPT !.conf = new[k].conf]]
  <2>1. new = [k \in 1..Len(ents) |-> new[k]]
    BY <1>0, <1>1
  <2>. QED BY <1>1, <1>2, <2>1
<1>4. Rescored(ents, new)
  <2>1. \A k \in 1..Len(ents) : new[k].conf \in 0..1000
    <3>1. \A k \in 1..Len(ents) : new[k].conf = conf[k] /\ conf[k] \in 0..1000
      BY <1>2, Zenon
    <3>. QED BY <3>1, ZenonT(60)
  <2>. QED BY <1>3, <2>1, Zenon DEF Rescored
<1>. QED BY <1>2, <1>4, Zenon DEF Written

LEMMA FallbackScoreRescored ==
  ASSUME NEW B, SentText(B), NEW ents, Listed(ents, B), NEW n
  PROVE  Rescored(ents, FallbackScore(ents)) /\ (Sure(ents, B, n) => Sure(FallbackScore(ents), B, 700))
<1>. DEFINE new == FallbackScore(ents)
            conf == [k \in DOMAIN ents |-> TypeConfidence(ents[k])]
<1>1. ents \in Seq(Range(ents)) /\ DOMAIN ents = 1..Len(ents)
  BY DEF Listed
<1>2. Rewrites(ents, new, conf)
  BY DEF FallbackScore, Rewrites
<1>3. ASSUME NEW k \in 1..Len(ents)
      PROVE  /\ conf[k] \in {800, 700, 900, 600, 500}
             /\ Certain(ents[k]) => conf[k] \in {800, 700, 900}
  <2>1. conf[k] = TypeConfidence(ents[k])
    BY <1>1
  <2>. HIDE DEF conf
  <2>. QED BY <2>1 DEF TypeConfidence, Certain
<1>. HIDE DEF conf, new
<1>4. \A k \in 1..Len(ents) : conf[k] \in 0..1000 /\ (Certain(ents[k]) => conf[k] >= 700)
  BY <1>3
<1>5. Rescored(ents, new) /\ \A k \in 1..Len(ents) : new[k].conf = conf[k]
  <2>1. Written(ents, new, conf)
    BY <1>2, <1>4, ConfWritten
  <2>. QED BY <2>1, Zenon DEF Written
<1>6. ASSUME Sure(ents, B, n) PROVE Sure(new, B, 700)
  <2>1. \A k \in 1..Len(ents) : Certain(ents[k]) /\ ents[k].conf >= n => new[k].conf >= 700
    BY <1>4, <1>5
  <2>. QED BY <1>5, <1>6, <2>1, SureRescored
<1>. QED BY <1>5, <1>6, Zenon DEF new

LEMMA ResolvedRescored ==
  ASSUME NEW B, SentText(B), NEW ents, Listed(ents, B), NEW said
  PROVE  Rescored(ents, ResolveContext(ents, said))
           /\ (Sure(ents, B, 700) => Sure(ResolveContext(ents, said), B, 700))
<1>. DEFINE new == ResolveContext(ents, said)
            intent == Intent(said)
            Rest(x) == CASE intent = "teaching" /\ x.type \in Structured ->
                              IF x.type = "email" /\ IsExampleEmail(x.txt[1]) THEN x.conf - 150 ELSE x.conf
                         [] intent = "teaching" /\ x.type \notin Structured -> x.conf - 150
                         [] intent = "personal" -> x.conf + 150
                         [] OTHER -> x.conf
            conf == [k \in DOMAIN ents |-> Clip(Rest(ents[k]))]
<1>1. ents \in Seq(Range(ents)) /\ DOMAIN ents = 1..Len(ents) /\ \A k \in 1..Len(ents) : Fits(ents[k], B)
  BY DEF Listed
<1>2. Rewrites(ents, new, conf)
  BY DEF ResolveContext, AdjustForIntent, Rewrites
<1>3. ASSUME NEW k \in 1..Len(ents)
      PROVE  /\ conf[k] \in 0..1000
             /\ Certain(ents[k]) /\ ents[k].conf >= 700 => conf[k] >= 700
  <2>1. conf[k] = Clip(Rest(ents[k]))
    BY <1>1
  <2>2. Fits(ents[k], B)
    BY <1>1
  <2>3. PICK a \in 0..1000 : a = ents[k].conf
    BY <2>2, Zenon DEF Fits
  <2>4. Certain(ents[k]) => ents[k].type \in Structured /\ ~IsExampleEmail(ents[k].txt[1])
    BY DEF Certain, Structured
  <2>5. Rest(ents[k]) \in {a - 150, a, a + 150}
    BY <2>3
  <2>6. Certain(ents[k]) => Rest(ents[k]) \in {a, a + 150}
    BY <2>3, <2>4
  <2>. HIDE DEF Rest, conf
  <2>7. PICK b \in Int : b = Rest(ents[k])
    BY <2>5
  <2>8. Clip(b) \in 0..1000 /\ (b >= 700 => Clip(b) >= 700)
    BY DEF Clip
  <2>9. Certain(ents[k]) => b >= a
    BY <2>6, <2>7
  <2>. QED BY <2>1, <2>3, <2>7, <2>8, <2>9
<1>. HIDE DEF conf, new, Rest
<1>4. \A k \in 1..Len(ents) : conf[k] \in 0..1000
  BY <1>3, Zenon
<1>5. Rescored(ents, new) /\ \A k \in 1..Len(ents) : new[k].conf = conf[k]
  <2>1. Written(ents, new, conf)
    BY <1>2, <1>4, ConfWritten
  <2>. QED BY <2>1, Zenon DEF Written
<1>6. ASSUME Sure(ents, B, 700) PROVE Sure(new, B, 700)
  <2>1. \A k \in 1..Len(ents) : Certain(ents[k]) /\ ents[k].conf >= 700 => new[k].conf >= 700
    BY <1>3, <1>5
  <2>. QED BY <1>5, <1>6, <2>1, SureRescored
<1>. QED BY <1>5, <1>6, Zenon DEF new

LEMMA FallbackContextRescored ==
  ASSUME NEW B, SentText(B), NEW ents, Listed(ents, B), NEW said
  PROVE  /\ Rescored(ents, FallbackContext(ents, said))
         /\ Sure(ents, B, 700) => Sure(FallbackContext(ents, said), B, 700)
<1>. DEFINE new == FallbackContext(ents, said)
            Rest(x) == IF said \cap Keywords.teaching # {}
                       THEN IF x.type \in Structured THEN x.conf ELSE (x.conf * 7) \div 10
                       ELSE IF said \cap Keywords.personal # {} THEN (x.conf * 11) \div 10 ELSE x.conf
            conf == [k \in DOMAIN ents |-> Clip(Rest(ents[k]))]
<1>1. ents \in Seq(Range(ents)) /\ DOMAIN ents = 1..Len(ents) /\ \A k \in 1..Len(ents) : Fits(ents[k], B)
  BY DEF Listed
<1>2. Rewrites(ents, new, conf)
  BY DEF FallbackContext, Rewrites
<1>3. ASSUME NEW k \in 1..Len(ents)
      PROVE  /\ conf[k] \in 0..1000
             /\ Certain(ents[k]) /\ ents[k].conf >= 700 => conf[k] >= 700
  <2>1. conf[k] = Clip(Rest(ents[k]))
    BY <1>1
  <2>2. Fits(ents[k], B)
    BY <1>1
  <2>3. PICK a \in 0..1000 : a = ents[k].conf
    BY <2>2, Zenon DEF Fits
  <2>4. Certain(ents[k]) => ents[k].type \in Structured
    BY DEF Certain, Structured
  <2>5. Rest(ents[k]) \in {a, (a * 7) \div 10, (a * 11) \div 10}
    BY <2>3
  <2>6. Certain(ents[k]) => Rest(ents[k]) \in {a, (a * 11) \div 10}
    BY <2>3, <2>4
  <2>. HIDE DEF Rest, conf
  <2>10. (a * 7) \div 10 \in Int /\ (a * 11) \div 10 \in Int /\ a <= (a * 11) \div 10
    OBVIOUS
  <2>11. PICK c \in Int : c = (a * 11) \div 10
    BY <2>10
  <2>7. PICK b \in Int : b = Rest(ents[k])
    BY <2>5, <2>10
  <2>8. Clip(b) \in 0..1000 /\ (b >= 700 => Clip(b) >= 700)
    BY DEF Clip
  <2>9. Certain(ents[k]) => b >= a
    <3>1. Certain(ents[k]) => b \in {a, c}
      BY <2>6, <2>7, <2>11
    <3>2. a <= c
      BY <2>10, <2>11
    <3>. QED BY <3>1, <3>2
  <2>. QED BY <2>1, <2>3, <2>7, <2>8, <2>9
<1>. HIDE DEF conf, new, Rest
<1>4. \A k \in 1..Len(ents) : conf[k] \in 0..1000
  BY <1>3, Zenon
<1>5. Rescored(ents, new) /\ \A k \in 1..Len(ents) : new[k].conf = conf[k]
  <2>1. Written(ents, new, conf)
    BY <1>2, <1>4, ConfWritten
  <2>. QED BY <2>1, Zenon DEF Written
<1>6. ASSUME Sure(ents, B, 700) PROVE Sure(new, B, 700)
  <2>1. \A k \in 1..Len(ents) : Certain(ents[k]) /\ ents[k].conf >= 700 => new[k].conf >= 700
    BY <1>3, <1>5
  <2>. QED BY <1>5, <1>6, <2>1, SureRescored
<1>. QED BY <1>5, <1>6, Zenon DEF new

-----------------------------------------------------------------------------
(* The filters                                                             *)

(* The filters of the pipeline.                                            *)
LEMMA FloorPicked ==
  ASSUME NEW ents, ents \in Seq(Range(ents))
  PROVE  Only(ents, PassesFloor) = Picked(ents, {x \in Range(ents) : PassesFloor(x)})
<1>1. \A i \in DOMAIN ents : ents[i] \in Range(ents)
  BY DEF Range
<1>2. \A i \in DOMAIN ents : ents[i] \in {x \in Range(ents) : PassesFloor(x)} <=> PassesFloor(ents[i])
  BY <1>1
<1>3. [i \in DOMAIN ents |-> IF PassesFloor(ents[i]) THEN <<ents[i]>> ELSE <<>>]
        = [i \in DOMAIN ents |-> IF ents[i] \in {x \in Range(ents) : PassesFloor(x)} THEN <<ents[i]>> ELSE <<>>]
  BY <1>2
<1>. QED BY <1>3, Zenon DEF Only, Picked

LEMMA ValidPicked ==
  ASSUME NEW ents, ents \in Seq(Range(ents))
  PROVE  Only(ents, ValidInContext) = Picked(ents, {x \in Range(ents) : ValidInContext(x)})
<1>1. \A i \in DOMAIN ents : ents[i] \in Range(ents)
  BY DEF Range
<1>2. \A i \in DOMAIN ents : ents[i] \in {x \in Range(ents) : ValidInContext(x)} <=> ValidInContext(ents[i])
  BY <1>1
<1>3. [i \in DOMAIN ents |-> IF ValidInContext(ents[i]) THEN <<ents[i]>> ELSE <<>>]
        = [i \in DOMAIN ents |-> IF ents[i] \in {x \in Range(ents) : ValidInContext(x)} THEN <<ents[i]>> ELSE <<>>]
  BY <1>2
<1>. QED BY <1>3, Zenon DEF Only, Picked

LEMMA MaskablePicked ==
  ASSUME NEW ents, ents \in Seq(Range(ents))
  PROVE  Only(ents, Maskable) = Picked(ents, ToMask(ents))
<1>1. \A i \in DOMAIN ents : ents[i] \in Range(ents)
  BY DEF Range
<1>2. \A i \in DOMAIN ents : ents[i] \in ToMask(ents) <=> Maskable(ents[i])
  BY <1>1 DEF ToMask
<1>3. [i \in DOMAIN ents |-> IF Maskable(ents[i]) THEN <<ents[i]>> ELSE <<>>]
        = [i \in DOMAIN ents |-> IF ents[i] \in ToMask(ents) THEN <<ents[i]>> ELSE <<>>]
  BY <1>2
<1>. QED BY <1>3, Zenon DEF Only, Picked

(* So a sorted list is as sure, and so is one with some unsure left out.   *)
LEMMA SureEntities ==
  ASSUME NEW B, SentText(B), NEW ents, Listed(ents, B), NEW n \in {550, 700, 900}, Sure(ents, B, n)
  PROVE  \A c \in Counted(B) : \E x \in Range(ents) :
            /\ x.conf >= n /\ B[x.s] = c /\ x.e = x.s + 1 /\ Certain(x) /\ Fits(x, B)
            /\ PassesFloor(x) /\ ValidInContext(x) /\ Maskable(x)
<1>. TAKE c \in Counted(B)
<1>1. PICK k \in 1..Len(ents) : ents[k].conf >= n /\ B[ents[k].s] = c /\ ents[k].e = ents[k].s + 1
  BY DEF Sure
<1>2. Fits(ents[k], B) /\ ents[k] \in Range(ents)
  BY RangeFinite DEF Listed
<1>3. Certain(ents[k]) /\ PassesFloor(ents[k]) /\ ValidInContext(ents[k]) /\ Maskable(ents[k])
  BY <1>1, <1>2, SureKept
<1>. QED BY <1>1, <1>2, <1>3

LEMMA SureBy ==
  ASSUME NEW B, NEW n, NEW q, q \in Seq(Range(q)),
         \A c \in Counted(B) : \E x \in Range(q) : x.conf >= n /\ B[x.s] = c /\ x.e = x.s + 1
  PROVE  Sure(q, B, n)
<1>1. Range(q) = {q[k] : k \in 1..Len(q)}
  BY RangeFinite
<1>. QED BY <1>1 DEF Sure

LEMMA SureAnew ==
  ASSUME NEW B, SentText(B), NEW ents, Listed(ents, B), NEW n \in {550, 700, 900}, Sure(ents, B, n),
         NEW q, q \in Seq(Range(q)), NEW A, Range(q) = Range(ents) \cap A,
         \A x \in Range(ents) : PassesFloor(x) /\ ValidInContext(x) /\ Maskable(x) => x \in A
  PROVE  Sure(q, B, n)
<1>1. \A c \in Counted(B) : \E x \in Range(q) : x.conf >= n /\ B[x.s] = c /\ x.e = x.s + 1
  BY SureEntities
<1>. QED BY <1>1, SureBy

KeptWell(L, ents, new, B) ==
  /\ Listed(new, B) /\ LostStands(L, new, B)
  /\ Sure(ents, B, 700) => Sure(new, B, 700)

(* Scoring drops what is below the floor, or nothing when all is.          *)
LEMMA FloorKept ==
  ASSUME NEW B, SentText(B), NEW ents, Listed(ents, B), NEW L, L = {x \in Range(ents) : ~PassesFloor(x)},
         NEW new, new = Keep(ByScore(Only(ents, PassesFloor)), ents)
  PROVE  KeptWell(L, ents, new, B)
<1>. DEFINE A == {x \in Range(ents) : PassesFloor(x)}
            q == Only(ents, PassesFloor)
<1>1. ents \in Seq(Range(ents)) /\ B \in Seq(Range(B)) /\ \A k \in 1..Len(ents) : Fits(ents[k], B)
  BY DEF Listed, SentText
<1>2. Listed(q, B) /\ Range(q) = Range(ents) \cap A
  <2>1. q = Picked(ents, A)
    BY <1>1, FloorPicked
  <2>. HIDE DEF q, A
  <2>. QED BY <1>1, <2>1, PickedListed
<1>3. \A x \in Range(q) : Fits(x, B) /\ x.conf \in Nat
  <2>1. \A x \in Range(q) : Fits(x, B)
    BY <1>1, <1>2, ListedSpans
  <2>2. \A x : Fits(x, B) => x.conf \in 0..1000
    BY Zenon DEF Fits
  <2>. QED BY <2>1, <2>2
<1>4. Starts(Range(q))
  BY <1>1, <1>2, ListedSpans, SpansStart
<1>5. InOrderOf(ByScore(q), Range(q), ScoreOrder(Range(q)))
  BY <1>3, <1>4, ByScoreHolds
<1>6. Listed(ByScore(q), B) /\ Range(ByScore(q)) = Range(q)
  BY <1>1, <1>2, <1>5, SortedListed
<1>7. ASSUME Sure(ents, B, 700) PROVE Sure(ByScore(q), B, 700)
  <2>1. ByScore(q) \in Seq(Range(ByScore(q))) /\ Range(ByScore(q)) = Range(ents) \cap A
    BY <1>2, <1>6 DEF Listed
  <2>. HIDE DEF q
  <2>. QED BY <1>7, <2>1, SureAnew
<1>8. \A x \in Range(ents) : Fits(x, B)
  BY <1>1, ListedSpans
<1>. HIDE DEF q
<1>9. CASE ByScore(q) = <<>>
  <2>1. new = ents
    BY <1>9 DEF Keep, q
  <2>2. Range(q) = {}
    <3>1. Range(<<>>) = {}
      BY DEF Range
    <3>. QED BY <1>6, <1>9, <3>1
  <2>3. \A x \in Range(ents) : x \in L
    BY <1>2, <2>2
  <2>4. \A k \in 1..Len(ents) : ents[k] \in Range(ents)
    BY <1>1
  <2>5. ASSUME NEW x \in L
        PROVE  /\ \E k \in 1..Len(ents) : ents[k].s = x.s /\ ents[k].e = x.e
               /\ \A k \in 1..Len(ents) : \E y \in L : y.txt = ents[k].txt
    <3>1. PICK k \in 1..Len(ents) : ents[k] = x
      <4>1. Range(ents) = {ents[k] : k \in 1..Len(ents)} /\ x \in Range(ents)
        BY <1>1, RangeFinite
      <4>. QED BY <4>1
    <3>. QED BY <2>3, <2>4, <3>1
  <2>6. LostStands(L, ents, B)
    BY <1>8, <2>5 DEF LostStands
  <2>. QED BY <2>1, <2>6 DEF KeptWell
<1>10. CASE ByScore(q) # <<>>
  <2>1. new = ByScore(q)
    BY <1>10 DEF Keep, q
  <2>2. \A k \in 1..Len(new) : new[k] \in Range(ents) /\ new[k] \in A
    <3>1. \A k \in 1..Len(new) : new[k] \in Range(new)
      BY <1>6, <2>1 DEF Listed
    <3>. QED BY <1>2, <1>6, <2>1, <3>1
  <2>3. \A x, y \in Range(ents) : x # y => Apart(x, y)
    BY <1>1, Distinct
  <2>4. \A x \in L : Fits(x, B) /\ \A k \in 1..Len(new) : Apart(new[k], x)
    BY <1>8, <2>2, <2>3
  <2>5. LostStands(L, new, B)
    BY <2>4 DEF LostStands
  <2>. QED BY <1>6, <1>7, <2>1, <2>5 DEF KeptWell
<1>. QED BY <1>9, <1>10 DEF KeptWell

(* What stands beside or in place of the entities of a list stands beside  *)
(* or in place of those of a list made of some of them, moved or not.      *)
LEMMA StandsAnew ==
  ASSUME NEW B, SentText(B), NEW ents, Listed(ents, B), NEW L, LostStands(L, ents, B),
         NEW q, q \in Seq(Range(q)), Range(q) \subseteq Range(ents)
  PROVE  LostStands(L, q, B)
<1>1. ents \in Seq(Range(ents)) /\ B \in Seq(Range(B)) /\ \A k \in 1..Len(ents) : Fits(ents[k], B)
  BY DEF Listed, SentText
<1>2. Range(ents) = {ents[k] : k \in 1..Len(ents)} /\ Range(q) = {q[k] : k \in 1..Len(q)}
  BY <1>1, RangeFinite
<1>3. \A x, y \in Range(ents) : x # y => Apart(x, y)
  BY <1>1, Distinct
<1>4. \A k \in 1..Len(q) : \E j \in 1..Len(ents) : q[k] = ents[j]
  BY <1>2
<1>5. ASSUME NEW x \in L, \A k \in 1..Len(ents) : Apart(ents[k], x)
      PROVE  \A k \in 1..Len(q) : Apart(q[k], x)
  BY <1>4, <1>5
<1>6. ASSUME NEW x \in L, NEW k \in 1..Len(ents), ents[k].s = x.s /\ ents[k].e = x.e,
             ~ \E j \in 1..Len(q) : q[j].s = x.s /\ q[j].e = x.e
      PROVE  \A j \in 1..Len(q) : Apart(q[j], x)
  <2>. TAKE j \in 1..Len(q)
  <2>1. q[j] # ents[k] /\ q[j] \in Range(ents) /\ ents[k] \in Range(ents)
    BY <1>1, <1>2, <1>4, <1>6
  <2>2. Apart(q[j], ents[k])
    BY <1>3, <2>1
  <2>. QED BY <1>6, <2>2 DEF Apart
<1>7. \A x \in L : /\ Fits(x, B)
                    /\ \/ \A k \in 1..Len(ents) : Apart(ents[k], x)
                       \/ /\ \E k \in 1..Len(ents) : ents[k].s = x.s /\ ents[k].e = x.e
                          /\ \A k \in 1..Len(ents) : \E y \in L : y.txt = ents[k].txt
  BY DEF LostStands
<1>8. ASSUME NEW x \in L
      PROVE  /\ Fits(x, B)
             /\ \/ \A k \in 1..Len(q) : Apart(q[k], x)
                \/ /\ \E k \in 1..Len(q) : q[k].s = x.s /\ q[k].e = x.e
                   /\ \A k \in 1..Len(q) : \E y \in L : y.txt = q[k].txt
  <2>1. CASE \A k \in 1..Len(ents) : Apart(ents[k], x)
    BY <1>5, <1>7, <2>1
  <2>2. CASE /\ \E k \in 1..Len(ents) : ents[k].s = x.s /\ ents[k].e = x.e
             /\ \A k \in 1..Len(ents) : \E y \in L : y.txt = ents[k].txt
    <3>1. \A k \in 1..Len(q) : \E y \in L : y.txt = q[k].txt
      BY <1>4, <2>2
    <3>2. PICK k \in 1..Len(ents) : ents[k].s = x.s /\ ents[k].e = x.e
      BY <2>2
    <3>3. CASE \E j \in 1..Len(q) : q[j].s = x.s /\ q[j].e = x.e
      BY <1>7, <3>1, <3>3
    <3>4. CASE ~ \E j \in 1..Len(q) : q[j].s = x.s /\ q[j].e = x.e
      <4>1. \A j \in 1..Len(q) : Apart(q[j], x)
        BY <1>6, <3>2, <3>4
      <4>. QED BY <1>7, <4>1
    <3>. QED BY <3>3, <3>4
  <2>. QED BY <1>7, <2>1, <2>2
<1>. QED BY <1>8 DEF LostStands

LEMMA StandsRescored ==
  ASSUME NEW B, SentText(B), NEW ents, Listed(ents, B), NEW L, LostStands(L, ents, B),
         NEW new, Rescored(ents, new)
  PROVE  LostStands(L, new, B)
<1>1. /\ Len(new) = Len(ents)
      /\ \A k \in 1..Len(ents) : /\ new[k].s = ents[k].s /\ new[k].e = ents[k].e /\ new[k].txt = ents[k].txt
  <2>1. B \in Seq(Range(B))
    BY DEF SentText
  <2>. QED BY <2>1, RescoredListed
<1>. QED BY <1>1 DEF LostStands, Apart

(* The context stage leaves out what is too unsure, unless that is all.    *)
LEMMA ValidKept ==
  ASSUME NEW B, SentText(B), NEW ents, Listed(ents, B), NEW L, LostStands(L, ents, B),
         NEW new, new = Keep(Only(ents, ValidInContext), ents)
  PROVE  KeptWell(L, ents, new, B)
<1>. DEFINE A == {x \in Range(ents) : ValidInContext(x)}
            q == Only(ents, ValidInContext)
<1>1. ents \in Seq(Range(ents)) /\ B \in Seq(Range(B))
  BY DEF Listed, SentText
<1>2. Listed(q, B) /\ Range(q) = Range(ents) \cap A
  <2>1. q = Picked(ents, A)
    BY <1>1, ValidPicked
  <2>. HIDE DEF q, A
  <2>. QED BY <1>1, <2>1, PickedListed
<1>3. q \in Seq(Range(q)) /\ Range(q) \subseteq Range(ents)
  BY <1>2 DEF Listed
<1>4. new = ents \/ new = q
  BY DEF Keep
<1>. HIDE DEF q
<1>5. LostStands(L, q, B)
  BY <1>3, StandsAnew
<1>6. ASSUME Sure(ents, B, 700) PROVE Sure(q, B, 700)
  BY <1>2, <1>3, <1>6, SureAnew
<1>. QED BY <1>2, <1>4, <1>5, <1>6 DEF KeptWell

-----------------------------------------------------------------------------
(* Labels and the masking map                                              *)

(* The masked text and the map depend on which entities there are, and not *)
(* on the order they are listed in.                                        *)
LEMMA MaskedAgain ==
  ASSUME NEW B, SentText(B), NEW ents, Listed(ents, B)
  PROVE  LET q == RightToLeft(ents)
         IN  /\ Listed(q, B) /\ Range(q) = Range(ents)
             /\ ApplyMasks(B, q) = ApplyMasks(B, ents) /\ MaskingMap(q) = MaskingMap(ents)
<1>. DEFINE q == RightToLeft(ents)
<1>1. B \in Seq(Range(B)) /\ ents \in Seq(Range(ents))
  BY DEF SentText, Listed
<1>2. InOrderOf(q, Range(ents), RightOrder(Range(ents)))
  BY <1>1, ListedSpans, SpansStart, RightToLeftHolds
<1>. HIDE DEF q
<1>3. Listed(q, B) /\ Range(q) = Range(ents)
  BY <1>1, <1>2, SortedListed
<1>4. RightToLeft(q) = RightToLeft(ents)
  BY <1>3, Zenon DEF RightToLeft
<1>5. ApplyMasks(B, q) = ApplyMasks(B, ents)
  BY <1>4, Zenon DEF ApplyMasks
<1>6. ToMask(q) = ToMask(ents)
  BY <1>3, Zenon DEF ToMask
<1>7. Range(Only(q, Maskable)) = Range(Only(ents, Maskable))
  <2>1. Range(Picked(q, ToMask(q))) = Range(q) \cap ToMask(q)
    BY <1>1, <1>3, PickedListed
  <2>2. Range(Picked(ents, ToMask(ents))) = Range(ents) \cap ToMask(ents)
    BY <1>1, PickedListed
  <2>3. Only(q, Maskable) = Picked(q, ToMask(q)) /\ Only(ents, Maskable) = Picked(ents, ToMask(ents))
    BY <1>1, <1>3, MaskablePicked DEF Listed
  <2>. QED BY <1>3, <1>6, <2>1, <2>2, <2>3, Zenon
<1>8. RightToLeft(Only(q, Maskable)) = RightToLeft(Only(ents, Maskable))
  BY <1>7, Zenon DEF RightToLeft
<1>9. [x \in Range(q) |-> Mask(x)] = [x \in Range(ents) |-> Mask(x)]
  BY <1>3, Zenon
<1>10. MaskingMap(q) = MaskingMap(ents)
  <2>1. \A t : MapOf(Only(q, Maskable), t) = MapOf(Only(ents, Maskable), t)
    BY <1>8, Zenon DEF MapOf
  <2>2. MaskingMap(q) = MapOf(Only(q, Maskable), [x \in Range(q) |-> Mask(x)])
    BY Zenon DEF MaskingMap
  <2>3. MaskingMap(ents) = MapOf(Only(ents, Maskable), [x \in Range(ents) |-> Mask(x)])
    BY Zenon DEF MaskingMap
  <2>. QED BY <1>9, <2>1, <2>2, <2>3, Zenon
<1>. QED BY <1>3, <1>5, <1>10 DEF q

(* What the map holds when no two labels are the same.                     *)
LEMMA MapHolds ==
  ASSUME NEW B, SentText(B), NEW ents, Listed(ents, B),
         \A x, y \in ToMask(ents) : Mask(x) = Mask(y) => x = y
  PROVE  /\ DOMAIN MaskingMap(ents) = {Mask(x) : x \in ToMask(ents)}
         /\ \A x \in ToMask(ents) : MaskingMap(ents)[Mask(x)] = x.txt
<1>. DEFINE e == Only(ents, Maskable)
            R == RightToLeft(e)
            tok == [x \in Range(ents) |-> Mask(x)]
            At(t) == {k \in DOMAIN R : tok[R[k]] = t}
<1>1. B \in Seq(Range(B)) /\ ents \in Seq(Range(ents))
  BY DEF SentText, Listed
<1>2. Listed(e, B) /\ Range(e) = ToMask(ents)
  <2>1. e = Picked(ents, ToMask(ents))
    BY <1>1, MaskablePicked
  <2>2. Range(ents) \cap ToMask(ents) = ToMask(ents)
    BY DEF ToMask
  <2>. HIDE DEF e
  <2>. QED BY <1>1, <2>1, <2>2, PickedListed
<1>. HIDE DEF e
<1>3. InOrderOf(R, ToMask(ents), RightOrder(ToMask(ents)))
  BY <1>1, <1>2, ListedSpans, SpansStart, RightToLeftHolds
<1>4. MaskingMap(ents) = [t \in {tok[R[k]] : k \in DOMAIN R} |-> R[Max(At(t))].txt]
  BY Zenon DEF MaskingMap, MapOf, e
<1>. HIDE DEF R
<1>5. /\ R \in Seq(ToMask(ents)) /\ DOMAIN R = 1..Len(R) /\ Len(R) \in Nat
           /\ ToMask(ents) = {R[k] : k \in 1..Len(R)}
      /\ \A i, j \in 1..Len(R) : R[i] = R[j] => i = j
  <2>1. R \in Seq(ToMask(ents)) /\ Range(R) = ToMask(ents) /\ \A i, j \in 1..Len(R) : R[i] = R[j] => i = j
    BY <1>3 DEF InOrderOf
  <2>. QED BY <2>1, RangeFinite
<1>6. \A k \in 1..Len(R) : R[k] \in ToMask(ents) /\ R[k] \in Range(ents) /\ tok[R[k]] = Mask(R[k])
  BY <1>5 DEF ToMask
<1>7. {tok[R[k]] : k \in DOMAIN R} = {Mask(x) : x \in ToMask(ents)}
  <2>. HIDE DEF tok
  <2>1. {tok[R[k]] : k \in DOMAIN R} = {Mask(R[k]) : k \in 1..Len(R)}
    BY <1>5, <1>6
  <2>2. {Mask(R[k]) : k \in 1..Len(R)} = {Mask(x) : x \in ToMask(ents)}
    BY <1>5
  <2>. QED BY <2>1, <2>2, Zenon
<1>8. ASSUME NEW x \in ToMask(ents) PROVE MaskingMap(ents)[Mask(x)] = x.txt
  <2>1. PICK k \in 1..Len(R) : R[k] = x
    BY <1>5
  <2>2. At(Mask(x)) = {k}
    <3>1. \A j \in 1..Len(R) : tok[R[j]] = Mask(x) => j = k
      BY <1>5, <1>6, <2>1
    <3>2. tok[R[k]] = Mask(x)
      BY <1>6, <2>1
    <3>. HIDE DEF tok
    <3>. QED BY <1>5, <3>1, <3>2
  <2>3. Max({k}) = k
    BY <1>5 DEF Max
  <2>4. Mask(x) \in {tok[R[j]] : j \in DOMAIN R}
    BY <1>7
  <2>. HIDE DEF tok, At
  <2>. QED BY <1>4, <2>1, <2>2, <2>3, <2>4
<1>. HIDE DEF tok, At
<1>9. DOMAIN MaskingMap(ents) = {Mask(x) : x \in ToMask(ents)}
  BY <1>4, <1>7
<1>. QED BY <1>8, <1>9

-----------------------------------------------------------------------------
(* Unmasking and repairing labels                                          *)

(* Undoing the masks with the map.                                         *)
LEMMA UnmaskSpread ==
  ASSUME NEW C, NEW T \in Seq(C), NEW map, NEW f,
         f = [c \in C |-> IF c \in DOMAIN map THEN map[c] ELSE <<c>>]
  PROVE  Unmask(T, map) = Spread(T, f)
<1>1. \A i \in DOMAIN T : T[i] \in C
  OBVIOUS
<1>2. [i \in DOMAIN T |-> IF T[i] \in DOMAIN map THEN map[T[i]] ELSE <<T[i]>>] = [i \in DOMAIN T |-> f[T[i]]]
  BY <1>1
<1>. QED BY <1>2, Zenon DEF Unmask, Spread

LEMMA Unmasked ==
  ASSUME NEW B, SentText(B), NEW ents, Listed(ents, B),
         \A x, y \in ToMask(ents) : Mask(x) = Mask(y) => x = y
  PROVE  Unmask(ApplyMasks(B, ents), MaskingMap(ents)) = B
<1>. DEFINE map == MaskingMap(ents)
            C == ListCells(B, ents)
            f == [c \in C |-> IF c \in DOMAIN map THEN map[c] ELSE <<c>>]
            g == [c \in C |-> <<c>>]
<1>1. B \in Seq(Range(B)) /\ Listed(ents, B)
  BY DEF SentText
<1>2. Spans(ents, B) /\ B \in Seq(C) /\ \A x \in Range(ents) : Fits(x, B) /\ Mask(x) \in C
  BY <1>1, ListedSpans
<1>3. DOMAIN map = {Mask(x) : x \in ToMask(ents)} /\ \A x \in ToMask(ents) : map[Mask(x)] = x.txt
  BY MapHolds
<1>. HIDE DEF C, map
<1>4. \A x \in ToMask(ents) : x \in Range(ents) /\ Fits(x, B) /\ Mask(x) \in C /\ x.txt \in Seq(C)
  <2>1. \A x \in ToMask(ents) : x \in Range(ents) /\ Fits(x, B) /\ Mask(x) \in C
    BY <1>2 DEF ToMask
  <2>. QED BY <1>2, <2>1, FitsIn
<1>5. \A c \in C : c \in DOMAIN map => map[c] \in Seq(C)
  BY <1>3, <1>4
<1>6. \A c \in C : <<c>> \in Seq(C)
  OBVIOUS
<1>7. f \in [C -> Seq(C)] /\ g \in [C -> Seq(C)]
  BY <1>5, <1>6
<1>8. \A i \in 1..Len(B) : f[B[i]] = g[B[i]]
  <2>. TAKE i \in 1..Len(B)
  <2>1. B[i] \in C /\ Sent(B[i])
    BY <1>2 DEF SentText
  <2>2. B[i].kind # "tok"
    BY <2>1, SentCells
  <2>3. B[i] \notin DOMAIN map
    BY <1>3, <2>2, MaskIsToken
  <2>. QED BY <2>1, <2>3
<1>9. ASSUME NEW x \in ToMask(ents) PROVE f[Mask(x)] = Spread(SubSeq(B, x.s, x.e - 1), g)
  <2>1. f[Mask(x)] = x.txt
    BY <1>3, <1>4
  <2>2. x.txt = SubSeq(B, x.s, x.e - 1) /\ x.txt \in Seq(C)
    BY <1>2, <1>4, FitsIn
  <2>3. PICK t \in Seq(C) : t = SubSeq(B, x.s, x.e - 1)
    BY <2>2
  <2>4. \A i \in 1..Len(t) : g[t[i]] = <<t[i]>>
    OBVIOUS
  <2>. HIDE DEF g, f
  <2>5. Spread(t, g) = t
    BY <1>7, <2>4, SpreadSame
  <2>. QED BY <2>1, <2>2, <2>3, <2>5
<1>10. \A i \in 1..Len(B) : g[B[i]] = <<B[i]>>
  BY <1>2
<1>. HIDE DEF f, g
<1>11. Labelled(B, ents, C) /\ AlikeOn(B, ents, f, g)
  BY <1>2, <1>8, <1>9 DEF Labelled, AlikeOn
<1>13. Follows(B, ents, C, f, g)
  BY <1>7, <1>11, MaskedSpread
<1>12. Spread(B, g) = B
  BY <1>2, <1>7, <1>10, SpreadSame
<1>14. PICK W \in Seq(C) : W = ApplyMasks(B, ents) /\ Spread(W, f) = Spread(B, g)
  BY <1>13 DEF Follows
<1>15. Unmask(W, map) = Spread(W, f)
  BY UnmaskSpread DEF f
<1>. QED BY <1>12, <1>14, <1>15 DEF map

(* Repairing a masked text leaves its other cells alone.                   *)
LEMMA RepairSpread ==
  ASSUME NEW C, NEW T \in Seq(C), Word \in C, Masked \in C, NEW A,
         \A c \in A : c.kind # "tok" /\ c # Word
  PROVE  Repair(T) \in Seq(C) /\ Spread(Repair(T), Sieve(A, C)) = Spread(T, Sieve(A, C))
<1>. DEFINE p == [i \in DOMAIN T |-> RepairCell(T, i)]
            K == Sieve(A, C)
<1>1. DOMAIN T = 1..Len(T) /\ Len(T) \in Nat /\ \A i \in 1..Len(T) : T[i] \in C
  OBVIOUS
<1>2. K \in [C -> Seq(C)] /\ \A c \in C : K[c] = IF c \in A THEN <<c>> ELSE <<>>
  BY KeepsType
<1>3. Masked.kind = "tok" /\ \A c : Bracketed(c) => c.kind = "tok"
  BY DEF Masked, Token, Bracketed
<1>. HIDE DEF K
<1>4. K[Masked] = <<>> /\ K[Word] = <<>>
  BY <1>2, <1>3
<1>5. PICK m \in Seq(C), mw \in Seq(C) : m = <<Masked>> /\ mw = <<Masked, Word>>
  <2>1. <<Masked>> \in Seq(C)
    OBVIOUS
  <2>2. <<Masked, Word>> \in Seq(C)
    OBVIOUS
  <2>. QED BY <2>1, <2>2, Zenon
<1>6. Spread(m, K) = <<>>
  BY <1>2, <1>4, <1>5, SpreadOne
<1>7. Spread(mw, K) = <<>>
  <2>1. mw = Append(m, Word)
    BY <1>5
  <2>2. Spread(Append(m, Word), K) = Spread(m, K) \o K[Word]
    BY <1>2, SpreadAppend
  <2>. QED BY <1>4, <1>6, <2>1, <2>2
<1>8. ASSUME NEW i \in 1..Len(T)
      PROVE  RepairCell(T, i) \in Seq(C) /\ Spread(RepairCell(T, i), K) = K[T[i]]
  <2>1. RepairCell(T, i) = <<T[i]>> \/ (Bracketed(T[i]) /\ (RepairCell(T, i) = m \/ RepairCell(T, i) = mw))
    BY <1>5, Zenon DEF RepairCell
  <2>2. CASE RepairCell(T, i) = <<T[i]>>
    <3>1. <<T[i]>> \in Seq(C) /\ Spread(<<T[i]>>, K) = K[T[i]]
      <4>1. PICK c \in C : c = T[i]
        BY <1>1
      <4>2. Spread(<<c>>, K) = K[c]
        BY <1>2, SpreadOne
      <4>. QED BY <4>1, <4>2
    <3>. QED BY <2>2, <3>1
  <2>3. CASE Bracketed(T[i]) /\ (RepairCell(T, i) = m \/ RepairCell(T, i) = mw)
    <3>1. T[i].kind = "tok"
      BY <1>3, <2>3
    <3>2. K[T[i]] = <<>>
      BY <1>1, <1>2, <3>1
    <3>. QED BY <1>5, <1>6, <1>7, <2>3, <3>2
  <2>. QED BY <2>1, <2>2, <2>3
<1>9. p \in [1..Len(T) -> Seq(C)]
  BY <1>1, <1>8
<1>10. p \in Seq(Seq(C)) /\ Len(p) = Len(T) /\ DOMAIN p = 1..Len(T)
  BY <1>1, <1>9, RowOf
<1>11. \A i \in 1..Len(T) : p[i] = RepairCell(T, i)
  BY <1>1
<1>. HIDE DEF p
<1>12. SpreadParts(p, K) = Placed(T, K)
  BY <1>1, <1>8, <1>10, <1>11 DEF SpreadParts, Placed
<1>13. Spread(FlattenSeq(p), K) = FlattenSeq(SpreadParts(p, K)) /\ FlattenSeq(p) \in Seq(C)
  BY <1>2, <1>10, SpreadOver, FlatType
<1>14. Spread(T, K) = FlattenSeq(Placed(T, K))
  BY <1>2, SpreadRows
<1>15. Repair(T) = FlattenSeq(p)
  BY DEF Repair, p
<1>. QED BY <1>12, <1>13, <1>14, <1>15 DEF K

-----------------------------------------------------------------------------
(* What masking keeps of the text                                          *)

(* The cells a text, its masked form and its repair are made of, and c.    *)
CellsWith(B, ents, c) == ListCells(B, ents) \cup {c}

LEMMA WithCell ==
  ASSUME NEW B, SentText(B), NEW ents, Listed(ents, B), NEW c
  PROVE  LET C == CellsWith(B, ents, c)
         IN  Labelled(B, ents, C) /\ Word \in C /\ Masked \in C /\ c \in C
<1>. DEFINE C == CellsWith(B, ents, c)
            D == ListCells(B, ents)
<1>1. Spans(ents, B) /\ B \in Seq(D) /\ \A x \in Range(ents) : Mask(x) \in D
  BY ListedSpans DEF SentText
<1>2. Word \in D /\ Masked \in D
  BY DEF ListCells
<1>. HIDE DEF D
<1>3. C = D \cup {c}
  BY DEF CellsWith, D
<1>. HIDE DEF C
<1>4. B \in Seq(C)
  <2>1. \A i \in 1..Len(B) : B[i] \in C
    BY <1>1, <1>3
  <2>2. B \in [1..Len(B) -> C] /\ Len(B) \in Nat
    BY <1>1, <2>1
  <2>. QED BY <2>2, RowOf
<1>5. \A x \in Range(ents) : Mask(x) \in C
  BY <1>1, <1>3
<1>6. Labelled(B, ents, C)
  BY <1>1, <1>4, <1>5 DEF Labelled
<1>. QED BY <1>2, <1>3, <1>6 DEF C

(* The words around the values, and the teaching addresses.                *)
Untouched(c) == c = Cue \/ IsExampleEmail(c)

LEMMA AroundSpread ==
  ASSUME NEW C, NEW T \in Seq(C)
  PROVE  Only(T, Untouched) = Spread(T, Sieve({c \in C : Untouched(c)}, C))
<1>. DEFINE A == {c \in C : Untouched(c)}
            K == Sieve(A, C)
<1>1. \A c \in C : K[c] = IF c \in A THEN <<c>> ELSE <<>>
  BY KeepsType, Zenon
<1>2. \A i \in DOMAIN T : T[i] \in C /\ (T[i] \in A <=> Untouched(T[i]))
  OBVIOUS
<1>. HIDE DEF K, A
<1>3. [i \in DOMAIN T |-> IF Untouched(T[i]) THEN <<T[i]>> ELSE <<>>] = [i \in DOMAIN T |-> K[T[i]]]
  BY <1>1, <1>2
<1>. QED BY <1>3, Zenon DEF Only, Spread, K, A

LEMMA MaskedAround ==
  ASSUME NEW B, SentText(B), NEW ents, Listed(ents, B), NEW C, Labelled(B, ents, C)
  PROVE  LET K == Sieve({c \in C : Untouched(c)}, C) IN Follows(B, ents, C, K, K)
<1>. DEFINE A == {c \in C : Untouched(c)}
            K == Sieve(A, C)
<1>1. K \in [C -> Seq(C)] /\ \A c \in C : K[c] = IF c \in A THEN <<c>> ELSE <<>>
  BY KeepsType
<1>2. \A c \in A : c.kind # "tok" /\ c.kind # "cap" /\ (c.kind = "pii" => IsExampleEmail(c))
  BY DEF Untouched, Cue, IsExampleEmail
<1>. HIDE DEF K, A
<1>3. B \in Seq(C) /\ Spans(ents, B) /\ (\A x \in Range(ents) : Mask(x) \in C)
  BY DEF Labelled
<1>4. ASSUME NEW x \in ToMask(ents) PROVE K[Mask(x)] = Spread(SubSeq(B, x.s, x.e - 1), K)
  <2>1. x \in Range(ents) /\ Mask(x) \in C /\ Mask(x).kind = "tok"
    BY <1>3, MaskIsToken DEF ToMask
  <2>2. K[Mask(x)] = <<>>
    BY <1>1, <1>2, <2>1
  <2>3. Fits(x, B)
    BY <1>3, <2>1, ListedSpans
  <2>4. /\ x.txt = SubSeq(B, x.s, x.e - 1) /\ x.txt \in Seq(C) /\ Len(x.txt) = x.e - x.s
        /\ \A i \in 1..(x.e - x.s) : x.txt[i] = B[x.s + i - 1]
        /\ x.s \in Nat /\ x.e \in Nat /\ x.s < x.e
    BY <1>3, <2>3, FitsIn
  <2>5. \A i \in x.s..(x.e - 1) : B[i].kind \in {"pii", "cap"} /\ ~IsExampleEmail(B[i])
    BY <1>3, <2>3, SpanCells
  <2>6. PICK t \in Seq(C) : t = x.txt
    BY <2>4
  <2>7. \A i \in 1..Len(t) : t[i] \in C /\ t[i] \notin A
    <3>. TAKE i \in 1..Len(t)
    <3>1. i \in 1..(x.e - x.s) /\ x.s + i - 1 \in x.s..(x.e - 1)
      BY <2>4, <2>6
    <3>2. t[i] = B[x.s + i - 1]
      BY <2>4, <2>6, <3>1
    <3>. QED BY <1>2, <2>5, <3>1, <3>2
  <2>8. Placed(t, K) \in Seq(Seq(C)) /\ Len(Placed(t, K)) = Len(t)
        /\ (\A i \in 1..Len(t) : Placed(t, K)[i] = K[t[i]]) /\ Spread(t, K) = FlattenSeq(Placed(t, K))
    BY <1>1, SpreadRows
  <2>9. \A i \in 1..Len(Placed(t, K)) : Placed(t, K)[i] = <<>>
    BY <1>1, <2>7, <2>8
  <2>10. Spread(t, K) = <<>>
    BY <2>8, <2>9, FlatNothing
  <2>. QED BY <2>2, <2>4, <2>6, <2>10
<1>5. AlikeOn(B, ents, K, K)
  BY <1>4 DEF AlikeOn
<1>6. Follows(B, ents, C, K, K)
  BY <1>1, <1>5, MaskedSpread
<1>. QED BY <1>6 DEF K, A

LEMMA RepairCounts ==
  ASSUME NEW C, NEW T \in Seq(C), Word \in C, Masked \in C, NEW c \in C, c.kind \in {"pii", "cap"}
  PROVE  CountOf(c, Repair(T)) = CountOf(c, T) /\ Repair(T) \in Seq(C)
<1>1. c.kind # "tok" /\ c # Word
  BY DEF Word
<1>2. \A d \in {c} : d.kind # "tok" /\ d # Word
  BY <1>1
<1>3. Repair(T) \in Seq(C) /\ Spread(Repair(T), Sieve({c}, C)) = Spread(T, Sieve({c}, C))
  BY <1>2, RepairSpread
<1>4. CountOf(c, T) = Len(Spread(T, Sieve({c}, C)))
  BY CountIs
<1>5. CountOf(c, Repair(T)) = Len(Spread(Repair(T), Sieve({c}, C)))
  BY <1>3, CountIs
<1>. QED BY <1>3, <1>4, <1>5

(* What masking and repair make of a text.                                 *)
LEMMA MadeCounts ==
  ASSUME NEW B, SentText(B), NEW ents, Listed(ents, B), NEW M, M = B \/ M = ApplyMasks(B, ents),
         NEW T, T = M \/ T = Repair(M), NEW c, c.kind \in {"pii", "cap"}
  PROVE  /\ CountOf(c, T) \in Nat /\ CountOf(c, B) \in Nat /\ CountOf(c, T) <= CountOf(c, B)
         /\ c \in Counted(B) /\ M = ApplyMasks(B, ents) /\ Sure(ents, B, 700) => CountOf(c, T) < CountOf(c, B)
<1>. DEFINE C == CellsWith(B, ents, c)
            W == ApplyMasks(B, ents)
<1>1. Labelled(B, ents, C) /\ Word \in C /\ Masked \in C /\ c \in C
  BY WithCell
<1>. HIDE DEF C
<1>2. B \in Seq(C) /\ Spans(ents, B) /\ \A x \in Range(ents) : Mask(x) \in C
  BY <1>1 DEF Labelled
<1>3. \A x \in ToMask(ents) : Mask(x) # c
  BY MaskIsToken
<1>4. W \in Seq(C)
  BY <1>1, MaskedAround DEF Follows
<1>5. PICK V \in Seq(C) : V = W
  BY <1>4
<1>6. CountOf(c, V) \in Nat /\ CountOf(c, B) \in Nat
  BY <1>1, <1>2, CountIs
<1>7. CountOf(c, V) <= CountOf(c, B)
  <2>1. CountOf(c, W) + (IF 0 < 0 THEN 1 ELSE 0) <= CountOf(c, B)
    BY <1>1, <1>2, <1>3, MaskedCounts
  <2>. QED BY <1>5, <1>6, <2>1
<1>8. ASSUME c \in Counted(B), Sure(ents, B, 700) PROVE CountOf(c, V) < CountOf(c, B)
  <2>1. PICK x \in Range(ents) : B[x.s] = c /\ Fits(x, B) /\ Maskable(x)
    BY <1>8, SureEntities
  <2>2. x \in ToMask(ents) /\ x.s \in 1..Len(B) /\ x.s \in Nat
    BY <2>1 DEF ToMask, Fits
  <2>3. Covers(x, x.s)
    <3>1. x.s \in Nat /\ x.e \in Nat /\ x.s < x.e
      BY <1>2, <2>1, FitsIn
    <3>. QED BY <3>1 DEF Covers
  <2>4. PICK z \in Nat : z = x.s
    BY <2>2
  <2>5. z \in 1..Len(B) /\ B[z] = c /\ \E y \in ToMask(ents) : Covers(y, z)
    BY <2>1, <2>2, <2>3, <2>4
  <2>6. CountOf(c, W) + (IF 0 < z THEN 1 ELSE 0) <= CountOf(c, B)
    BY <1>1, <1>2, <1>3, <2>5, MaskedCounts
  <2>7. 0 < z
    BY <2>5
  <2>. QED BY <1>5, <1>6, <2>6, <2>7
<1>9. M \in Seq(C) /\ (M = B \/ M = V)
  BY <1>2, <1>5
<1>10. CountOf(c, T) = CountOf(c, M)
  <2>1. CountOf(c, Repair(M)) = CountOf(c, M)
    BY <1>1, <1>9, RepairCounts
  <2>. QED BY <2>1
<1>11. M = W => M = V
  BY <1>5
<1>. HIDE DEF W
<1>. QED BY <1>6, <1>7, <1>8, <1>9, <1>10, <1>11 DEF W

LEMMA MadeAround ==
  ASSUME NEW B, SentText(B), NEW ents, Listed(ents, B), NEW M, M = B \/ M = ApplyMasks(B, ents),
         NEW T, T = M \/ T = Repair(M)
  PROVE  Only(T, Untouched) = Only(B, Untouched)
<1>. DEFINE C == CellsWith(B, ents, Word)
            A == {c \in C : Untouched(c)}
            K == Sieve(A, C)
<1>1. Labelled(B, ents, C) /\ Word \in C /\ Masked \in C
  BY WithCell
<1>. HIDE DEF C
<1>2. B \in Seq(C)
  BY <1>1 DEF Labelled
<1>3. ApplyMasks(B, ents) \in Seq(C) /\ Spread(ApplyMasks(B, ents), K) = Spread(B, K)
  BY <1>1, MaskedAround DEF Follows
<1>4. M \in Seq(C) /\ Spread(M, K) = Spread(B, K)
  BY <1>2, <1>3
<1>5. \A c \in A : c.kind # "tok" /\ c # Word
  BY DEF Untouched, Cue, Word, IsExampleEmail
<1>6. Repair(M) \in Seq(C) /\ Spread(Repair(M), K) = Spread(M, K)
  BY <1>1, <1>4, <1>5, RepairSpread
<1>7. T \in Seq(C) /\ Spread(T, K) = Spread(B, K)
  BY <1>4, <1>6
<1>8. Only(T, Untouched) = Spread(T, K) /\ Only(B, Untouched) = Spread(B, K)
  BY <1>2, <1>7, AroundSpread
<1>. QED BY <1>7, <1>8

-----------------------------------------------------------------------------
(* What the invariant implies                                              *)

(* What no masked entity touches can be read in the masked text.           *)
LEMMA StillReads ==
  ASSUME NEW B, SentText(B), NEW ents, Listed(ents, B), NEW x, Fits(x, B),
         \A y \in ToMask(ents) : Apart(y, x), NEW M, M = B \/ M = ApplyMasks(B, ents)
  PROVE  Occurs(x.txt, M)
<1>. DEFINE C == ListCells(B, ents)
<1>1. B \in Seq(Range(B))
  BY DEF SentText
<1>2. Spans(ents, B) /\ B \in Seq(C) /\ \A y \in Range(ents) : Mask(y) \in C
  BY <1>1, ListedSpans
<1>. HIDE DEF C
<1>3. /\ InText(B, x) /\ x.s \in Nat /\ x.e \in Nat /\ 1 <= x.s /\ x.s < x.e /\ x.e <= Len(B) + 1
      /\ x.txt = SubSeq(B, x.s, x.e - 1) /\ Len(x.txt) = x.e - x.s
  BY <1>1, FitsIn
<1>4. CASE M = B
  <2>1. x.s \in DOMAIN B /\ x.s + Len(x.txt) - 1 = x.e - 1 /\ x.e - 1 <= Len(B)
    BY <1>2, <1>3
  <2>. QED BY <1>3, <1>4, <2>1 DEF Occurs
<1>5. CASE M = ApplyMasks(B, ents)
  <2>1. Occurs(SubSeq(B, x.s, x.e - 1), ApplyMasks(B, ents))
    BY <1>2, <1>3, MaskedReads
  <2>. QED BY <1>3, <1>5, <2>1
<1>. QED BY <1>4, <1>5

LEMMA RestMade ==
  ASSUME PipeInv, Done, out.ok
  PROVE  /\ SentText(BaseText) /\ AllMade(out.text, out.ents, out.map, BaseText) /\ Listed(out.ents, BaseText)
         /\ Made(out.ents, BaseText) = BaseText \/ Made(out.ents, BaseText) = ApplyMasks(BaseText, out.ents)
         /\ "masking" \notin raised => Made(out.ents, BaseText) = ApplyMasks(BaseText, out.ents)
         /\ out.text = Made(out.ents, BaseText) \/ out.text = Repair(Made(out.ents, BaseText))
<1>1. SentText(BaseText)
  BY BaseSent DEF PipeInv
<1>2. AllMade(out.text, out.ents, out.map, BaseText)
  BY DEF PipeInv, AtRest, Done
<1>. QED BY <1>1, <1>2, Zenon DEF AllMade, Made

LEMMA InvMasksStructured == PipeInv => StructuredValuesMasked
<1>. SUFFICES ASSUME PipeInv, Done, out.ok, ~Unsearched, "masking" \notin raised,
                     NEW c \in Counted(BaseText)
              PROVE  CountOf(c, out.text) < CountOf(c, BaseText)
  BY DEF StructuredValuesMasked, BaseText, Counted
<1>1. /\ SentText(BaseText) /\ AllMade(out.text, out.ents, out.map, BaseText) /\ Listed(out.ents, BaseText)
      /\ Made(out.ents, BaseText) = ApplyMasks(BaseText, out.ents)
      /\ out.text = Made(out.ents, BaseText) \/ out.text = Repair(Made(out.ents, BaseText))
  BY RestMade
<1>2. Sure(out.ents, BaseText, 700)
  BY <1>1 DEF AllMade
<1>3. c.kind \in {"pii", "cap"}
  BY <1>1, CountedCell
<1>. QED BY <1>1, <1>2, <1>3, MadeCounts

LEMMA InvSpansDisjoint == PipeInv => MaskSpansDisjoint
<1>. SUFFICES ASSUME PipeInv, NEW j \in DOMAIN ctx.ents, NEW k \in DOMAIN ctx.ents, j < k
              PROVE  ctx.ents[j].e <= ctx.ents[k].s \/ ctx.ents[k].e <= ctx.ents[j].s
  BY DEF MaskSpansDisjoint
<1>1. ctx.ents \in Seq(Range(ctx.ents)) /\ AllApart(ctx.ents)
  BY DEF PipeInv, Listed
<1>2. DOMAIN ctx.ents = 1..Len(ctx.ents) /\ Len(ctx.ents) \in Nat
  BY <1>1
<1>3. j \in 1..Len(ctx.ents) /\ k \in 1..Len(ctx.ents) /\ j # k
  BY <1>2
<1>. QED BY <1>1, <1>3 DEF AllApart, Apart

LEMMA InvReads == PipeInv => DroppedStaysReadable
<1>. SUFFICES ASSUME PipeInv, Done, out.ok, ~repaired, NEW x \in lost
              PROVE  \/ Occurs(x.txt, out.text)
                     \/ Revived(x) /\ \A k \in DOMAIN out.ents : \E y \in lost : y.txt = out.ents[k].txt
  BY DEF DroppedStaysReadable
<1>. DEFINE E == out.ents
            B == BaseText
<1>1. /\ SentText(B) /\ AllMade(out.text, E, out.map, B) /\ Listed(E, B)
      /\ Made(E, B) = B \/ Made(E, B) = ApplyMasks(B, E)
  BY RestMade
<1>2. out.text = Made(E, B) /\ LostStands(lost, E, B)
  BY <1>1 DEF AllMade
<1>. HIDE DEF E, B
<1>3. /\ Fits(x, B)
      /\ \/ \A k \in 1..Len(E) : Apart(E[k], x)
         \/ /\ \E k \in 1..Len(E) : E[k].s = x.s /\ E[k].e = x.e
            /\ \A k \in 1..Len(E) : \E y \in lost : y.txt = E[k].txt
  BY <1>2 DEF LostStands
<1>4. E \in Seq(Range(E)) /\ DOMAIN E = 1..Len(E) /\ Range(E) = {E[k] : k \in 1..Len(E)}
  BY <1>1, RangeFinite DEF Listed
<1>5. \A y \in ToMask(E) : \E k \in 1..Len(E) : y = E[k]
  BY <1>4 DEF ToMask
<1>6. ASSUME \A y \in ToMask(E) : Apart(y, x) PROVE Occurs(x.txt, out.text)
  BY <1>1, <1>2, <1>3, <1>6, StillReads
<1>7. CASE \A k \in 1..Len(E) : Apart(E[k], x)
  BY <1>5, <1>6, <1>7
<1>8. CASE /\ \E k \in 1..Len(E) : E[k].s = x.s /\ E[k].e = x.e
           /\ \A k \in 1..Len(E) : \E y \in lost : y.txt = E[k].txt
  <2>1. PICK k \in 1..Len(E) : E[k].s = x.s /\ E[k].e = x.e
    BY <1>8
  <2>2. CASE Maskable(E[k])
    <3>1. Revived(x)
      BY <1>4, <2>1, <2>2 DEF Revived, E
    <3>. QED BY <1>4, <1>8, <3>1 DEF E
  <2>3. CASE ~Maskable(E[k])
    <3>1. ASSUME NEW y \in ToMask(E) PROVE Apart(y, x)
      <4>1. y \in Range(E) /\ E[k] \in Range(E) /\ y # E[k]
        BY <1>4, <2>3 DEF ToMask
      <4>2. Apart(y, E[k])
        <5>1. B \in Seq(Range(B))
          BY <1>1 DEF SentText
        <5>. QED BY <1>1, <4>1, <5>1, Distinct
      <4>. QED BY <2>1, <4>2 DEF Apart
    <3>. QED BY <1>6, <3>1
  <2>. QED BY <2>2, <2>3
<1>. QED BY <1>3, <1>7, <1>8

LEMMA InvUnmasks == PipeInv => UnmaskRestores
<1>. DEFINE E == out.ents
            masks == {k \in DOMAIN E : Maskable(E[k])}
<1>. SUFFICES ASSUME PipeInv, Done, out.ok, "masking" \notin answered, ~repaired,
                     ~ \E j, k \in masks : j # k /\ Mask(E[j]) = Mask(E[k])
              PROVE  Unmask(out.text, out.map) = BaseText
  BY Zenon DEF UnmaskRestores, BaseText
<1>1. "masking" \notin raised
  BY DEF PipeInv, PipeTyped
<1>2. /\ SentText(BaseText) /\ AllMade(out.text, E, out.map, BaseText) /\ Listed(E, BaseText)
      /\ Made(E, BaseText) = ApplyMasks(BaseText, E)
  BY <1>1, RestMade
<1>3. out.text = ApplyMasks(BaseText, E) /\ out.map = MaskingMap(E)
  BY <1>2 DEF AllMade
<1>. HIDE DEF E
<1>4. E \in Seq(Range(E)) /\ DOMAIN E = 1..Len(E) /\ Range(E) = {E[k] : k \in 1..Len(E)}
  BY <1>2, RangeFinite DEF Listed
<1>5. ASSUME NEW x \in ToMask(E), NEW y \in ToMask(E), Mask(x) = Mask(y) PROVE x = y
  <2>1. x \in Range(E) /\ y \in Range(E) /\ Maskable(x) /\ Maskable(y)
    BY DEF ToMask
  <2>2. PICK j \in 1..Len(E), k \in 1..Len(E) : x = E[j] /\ y = E[k]
    BY <1>4, <2>1
  <2>3. j \in masks /\ k \in masks
    BY <1>4, <2>1, <2>2
  <2>. QED BY <1>5, <2>2, <2>3
<1>6. Unmask(ApplyMasks(BaseText, E), MaskingMap(E)) = BaseText
  BY <1>2, <1>5, Unmasked
<1>. QED BY <1>3, <1>6

LEMMA InvTyped == PipeInv => TypeOK
<1>. SUFFICES ASSUME PipeInv PROVE TypeOK
  OBVIOUS
<1>1. PipeTyped /\ Listed(ctx.ents, BaseText)
  BY DEF PipeInv
<1>2. ASSUME NEW k \in DOMAIN ctx.ents
      PROVE  /\ ctx.ents[k].conf \in 0..1000
             /\ ctx.ents[k].type \in {c.type : c \in UNION {Range(T) : T \in Inputs}}
  <2>1. k \in 1..Len(ctx.ents)
    BY <1>1 DEF Listed
  <2>2. Fits(ctx.ents[k], BaseText)
    BY <1>1, <2>1 DEF Listed
  <2>3. PICK x : x = ctx.ents[k]
    OBVIOUS
  <2>4. x.s \in 1..Len(BaseText) /\ x.type = BaseText[x.s].type /\ x.conf \in 0..1000
    BY <2>2, <2>3, Zenon DEF Fits
  <2>5. SentText(call.text) /\ Len(BaseText) = Len(call.text) /\ BaseText[x.s].type = call.text[x.s].type
    BY <1>1, <2>4, BaseSent
  <2>6. call.text \in Inputs
    <3>1. call.text \in Inputs \cup {<<>>}
      BY <1>1 DEF PipeTyped
    <3>2. call.text # <<>>
      BY <2>4, <2>5
    <3>. QED BY <3>1, <3>2
  <2>7. call.text[x.s] \in Range(call.text)
    BY <2>4, <2>5, RangeFinite DEF SentText
  <2>8. PICK c : c = call.text[x.s]
    OBVIOUS
  <2>9. c \in UNION {Range(T) : T \in Inputs}
    BY <2>6, <2>7, <2>8
  <2>10. x.type = c.type
    BY <2>4, <2>5, <2>8
  <2>11. x.type \in {d.type : d \in UNION {Range(T) : T \in Inputs}}
    BY <2>9, <2>10
  <2>. QED BY <2>3, <2>4, <2>11
<1>3. raised \subseteq Stages /\ answered \subseteq Stages
  BY <1>1 DEF PipeTyped
<1>. QED BY <1>1, <1>2, <1>3 DEF TypeOK, PipeTyped

-----------------------------------------------------------------------------
(* The steps                                                               *)

(* The order of the stages.                                                *)
LEMMA AfterIs ==
  /\ After("normalization") = "detection" /\ After("detection") = "scoring" /\ After("scoring") = "context"
  /\ After("context") = "masking" /\ After("masking") = "integrity" /\ After("integrity") = "verification"
  /\ After("verification") = "return"
  /\ Stages = {"normalization", "detection", "scoring", "context", "masking", "integrity", "verification"}
<1>1. /\ DOMAIN Order = 1..7 /\ Len(Order) = 7
      /\ Order[1] = "normalization" /\ Order[2] = "detection" /\ Order[3] = "scoring" /\ Order[4] = "context"
      /\ Order[5] = "masking" /\ Order[6] = "integrity" /\ Order[7] = "verification"
  BY DEF Order
<1>2. \A j, k \in 1..7 : Order[j] = Order[k] => j = k
  BY <1>1
<1>3. ASSUME NEW k \in 1..7 PROVE After(Order[k]) = IF k = 7 THEN "return" ELSE Order[k + 1]
  <2>. DEFINE i == CHOOSE j \in DOMAIN Order : Order[j] = Order[k]
  <2>1. i \in DOMAIN Order /\ Order[i] = Order[k]
    BY <1>1
  <2>2. i = k
    BY <1>1, <1>2, <2>1
  <2>3. After(Order[k]) = IF i = Len(Order) THEN "return" ELSE Order[i + 1]
    BY DEF After
  <2>. HIDE DEF i
  <2>. QED BY <1>1, <2>2, <2>3
<1>4. Stages = {Order[k] : k \in 1..7}
  BY <1>1 DEF Stages, Range
<1>5. 1 \in 1..7 /\ 2 \in 1..7 /\ 3 \in 1..7 /\ 4 \in 1..7 /\ 5 \in 1..7 /\ 6 \in 1..7 /\ 7 \in 1..7
  OBVIOUS
<1>6. /\ After(Order[1]) = Order[2] /\ After(Order[2]) = Order[3] /\ After(Order[3]) = Order[4]
      /\ After(Order[4]) = Order[5] /\ After(Order[5]) = Order[6] /\ After(Order[6]) = Order[7]
      /\ After(Order[7]) = "return"
  BY <1>3, <1>5
<1>7. \A k : k \in 1..7 <=> k \in {1, 2, 3, 4, 5, 6, 7}
  OBVIOUS
<1>. QED BY <1>1, <1>4, <1>6, <1>7

LEMMA NothingListed ==
  /\ \A B : Listed(<<>>, B) /\ LostStands({}, <<>>, B)
  /\ \A ents, B : LostStands({}, ents, B)
<1>1. <<>> \in Seq(Range(<<>>)) /\ Len(<<>>) = 0 /\ 1..0 = {}
  OBVIOUS
<1>. QED BY <1>1 DEF Listed, AllApart, LostStands

LEMMA InitInv == Init => PipeInv
<1>. SUFFICES ASSUME Init PROVE PipeInv
  OBVIOUS
<1>1. PipeTyped
  <2>1. calls \in 0..MaxCalls
    BY BoundsAssumption DEF Init
  <2>2. ctx = [text |-> ctx.text, ents |-> ctx.ents, map |-> ctx.map]
          /\ call = [text |-> call.text, said |-> call.said]
    BY DEF Init
  <2>3. out.ok \in BOOLEAN /\ call.text = <<>> /\ call.said = {}
    BY DEF Init, NoResult
  <2>. QED BY <2>1, <2>2, <2>3 DEF Init, PipeTyped
<1>2. Listed(ctx.ents, BaseText)
  BY NothingListed DEF Init
<1>. QED BY <1>1, <1>2 DEF Init, PipeInv, Begun, AtText, AtScoring, AtMasking, AtEnd, AtRest, Unsearched

LEMMA ProcessInv == PipeInv
  /\ (\E T \in Inputs, said \in Sayings, m \in Overrides : Process(T, said, m)) => PipeInv'
<1>. SUFFICES ASSUME PipeInv, NEW T \in Inputs, NEW said \in Sayings, NEW m \in Overrides, Process(T, said, m)
              PROVE  PipeInv'
  OBVIOUS
<1>0. stage' = "normalization"
  BY DEF Process, Order
<1>1. PipeTyped'
  <2>0. PipeTyped
    BY DEF PipeInv
  <2>1. calls' \in 0..MaxCalls
    BY <2>0, BoundsAssumption DEF Process, PipeTyped
  <2>2. /\ ctx' = [text |-> T, ents |-> <<>>, map |-> <<>>] /\ call' = [text |-> T, said |-> said]
        /\ mode' \in {"hybrid"} \cup Overrides
    BY <2>0 DEF Process, PipeTyped
  <2>3. /\ ctx' = [text |-> ctx'.text, ents |-> ctx'.ents, map |-> ctx'.map]
        /\ call' = [text |-> call'.text, said |-> call'.said] /\ call'.text = T /\ call'.said = said
    BY <2>2
  <2>4. /\ raised' = {} /\ answered' = {} /\ out' = out /\ repaired' = FALSE /\ blind' = FALSE /\ stage' \in Stages
    BY <1>0, AfterIs DEF Process
  <2>. QED BY <2>0, <2>1, <2>2, <2>3, <2>4 DEF PipeTyped
<1>2. Listed(ctx.ents, BaseText)'
  BY NothingListed DEF Process
<1>. QED BY <1>0, <1>1, <1>2 DEF Process, PipeInv, Begun, AtText, AtScoring, AtMasking, AtEnd, AtRest, Unsearched

LEMMA RejectInv == PipeInv /\ RejectEmpty => PipeInv'
<1>. SUFFICES ASSUME PipeInv, RejectEmpty PROVE PipeInv'
  OBVIOUS
<1>1. PipeTyped'
  <2>0. PipeTyped
    BY DEF PipeInv
  <2>1. calls' \in 0..MaxCalls
    BY <2>0, BoundsAssumption DEF RejectEmpty, PipeTyped
  <2>2. /\ ctx' = [text |-> <<>>, ents |-> <<>>, map |-> <<>>] /\ call' = [text |-> <<>>, said |-> {}]
        /\ out' = [ok |-> FALSE, text |-> <<>>, ents |-> <<>>, map |-> <<>>]
    BY DEF RejectEmpty, NoResult
  <2>3. /\ ctx' = [text |-> ctx'.text, ents |-> ctx'.ents, map |-> ctx'.map]
        /\ call' = [text |-> call'.text, said |-> call'.said] /\ call'.text = <<>> /\ call'.said = {}
        /\ out'.ok = FALSE
    BY <2>2
  <2>4. /\ raised' = {} /\ answered' = {} /\ repaired' = FALSE /\ blind' = FALSE /\ stage' = stage /\ mode' = mode
             /\ stage = "idle"
    BY DEF RejectEmpty
  <2>. QED BY <2>0, <2>1, <2>3, <2>4 DEF PipeTyped
<1>2. Listed(ctx.ents, BaseText)'
  BY NothingListed DEF RejectEmpty
<1>. QED BY <1>1, <1>2 DEF RejectEmpty, PipeInv, Begun, AtText, AtScoring, AtMasking, AtEnd, AtRest, NoResult, Unsearched

LEMMA NormalizeInv == PipeInv /\ NormalizeText => PipeInv'
<1>. SUFFICES ASSUME PipeInv, NormalizeText PROVE PipeInv'
  OBVIOUS
<1>0. stage = "normalization" /\ stage' = "detection"
        /\ UNCHANGED <<call, mode, out, raised, calls, answered, blind, lost, repaired>>
  BY AfterIs DEF NormalizeText, Advance
<1>1. /\ PipeTyped /\ Begun /\ AtText
  BY DEF PipeInv
<1>2. ctx' = [text |-> Normalize(call.text), ents |-> <<>>, map |-> ctx.map]
  <2>1. ctx = [text |-> call.text, ents |-> <<>>, map |-> ctx.map]
    BY <1>0, <1>1 DEF PipeTyped, Begun, AtText
  <2>2. ctx' = [ctx EXCEPT !.text = Normalize(@)]
    BY DEF NormalizeText
  <2>. QED BY <2>1, <2>2
<1>3. PipeTyped'
  BY <1>0, <1>1, <1>2, AfterIs DEF PipeTyped
<1>4. BaseText' = Normalize(call.text)
  BY <1>0, <1>1 DEF BaseText, AtText
<1>5. Listed(ctx.ents, BaseText)'
  BY <1>2, NothingListed
<1>6. Begun' /\ AtText' /\ AtScoring' /\ AtMasking' /\ AtEnd' /\ AtRest'
  BY <1>0, <1>1, <1>2, <1>4 DEF Begun, AtText, AtScoring, AtMasking, AtEnd, AtRest, Unsearched
<1>. QED BY <1>3, <1>5, <1>6 DEF PipeInv

(* Where the stages after detection find a list of entities, its text is   *)
(* the base and normalisation is over.                                     *)
LEMMA InvParts ==
  ASSUME PipeInv
  PROVE  /\ PipeTyped /\ SentText(BaseText) /\ Listed(ctx.ents, BaseText)
         /\ ctx = [text |-> ctx.text, ents |-> ctx.ents, map |-> ctx.map]
         /\ Begun /\ AtText /\ AtScoring /\ AtMasking /\ AtEnd /\ AtRest
<1>1. PipeTyped
  BY DEF PipeInv
<1>2. ctx = [text |-> ctx.text, ents |-> ctx.ents, map |-> ctx.map]
  BY <1>1 DEF PipeTyped
<1>. QED BY <1>1, <1>2, BaseSent DEF PipeInv

(* A step that goes on to the next stage with other entities.              *)
Goes(next, ents) ==
  /\ stage' = next /\ next \in Stages
  /\ ctx' = [text |-> ctx.text, ents |-> ents, map |-> ctx.map]
  /\ UNCHANGED <<call, mode, out, calls>>
  /\ raised' \subseteq answered' /\ answered' \subseteq Stages
  /\ ("normalization" \in raised' <=> "normalization" \in raised) /\ repaired' \in BOOLEAN /\ blind' \in BOOLEAN

LEMMA GoesTyped ==
  ASSUME PipeInv, NEW next, NEW ents, Goes(next, ents), stage # "idle"
  PROVE  PipeTyped' /\ BaseText' = BaseText /\ ctx'.ents = ents /\ ctx'.text = ctx.text
<1>1. PipeTyped
  BY DEF PipeInv
<1>2. ctx'.text = ctx.text /\ ctx'.ents = ents /\ ctx'.map = ctx.map
  BY DEF Goes
<1>3. ctx' = [text |-> ctx'.text, ents |-> ctx'.ents, map |-> ctx'.map]
  BY <1>2 DEF Goes
<1>4. /\ stage' \in Stages /\ call' = call /\ mode' = mode /\ out' = out /\ calls' = calls
      /\ raised' \subseteq answered' /\ answered' \subseteq Stages /\ repaired' \in BOOLEAN /\ blind' \in BOOLEAN
  BY DEF Goes
<1>5. PipeTyped'
  BY <1>1, <1>3, <1>4 DEF PipeTyped
<1>6. BaseText' = BaseText
  BY DEF Goes, BaseText
<1>. QED BY <1>2, <1>5, <1>6

LEMMA ScoreInv == PipeInv /\ ScoreEntities => PipeInv'
<1>. SUFFICES ASSUME PipeInv, ScoreEntities PROVE PipeInv'
  OBVIOUS
<1>1. stage = "scoring" /\ stage' = "context"
        /\ UNCHANGED <<call, mode, out, raised, calls, answered, blind, repaired>>
  BY AfterIs DEF ScoreEntities, Advance
<1>2. /\ PipeTyped /\ SentText(BaseText) /\ Listed(ctx.ents, BaseText) /\ AtText /\ AtScoring
      /\ ctx = [text |-> ctx.text, ents |-> ctx.ents, map |-> ctx.map]
  BY InvParts
<1>3. PICK ents : ents = Keep(ByScore(Only(Scored, PassesFloor)), Scored)
  OBVIOUS
<1>4. ctx' = [text |-> ctx.text, ents |-> ents, map |-> ctx.map]
  <2>1. ctx' = [ctx EXCEPT !.ents = ents]
    BY <1>3 DEF ScoreEntities
  <2>. QED BY <1>2, <2>1
<1>5. Goes("context", ents)
  <2>1. raised \subseteq answered /\ answered \subseteq Stages /\ repaired \in BOOLEAN /\ blind \in BOOLEAN
    BY <1>2 DEF PipeTyped
  <2>. QED BY <1>1, <1>4, <2>1, AfterIs DEF Goes
<1>6. PipeTyped' /\ BaseText' = BaseText /\ ctx'.ents = ents /\ ctx'.text = ctx.text
  BY <1>1, <1>5, GoesTyped
<1>7. Listed(Scored, BaseText) /\ (Sure(ctx.ents, BaseText, 900) => Sure(Scored, BaseText, 700))
  <2>1. Rescored(ctx.ents, Scored) /\ (Sure(ctx.ents, BaseText, 900) => Sure(Scored, BaseText, 700))
    BY <1>2, ScoreRescored DEF Scored
  <2>2. BaseText \in Seq(Range(BaseText))
    BY <1>2 DEF SentText
  <2>. QED BY <1>2, <2>1, <2>2, RescoredListed
<1>8. lost' = {x \in Range(Scored) : ~PassesFloor(x)}
  BY DEF ScoreEntities
<1>9. Listed(ents, BaseText) /\ LostStands(lost', ents, BaseText)
        /\ (Sure(Scored, BaseText, 700) => Sure(ents, BaseText, 700))
  <2>1. PICK L : L = lost'
    OBVIOUS
  <2>2. PICK S : S = Scored
    OBVIOUS
  <2>3. L = {x \in Range(S) : ~PassesFloor(x)} /\ ents = Keep(ByScore(Only(S, PassesFloor)), S)
          /\ Listed(S, BaseText)
    BY <1>3, <1>7, <1>8, <2>1, <2>2, Zenon
  <2>4. KeptWell(L, S, ents, BaseText)
    BY <1>2, <2>3, FloorKept
  <2>. QED BY <2>1, <2>2, <2>4 DEF KeptWell
<1>10. Unsearched' \/ Sure(ents, BaseText, 700)
  BY <1>1, <1>2, <1>7, <1>9 DEF AtScoring, Unsearched
<1>11. AtText'
  BY <1>1, <1>2, <1>6 DEF AtText
<1>12. AtMasking'
  BY <1>1, <1>6, <1>9, <1>10 DEF AtMasking, Unsearched
<1>13. Begun' /\ AtScoring' /\ AtEnd' /\ AtRest'
  BY <1>1 DEF Begun, AtScoring, AtEnd, AtRest, Unsearched
<1>14. Listed(ctx.ents, BaseText)'
  BY <1>6, <1>9
<1>. QED BY <1>6, <1>11, <1>12, <1>13, <1>14 DEF PipeInv

LEMMA ResolveInv == PipeInv /\ ResolveEntities => PipeInv'
<1>. SUFFICES ASSUME PipeInv, ResolveEntities PROVE PipeInv'
  OBVIOUS
<1>1. stage = "context" /\ stage' = "masking"
        /\ UNCHANGED <<call, mode, out, raised, calls, answered, blind, lost, repaired>>
  BY AfterIs DEF ResolveEntities, Advance
<1>2. /\ PipeTyped /\ SentText(BaseText) /\ Listed(ctx.ents, BaseText) /\ AtText /\ AtMasking
      /\ ctx = [text |-> ctx.text, ents |-> ctx.ents, map |-> ctx.map]
  BY InvParts
<1>3. PICK ents : ents = Keep(Only(Resolved, ValidInContext), Resolved)
  OBVIOUS
<1>4. ctx' = [text |-> ctx.text, ents |-> ents, map |-> ctx.map]
  <2>1. ctx' = [ctx EXCEPT !.ents = ents]
    BY <1>3 DEF ResolveEntities
  <2>. QED BY <1>2, <2>1
<1>5. Goes("masking", ents)
  <2>1. raised \subseteq answered /\ answered \subseteq Stages /\ repaired \in BOOLEAN /\ blind \in BOOLEAN
    BY <1>2 DEF PipeTyped
  <2>. QED BY <1>1, <1>4, <2>1, AfterIs DEF Goes
<1>6. PipeTyped' /\ BaseText' = BaseText /\ ctx'.ents = ents /\ ctx'.text = ctx.text
  BY <1>1, <1>5, GoesTyped
<1>7. /\ Listed(Resolved, BaseText) /\ LostStands(lost, Resolved, BaseText)
      /\ Sure(ctx.ents, BaseText, 700) => Sure(Resolved, BaseText, 700)
  <2>1. Rescored(ctx.ents, Resolved) /\ (Sure(ctx.ents, BaseText, 700) => Sure(Resolved, BaseText, 700))
    BY <1>2, ResolvedRescored DEF Resolved
  <2>2. BaseText \in Seq(Range(BaseText)) /\ LostStands(lost, ctx.ents, BaseText)
    BY <1>1, <1>2 DEF SentText, AtMasking, Unsearched
  <2>. QED BY <1>2, <2>1, <2>2, RescoredListed, StandsRescored
<1>8. /\ Listed(ents, BaseText) /\ LostStands(lost, ents, BaseText)
           /\ (Sure(Resolved, BaseText, 700) => Sure(ents, BaseText, 700))
  BY <1>2, <1>3, <1>7, ValidKept DEF KeptWell
<1>9. Unsearched' \/ Sure(ents, BaseText, 700)
  BY <1>1, <1>2, <1>7, <1>8 DEF AtMasking, Unsearched
<1>10. AtText'
  BY <1>1, <1>2, <1>6 DEF AtText
<1>11. AtMasking'
  BY <1>1, <1>6, <1>8, <1>9 DEF AtMasking, Unsearched
<1>12. Begun' /\ AtScoring' /\ AtEnd' /\ AtRest'
  BY <1>1 DEF Begun, AtScoring, AtEnd, AtRest, Unsearched
<1>13. Listed(ctx.ents, BaseText)'
  BY <1>6, <1>8
<1>. QED BY <1>6, <1>10, <1>11, <1>12, <1>13 DEF PipeInv

LEMMA StaysTyped ==
  ASSUME PipeInv, stage # "idle", stage' \in Stages \cup {"idle", "return"},
         NEW T, NEW ents, NEW map, ctx' = [text |-> T, ents |-> ents, map |-> map],
         call' = call, mode' = mode, calls' = calls, raised' \subseteq answered', answered' \subseteq Stages,
         out'.ok \in BOOLEAN, repaired' \in BOOLEAN, blind' \in BOOLEAN
  PROVE  PipeTyped' /\ ctx'.ents = ents /\ ctx'.text = T /\ ctx'.map = map
<1>1. PipeTyped
  BY DEF PipeInv
<1>2. ctx'.text = T /\ ctx'.ents = ents /\ ctx'.map = map
  OBVIOUS
<1>3. ctx' = [text |-> ctx'.text, ents |-> ctx'.ents, map |-> ctx'.map]
  BY <1>2
<1>4. PipeTyped'
  BY <1>1, <1>3 DEF PipeTyped
<1>. QED BY <1>2, <1>4

LEMMA MaskInv == PipeInv /\ MaskEntities => PipeInv'
<1>. SUFFICES ASSUME PipeInv, MaskEntities PROVE PipeInv'
  OBVIOUS
<1>. DEFINE B == BaseText
            E == ctx.ents
<1>1. /\ stage = "masking" /\ stage' = "integrity"
      /\ UNCHANGED <<call, mode, out, raised, calls, blind, lost, repaired>>
  BY AfterIs DEF MaskEntities, Advance
<1>2. /\ PipeTyped /\ SentText(B) /\ Listed(E, B) /\ AtText /\ AtMasking
      /\ ctx = [text |-> ctx.text, ents |-> E, map |-> ctx.map]
  BY InvParts
<1>3. ctx.text = B /\ "masking" \notin raised /\ ~repaired
  BY <1>1, <1>2 DEF AtText
<1>4. LostStands(lost, E, B) /\ (Unsearched \/ Sure(E, B, 700))
  BY <1>1, <1>2 DEF AtMasking, Unsearched
<1>5. PICK T, q, map : /\ T = ApplyMasks(B, E) /\ q = RightToLeft(E)
                       /\ map = IF MaskingValid(ApplyMasks(B, E), E) THEN MaskingMap(E) ELSE FallbackMap(E)
  OBVIOUS
<1>6. ctx' = [text |-> T, ents |-> q, map |-> map]
  <2>1. ctx' = [ctx EXCEPT !.text = T, !.ents = RightToLeft(@), !.map = map]
    BY <1>3, <1>5, Zenon DEF MaskEntities, E
  <2>. QED BY <1>2, <1>5, <2>1
<1>7. answered' = answered \/ answered' = answered \cup {"masking"}
  BY DEF MaskEntities
<1>8. "masking" \notin answered' => map = MaskingMap(E)
  <2>1. answered' = IF MaskingValid(ApplyMasks(B, E), E) THEN answered ELSE answered \cup {"masking"}
    BY <1>3 DEF MaskEntities
  <2>. QED BY <1>5, <2>1
<1>9. PipeTyped' /\ ctx'.ents = q /\ ctx'.text = T /\ ctx'.map = map
  <2>1. raised \subseteq answered /\ answered \subseteq Stages /\ repaired \in BOOLEAN /\ blind \in BOOLEAN /\ out.ok \in BOOLEAN
    BY <1>2 DEF PipeTyped
  <2>2. raised' \subseteq answered' /\ answered' \subseteq Stages /\ stage' \in Stages \cup {"idle", "return"}
    BY <1>1, <1>7, <2>1, AfterIs
  <2>3. stage # "idle" /\ call' = call /\ mode' = mode /\ calls' = calls /\ out'.ok \in BOOLEAN
          /\ repaired' \in BOOLEAN /\ blind' \in BOOLEAN
    BY <1>1, <2>1
  <2>. HIDE DEF B, E
  <2>. QED BY <1>6, <2>2, <2>3, StaysTyped
<1>10. BaseText' = B
  BY <1>1 DEF BaseText
<1>. HIDE DEF B, E
<1>11. Listed(q, B) /\ Range(q) = Range(E) /\ ApplyMasks(B, q) = T /\ MaskingMap(q) = MaskingMap(E)
  BY <1>2, <1>5, MaskedAgain
<1>12. q \in Seq(Range(q)) /\ Range(q) \subseteq Range(E) /\ Range(q) = Range(E) \cap Range(E)
  BY <1>11 DEF Listed
<1>13. LostStands(lost', q, B)
  BY <1>1, <1>2, <1>4, <1>12, StandsAnew
<1>14. Unsearched' \/ Sure(q, B, 700)
  <2>1. ASSUME Sure(E, B, 700) PROVE Sure(q, B, 700)
    BY <1>2, <1>12, <2>1, SureAnew
  <2>2. Unsearched' = Unsearched
    BY <1>1 DEF Unsearched
  <2>. QED BY <1>4, <2>1, <2>2
<1>15. AtEnd'
  <2>1. AllMade(T, q, map, B)'
    BY <1>1, <1>3, <1>8, <1>11, <1>13, <1>14, <1>10 DEF AllMade, Made, B, Unsearched
  <2>. QED BY <1>9, <1>10, <2>1 DEF AtEnd, B
<1>16. Begun' /\ AtText' /\ AtScoring' /\ AtMasking' /\ AtRest'
  BY <1>1, <1>3 DEF Begun, AtText, AtScoring, AtMasking, AtRest, Unsearched
<1>17. Listed(ctx.ents, BaseText)'
  BY <1>9, <1>10, <1>11 DEF B
<1>. QED BY <1>9, <1>15, <1>16, <1>17 DEF PipeInv

(* What is made stays made while entities, map, faults and losses stay.    *)
MadeStays(T, rep) ==
  /\ Listed(ctx.ents, BaseText) /\ LostStands(lost, ctx.ents, BaseText)
  /\ Unsearched \/ Sure(ctx.ents, BaseText, 700)
  /\ T = IF rep THEN Repair(Made(ctx.ents, BaseText)) ELSE Made(ctx.ents, BaseText)
  /\ "masking" \notin answered => ctx.map = MaskingMap(ctx.ents)

LEMMA MadeNext ==
  ASSUME NEW T, MadeStays(T, repaired'), UNCHANGED <<call, raised, blind, lost>>, answered \subseteq answered',
         ctx'.text = T, ctx'.ents = ctx.ents, ctx'.map = ctx.map
  PROVE  AllMade(ctx.text, ctx.ents, ctx.map, BaseText)'
<1>1. BaseText' = BaseText
  BY DEF BaseText
<1>. QED BY <1>1 DEF MadeStays, AllMade, Made, Unsearched

LEMMA IntegrityInv == PipeInv /\ CheckIntegrity => PipeInv'
<1>. SUFFICES ASSUME PipeInv, CheckIntegrity PROVE PipeInv'
  OBVIOUS
<1>1. /\ stage = "integrity" /\ UNCHANGED <<call, mode, raised, calls, blind, lost>>
      /\ \/ stage' = "verification" /\ out' = out
         \/ stage' = "idle" /\ out'.ok = FALSE
  BY AfterIs DEF CheckIntegrity, Advance, Fail
<1>2. /\ PipeTyped /\ SentText(BaseText) /\ Listed(ctx.ents, BaseText) /\ AtText /\ AtEnd
      /\ ctx = [text |-> ctx.text, ents |-> ctx.ents, map |-> ctx.map]
  BY InvParts
<1>3. AllMade(ctx.text, ctx.ents, ctx.map, BaseText) /\ ~repaired
  BY <1>1, <1>2 DEF AtText, AtEnd
<1>4. PICK T : /\ ctx' = [ctx EXCEPT !.text = T] /\ repaired' = (T # ctx.text)
               /\ T = ctx.text \/ T = Repair(ctx.text)
  BY DEF CheckIntegrity
<1>5. ctx' = [text |-> T, ents |-> ctx.ents, map |-> ctx.map]
  BY <1>2, <1>4
<1>6. answered' = answered \/ answered' = answered \cup {"integrity"}
  BY DEF CheckIntegrity
<1>7. PipeTyped' /\ ctx'.ents = ctx.ents /\ ctx'.text = T /\ ctx'.map = ctx.map
  <2>1. raised \subseteq answered /\ answered \subseteq Stages /\ out.ok \in BOOLEAN /\ blind \in BOOLEAN
    BY <1>2 DEF PipeTyped
  <2>2. raised' \subseteq answered' /\ answered' \subseteq Stages /\ stage' \in Stages \cup {"idle", "return"}
    BY <1>1, <1>6, <2>1, AfterIs
  <2>3. stage # "idle" /\ call' = call /\ mode' = mode /\ calls' = calls /\ out'.ok \in BOOLEAN
          /\ repaired' \in BOOLEAN /\ blind' \in BOOLEAN
    BY <1>1, <1>4, <2>1
  <2>. QED BY <1>5, <2>2, <2>3, StaysTyped
<1>8. MadeStays(T, repaired')
  BY <1>3, <1>4 DEF MadeStays, AllMade, Unsearched
<1>9. AllMade(ctx.text, ctx.ents, ctx.map, BaseText)'
  <2>1. answered \subseteq answered'
    BY <1>6
  <2>. QED BY <1>1, <1>7, <1>8, <2>1, MadeNext
<1>10. BaseText' = BaseText
  BY <1>1 DEF BaseText
<1>11. Begun' /\ AtText' /\ AtScoring' /\ AtMasking' /\ AtEnd' /\ AtRest'
  BY <1>1, <1>9 DEF Begun, AtText, AtScoring, AtMasking, AtEnd, AtRest, Unsearched
<1>12. Listed(ctx.ents, BaseText)'
  BY <1>2, <1>7, <1>10
<1>. QED BY <1>7, <1>11, <1>12 DEF PipeInv

LEMMA VerifyInv == PipeInv /\ Verify => PipeInv'
<1>. SUFFICES ASSUME PipeInv, Verify PROVE PipeInv'
  OBVIOUS
<1>1. /\ stage = "verification" /\ UNCHANGED <<call, ctx, mode, raised, calls, blind, lost, repaired>>
      /\ \/ stage' = "return" /\ out' = out
         \/ stage' = "idle" /\ out'.ok = FALSE
  BY AfterIs DEF Verify, Advance, Fail
<1>2. /\ PipeTyped /\ SentText(BaseText) /\ Listed(ctx.ents, BaseText) /\ AtEnd
      /\ ctx = [text |-> ctx.text, ents |-> ctx.ents, map |-> ctx.map]
  BY InvParts
<1>3. AllMade(ctx.text, ctx.ents, ctx.map, BaseText)
  BY <1>1, <1>2 DEF AtEnd
<1>6. answered' = answered \/ answered' = answered \cup {"verification"}
  BY DEF Verify
<1>7. PipeTyped'
  <2>1. raised \subseteq answered /\ answered \subseteq Stages /\ out.ok \in BOOLEAN /\ repaired \in BOOLEAN /\ blind \in BOOLEAN
    BY <1>2 DEF PipeTyped
  <2>2. raised' \subseteq answered' /\ answered' \subseteq Stages /\ stage' \in Stages \cup {"idle", "return"}
    BY <1>1, <1>6, <2>1, AfterIs
  <2>3. stage # "idle" /\ call' = call /\ mode' = mode /\ calls' = calls /\ out'.ok \in BOOLEAN
          /\ repaired' \in BOOLEAN /\ blind' \in BOOLEAN
    BY <1>1, <2>1
  <2>4. ctx' = [text |-> ctx.text, ents |-> ctx.ents, map |-> ctx.map]
    BY <1>1, <1>2
  <2>. QED BY <2>2, <2>3, <2>4, StaysTyped
<1>8. MadeStays(ctx.text, repaired')
  BY <1>1, <1>3 DEF MadeStays, AllMade, Unsearched
<1>9. AllMade(ctx.text, ctx.ents, ctx.map, BaseText)'
  <2>1. answered \subseteq answered' /\ ctx' = ctx
    BY <1>1, <1>6
  <2>. QED BY <1>1, <1>8, <2>1, MadeNext
<1>10. BaseText' = BaseText
  BY <1>1 DEF BaseText
<1>11. Begun' /\ AtText' /\ AtScoring' /\ AtMasking' /\ AtEnd' /\ AtRest'
  BY <1>1, <1>9 DEF Begun, AtText, AtScoring, AtMasking, AtEnd, AtRest, Unsearched
<1>12. Listed(ctx.ents, BaseText)'
  BY <1>1, <1>2, <1>10
<1>. QED BY <1>7, <1>11, <1>12 DEF PipeInv

LEMMA FinishInv == PipeInv /\ Finish => PipeInv'
<1>. SUFFICES ASSUME PipeInv, Finish PROVE PipeInv'
  OBVIOUS
<1>1. /\ stage = "return" /\ stage' = "idle"
      /\ UNCHANGED <<call, ctx, mode, raised, answered, calls, blind, lost, repaired>>
      /\ out' = [ok |-> TRUE, text |-> ctx.text, ents |-> ctx.ents, map |-> ctx.map]
  BY DEF Finish
<1>2. /\ PipeTyped /\ SentText(BaseText) /\ Listed(ctx.ents, BaseText) /\ AtEnd
  BY InvParts
<1>3. AllMade(ctx.text, ctx.ents, ctx.map, BaseText)
  BY <1>1, <1>2 DEF AtEnd
<1>4. out'.ok = TRUE /\ out'.text = ctx.text /\ out'.ents = ctx.ents /\ out'.map = ctx.map
  BY <1>1
<1>5. BaseText' = BaseText
  BY <1>1 DEF BaseText
<1>6. AllMade(out.text, out.ents, out.map, BaseText)'
  BY <1>1, <1>3, <1>4, <1>5 DEF AllMade, Made, Unsearched
<1>7. PipeTyped'
  BY <1>1, <1>2, <1>4 DEF PipeTyped
<1>8. Begun' /\ AtText' /\ AtScoring' /\ AtMasking' /\ AtEnd' /\ AtRest'
  BY <1>1, <1>6 DEF Begun, AtText, AtScoring, AtMasking, AtEnd, AtRest, Unsearched
<1>9. Listed(ctx.ents, BaseText)'
  BY <1>1, <1>2, <1>5
<1>. QED BY <1>7, <1>8, <1>9 DEF PipeInv

LEMMA ConfigureInv == PipeInv /\ (\E m \in Overrides : Configure(m)) => PipeInv'
<1>. SUFFICES ASSUME PipeInv, NEW m \in Overrides, Configure(m) PROVE PipeInv'
  OBVIOUS
<1>1. UNCHANGED <<stage, call, ctx, out, raised, answered, blind, lost, repaired, calls>> /\ mode' = m
  BY DEF Configure
<1>. QED BY <1>1 DEF PipeInv, PipeTyped, BaseText, Begun, AtText, AtScoring, AtMasking, AtEnd, AtRest, AllMade, Made, Unsearched

LEMMA StutterInv == PipeInv /\ UNCHANGED vars => PipeInv'
BY DEF vars, PipeInv, PipeTyped, BaseText, Begun, AtText, AtScoring, AtMasking, AtEnd, AtRest, AllMade, Made, Unsearched

LEMMA RaiseTyped ==
  ASSUME PipeInv, Raise, NEW T, NEW ents, NEW map, ctx' = [text |-> T, ents |-> ents, map |-> map]
  PROVE  PipeTyped' /\ ctx'.ents = ents /\ ctx'.text = T /\ ctx'.map = map
<1>1. PipeTyped
  BY DEF PipeInv
<1>2. /\ stage \in Stages /\ raised' = raised \cup {stage} /\ answered' = answered \cup {stage}
      /\ stage' = After(stage) /\ UNCHANGED <<call, mode, out, blind, lost, repaired, calls>>
  BY DEF Raise
<1>3. stage # "idle" /\ stage' \in Stages \cup {"idle", "return"}
  BY <1>2, AfterIs
<1>4. raised' \subseteq answered' /\ answered' \subseteq Stages /\ call' = call /\ mode' = mode
        /\ calls' = calls
        /\ out'.ok \in BOOLEAN /\ repaired' \in BOOLEAN /\ blind' \in BOOLEAN
  BY <1>1, <1>2 DEF PipeTyped
<1>. QED BY <1>3, <1>4, StaysTyped

LEMMA RaiseInv == PipeInv /\ Raise => PipeInv'
<1>. SUFFICES ASSUME PipeInv, Raise PROVE PipeInv'
  OBVIOUS
<1>1. /\ stage \in Stages /\ raised' = raised \cup {stage} /\ answered' = answered \cup {stage}
      /\ stage' = After(stage) /\ UNCHANGED <<call, mode, out, blind, lost, repaired, calls>>
      /\ ctx' = CASE stage = "normalization" -> [ctx EXCEPT !.text = BasicCleanup(@)]
                  [] stage = "scoring" -> [ctx EXCEPT !.ents = FallbackScore(@)]
                  [] stage = "context" -> [ctx EXCEPT !.ents = FallbackContext(@, call.said)]
                  [] OTHER -> ctx
  BY DEF Raise
<1>2. /\ PipeTyped /\ SentText(BaseText) /\ Listed(ctx.ents, BaseText)
      /\ ctx = [text |-> ctx.text, ents |-> ctx.ents, map |-> ctx.map]
      /\ Begun /\ AtText /\ AtScoring /\ AtMasking /\ AtEnd
  BY InvParts
<1>3. stage # "normalization" => BaseText' = BaseText
  BY <1>1 DEF BaseText
<1>. DEFINE Rest == Begun /\ AtText /\ AtScoring /\ AtMasking /\ AtEnd /\ AtRest
<1>4. CASE stage = "normalization"
  <2>1. ctx.text = call.text /\ ctx.ents = <<>> /\ lost = {} /\ raised = {} /\ ~repaired /\ stage' = "detection"
    BY <1>1, <1>2, <1>4, AfterIs DEF Begun, AtText
  <2>2. ctx' = [text |-> call.text, ents |-> <<>>, map |-> ctx.map]
    <3>1. ctx' = [ctx EXCEPT !.text = ctx.text]
      BY <1>1, <1>4 DEF BasicCleanup
    <3>. QED BY <1>2, <2>1, <3>1
  <2>3. PipeTyped' /\ ctx'.ents = <<>> /\ ctx'.text = call.text
    BY <2>2, RaiseTyped
  <2>4. BaseText' = call.text
    BY <1>1, <1>4 DEF BaseText
  <2>5. Listed(ctx.ents, BaseText)'
    BY <2>3, NothingListed
  <2>6. Rest'
    BY <1>1, <1>4, <2>1, <2>3, <2>4 DEF Begun, AtText, AtScoring, AtMasking, AtEnd, AtRest, Unsearched
  <2>. QED BY <2>3, <2>5, <2>6 DEF PipeInv
<1>5. CASE stage = "detection"
  <2>1. /\ ctx.text = BaseText /\ ctx.ents = <<>> /\ lost = {} /\ "masking" \notin raised /\ ~repaired
        /\ stage' = "scoring" /\ ctx' = ctx
    BY <1>1, <1>2, <1>5, AfterIs DEF Begun, AtText
  <2>2. PipeTyped'
    BY <1>2, <2>1, RaiseTyped
  <2>3. Listed(ctx.ents, BaseText)'
    BY <1>2, <1>3, <1>5, <2>1
  <2>4. Rest'
    BY <1>1, <1>3, <1>5, <2>1 DEF Begun, AtText, AtScoring, AtMasking, AtEnd, AtRest, Unsearched
  <2>. QED BY <2>2, <2>3, <2>4 DEF PipeInv
<1>6. CASE stage = "scoring"
  <2>1. /\ ctx.text = BaseText /\ lost = {} /\ "masking" \notin raised /\ ~repaired /\ stage' = "context"
        /\ Unsearched \/ Sure(ctx.ents, BaseText, 900)
    BY <1>1, <1>2, <1>6, AfterIs DEF AtScoring, AtText, Unsearched
  <2>2. PICK ents : ents = FallbackScore(ctx.ents)
    OBVIOUS
  <2>3. ctx' = [text |-> ctx.text, ents |-> ents, map |-> ctx.map]
    <3>1. ctx' = [ctx EXCEPT !.ents = ents]
      BY <1>1, <1>6, <2>2
    <3>. QED BY <1>2, <3>1
  <2>4. PipeTyped' /\ ctx'.ents = ents /\ ctx'.text = ctx.text
    BY <2>3, RaiseTyped
  <2>5. Rescored(ctx.ents, ents) /\ (Sure(ctx.ents, BaseText, 900) => Sure(ents, BaseText, 700))
    BY <1>2, <2>2, FallbackScoreRescored
  <2>6. Listed(ents, BaseText)
    <3>1. BaseText \in Seq(Range(BaseText))
      BY <1>2 DEF SentText
    <3>. QED BY <1>2, <2>5, <3>1, RescoredListed
  <2>7. LostStands(lost, ents, BaseText)
    BY <2>1, NothingListed
  <2>8. Listed(ctx.ents, BaseText)'
    BY <1>3, <1>6, <2>4, <2>6
  <2>9. AtMasking'
    BY <1>1, <1>3, <1>6, <2>1, <2>4, <2>5, <2>7 DEF AtMasking, Unsearched
  <2>10. Rest'
    BY <1>1, <1>3, <1>6, <2>1, <2>4, <2>9 DEF Begun, AtText, AtScoring, AtEnd, AtRest, Unsearched
  <2>. QED BY <2>4, <2>8, <2>10 DEF PipeInv
<1>7. CASE stage = "context"
  <2>1. /\ ctx.text = BaseText /\ "masking" \notin raised /\ ~repaired /\ stage' = "masking"
        /\ LostStands(lost, ctx.ents, BaseText) /\ (Unsearched \/ Sure(ctx.ents, BaseText, 700))
    BY <1>1, <1>2, <1>7, AfterIs DEF AtMasking, AtText, Unsearched
  <2>2. PICK ents : ents = FallbackContext(ctx.ents, call.said)
    OBVIOUS
  <2>3. ctx' = [text |-> ctx.text, ents |-> ents, map |-> ctx.map]
    <3>1. ctx' = [ctx EXCEPT !.ents = ents]
      BY <1>1, <1>7, <2>2
    <3>. QED BY <1>2, <3>1
  <2>4. PipeTyped' /\ ctx'.ents = ents /\ ctx'.text = ctx.text
    BY <2>3, RaiseTyped
  <2>5. Rescored(ctx.ents, ents) /\ (Sure(ctx.ents, BaseText, 700) => Sure(ents, BaseText, 700))
    BY <1>2, <2>2, FallbackContextRescored
  <2>6. Listed(ents, BaseText)
    <3>1. BaseText \in Seq(Range(BaseText))
      BY <1>2 DEF SentText
    <3>. QED BY <1>2, <2>5, <3>1, RescoredListed
  <2>7. LostStands(lost, ents, BaseText)
    BY <1>2, <2>1, <2>5, StandsRescored
  <2>8. Listed(ctx.ents, BaseText)'
    BY <1>3, <1>7, <2>4, <2>6
  <2>9. AtMasking'
    BY <1>1, <1>3, <1>7, <2>1, <2>4, <2>5, <2>7 DEF AtMasking, Unsearched
  <2>10. Rest'
    BY <1>1, <1>3, <1>7, <2>1, <2>4, <2>9 DEF Begun, AtText, AtScoring, AtEnd, AtRest, Unsearched
  <2>. QED BY <2>4, <2>8, <2>10 DEF PipeInv
<1>8. CASE stage = "masking"
  <2>1. /\ ctx.text = BaseText /\ ~repaired /\ stage' = "integrity" /\ ctx' = ctx
        /\ LostStands(lost, ctx.ents, BaseText) /\ (Unsearched \/ Sure(ctx.ents, BaseText, 700))
    BY <1>1, <1>2, <1>8, AfterIs DEF AtMasking, AtText, Unsearched
  <2>2. PipeTyped'
    BY <1>2, <2>1, RaiseTyped
  <2>3. Listed(ctx.ents, BaseText)'
    BY <1>2, <1>3, <1>8, <2>1
  <2>4. AllMade(ctx.text, ctx.ents, ctx.map, BaseText)'
    BY <1>1, <1>2, <1>3, <1>8, <2>1 DEF AllMade, Made, Unsearched
  <2>5. Rest'
    BY <1>1, <1>3, <1>8, <2>1, <2>4 DEF Begun, AtText, AtScoring, AtMasking, AtEnd, AtRest, Unsearched
  <2>. QED BY <2>2, <2>3, <2>5 DEF PipeInv
<1>9. CASE stage \in {"integrity", "verification"}
  <2>1. /\ stage' \in {"verification", "return"} /\ ctx' = ctx /\ AllMade(ctx.text, ctx.ents, ctx.map, BaseText)
    BY <1>1, <1>2, <1>9, AfterIs DEF AtEnd
  <2>2. PipeTyped'
    BY <1>2, <2>1, RaiseTyped
  <2>3. BaseText' = BaseText
    BY <1>3, <1>9
  <2>4. Listed(ctx.ents, BaseText)'
    BY <1>2, <2>1, <2>3
  <2>5. "masking" \in raised' <=> "masking" \in raised
    BY <1>1, <1>9
  <2>6. AllMade(ctx.text, ctx.ents, ctx.map, BaseText)'
    BY <1>1, <1>9, <2>1, <2>3, <2>5 DEF AllMade, Made, Unsearched
  <2>7. Rest'
    BY <1>1, <2>1, <2>6 DEF Begun, AtText, AtScoring, AtMasking, AtEnd, AtRest
  <2>. QED BY <2>2, <2>4, <2>7 DEF PipeInv
<1>. QED BY <1>1, <1>4, <1>5, <1>6, <1>7, <1>8, <1>9, AfterIs

-----------------------------------------------------------------------------
(* Detection                                                               *)

(* What a detector reports: an entity, or an example address.              *)
Seen(x, B) ==
  /\ x = [s |-> x.s, e |-> x.e, type |-> x.type, conf |-> x.conf, by |-> x.by, txt |-> x.txt]
  /\ x.s \in 1..Len(B)
  /\ (x.e = x.s + 1 /\ B[x.s].kind = "pii" /\ B[x.s].form = "raw") \/ TwoCaps(x, B)
  /\ x.type = B[x.s].type /\ x.txt = SubSeq(B, x.s, x.e - 1)
  /\ x.conf \in 0..1000 /\ x.by \in DOMAIN Rank

SameKey(x, y) == x.s = y.s /\ x.e = y.e /\ x.by = y.by

LEMMA SeenCell ==
  ASSUME NEW B, NEW i, i \in 1..Len(B), B[i].kind = "pii", B[i].form = "raw", NEW c, c \in 0..1000, NEW d, d \in DOMAIN Rank
  PROVE  Seen(Entity(B, i, i + 1, B[i].type, c, d), B)
<1>1. PICK x, t, a, e : x = Entity(B, i, i + 1, B[i].type, c, d) /\ t = SubSeq(B, i, (i + 1) - 1)
        /\ a = B[i].type /\ e = i + 1
  BY Zenon
<1>2. x = [s |-> i, e |-> e, type |-> a, conf |-> c, by |-> d, txt |-> t]
  BY <1>1 DEF Entity
<1>3. x.s = i /\ x.e = e /\ x.type = a /\ x.conf = c /\ x.by = d /\ x.txt = t
  BY <1>2
<1>4. x.txt = SubSeq(B, x.s, x.e - 1)
  BY <1>1, <1>3, ZenonT(60)
<1>5. x = [s |-> x.s, e |-> x.e, type |-> x.type, conf |-> x.conf, by |-> x.by, txt |-> x.txt]
  BY <1>2, <1>3
<1>6. x.s \in 1..Len(B) /\ x.e = x.s + 1 /\ x.conf \in 0..1000 /\ x.by \in DOMAIN Rank /\ x.type = B[x.s].type
        /\ B[x.s].kind = "pii" /\ B[x.s].form = "raw"
  BY <1>1, <1>3, ZenonT(60)
<1>7. Seen(x, B)
  BY <1>4, <1>5, <1>6 DEF Seen
<1>. QED BY <1>1, <1>7

LEMMA SeenPair ==
  ASSUME NEW B, SentText(B), NEW i, i \in 1..Len(B), i + 1 \in 1..Len(B), B[i].kind = "cap", B[i + 1].kind = "cap",
         NEW c, c \in 0..1000, NEW d, d \in DOMAIN Rank
  PROVE  Seen(Entity(B, i, i + 2, "name", c, d), B)
<1>0. B[i].type = "name" /\ i + 2 <= Len(B) + 1
  BY SentCells DEF SentText
<1>1. PICK x, t, e : x = Entity(B, i, i + 2, "name", c, d) /\ t = SubSeq(B, i, (i + 2) - 1) /\ e = i + 2
  BY Zenon
<1>2. x = [s |-> i, e |-> e, type |-> "name", conf |-> c, by |-> d, txt |-> t]
  BY <1>1 DEF Entity
<1>3. x.s = i /\ x.e = e /\ x.type = "name" /\ x.conf = c /\ x.by = d /\ x.txt = t
  BY <1>2
<1>4. x.txt = SubSeq(B, x.s, x.e - 1)
  BY <1>1, <1>3, Zenon
<1>5. x = [s |-> x.s, e |-> x.e, type |-> x.type, conf |-> x.conf, by |-> x.by, txt |-> x.txt]
  BY <1>2, <1>3
<1>6. TwoCaps(x, B)
  BY <1>0, <1>1, <1>3 DEF TwoCaps
<1>7. Seen(x, B)
  BY <1>0, <1>3, <1>4, <1>5, <1>6 DEF Seen
<1>. QED BY <1>1, <1>7

(* What stands at known keys is finitely much.                             *)
LEMMA KeyedFinite ==
  ASSUME NEW S, NEW n \in Nat, \A x \in S : x.s \in 1..n /\ x.e \in 1..(n + 1) /\ x.by \in DOMAIN Rank,
         \A x, y \in S : SameKey(x, y) => x = y
  PROVE  IsFiniteSet(S)
<1>. DEFINE A == (1..n) \X (1..(n + 1))
            D == DOMAIN Rank
            K == {<<<<x.s, x.e>>, x.by>> : x \in S}
            g == [k \in K |-> CHOOSE x \in S : <<<<x.s, x.e>>, x.by>> = k]
<1>1. IsFiniteSet(1..n) /\ IsFiniteSet(1..(n + 1))
  BY FS_Interval
<1>2. IsFiniteSet(A)
  BY <1>1, FS_Product
<1>3. IsFiniteSet(D)
  <2>1. D = ({"regex"} \cup {"heuristics"}) \cup ({"dictionary"} \cup {"contextual"}) \cup {"ner"}
    BY DEF Rank
  <2>2. \A w : IsFiniteSet({w})
    BY FS_Singleton
  <2>3. \A a, b : IsFiniteSet(a) /\ IsFiniteSet(b) => IsFiniteSet(a \cup b)
    BY FS_Union
  <2>4. IsFiniteSet({"regex"} \cup {"heuristics"}) /\ IsFiniteSet({"dictionary"} \cup {"contextual"})
          /\ IsFiniteSet({"ner"})
    BY <2>2, <2>3
  <2>. HIDE DEF D
  <2>. QED BY <2>1, <2>3, <2>4
<1>. HIDE DEF A, D
<1>4. IsFiniteSet(A \X D)
  BY <1>2, <1>3, FS_Product
<1>5. K \in SUBSET (A \X D)
  BY DEF A, D
<1>6. IsFiniteSet(K)
  <2>. HIDE DEF K
  <2>. QED BY <1>4, <1>5, FS_Subset
<1>7. g \in Surjection(K, S)
  <2>1. g \in [K -> S]
    <3>1. ASSUME NEW k \in K PROVE (CHOOSE x \in S : <<<<x.s, x.e>>, x.by>> = k) \in S
      OBVIOUS
    <3>. QED BY <3>1
  <2>2. ASSUME NEW x \in S PROVE \E k \in K : g[k] = x
    <3>. DEFINE k == <<<<x.s, x.e>>, x.by>>
                z == CHOOSE y \in S : <<<<y.s, y.e>>, y.by>> = k
    <3>1. k \in K
      OBVIOUS
    <3>2. z \in S /\ <<<<z.s, z.e>>, z.by>> = k
      OBVIOUS
    <3>3. g[k] = z
      BY <3>1
    <3>. HIDE DEF z, g
    <3>4. z = x
      BY <3>2 DEF SameKey
    <3>. QED BY <3>1, <3>3, <3>4
  <2>. QED BY <2>1, <2>2 DEF Surjection
<1>. HIDE DEF K, g
<1>. QED BY <1>6, <1>7, FS_Surjection

(* What one detector reports: nothing twice at the same place.             *)
Reports(S, B, d) == /\ \A x \in S : Seen(x, B) /\ x.by = d
                    /\ \A x, y \in S : SameKey(x, y) => x = y

LEMMA EntityParts ==
  ASSUME NEW B, NEW s, NEW e, NEW t, NEW c, NEW d
  PROVE  /\ Entity(B, s, e, t, c, d).s = s /\ Entity(B, s, e, t, c, d).e = e
         /\ Entity(B, s, e, t, c, d).by = d /\ Entity(B, s, e, t, c, d).conf = c
<1>1. PICK u : u = SubSeq(B, s, e - 1)
  OBVIOUS
<1>2. Entity(B, s, e, t, c, d) = [s |-> s, e |-> e, type |-> t, conf |-> c, by |-> d, txt |-> u]
  BY <1>1 DEF Entity
<1>. QED BY <1>2

(* The regular expressions: the first of the same values, surely enough    *)
(* when it is structured and its checksum right.                           *)
LEMMA RegexReports ==
  ASSUME NEW B, SentText(B), NEW bad
  PROVE  /\ Reports(RegexDetect(B, bad), B, "regex")
         /\ \A i \in 1..Len(B) :
              /\ B[i].kind = "pii" /\ B[i].form = "raw" /\ ~IsExampleEmail(B[i])
              /\ B[i].type \in Structured /\ B[i].of \notin bad
              => \E x \in RegexDetect(B, bad) : B[x.s] = B[i] /\ x.e = x.s + 1 /\ x.conf >= 900
<1>. DEFINE hits == {i \in DOMAIN B : B[i].kind = "pii" /\ B[i].form = "raw" /\ ~IsExampleEmail(B[i])}
            firsts == {i \in hits : \A j \in hits : B[j] = B[i] => i <= j}
            base(c) == Clip(RegexWeight[c.type] + (IF c.type = "email" /\ Cue \in Range(B) THEN 100 ELSE 0))
            conf(c) == IF c.of \in bad THEN (base(c) * 45) \div 100 ELSE base(c)
            x(i) == Entity(B, i, i + 1, B[i].type, conf(B[i]), "regex")
<1>1. RegexDetect(B, bad) = {x(i) : i \in firsts}
  BY DEF RegexDetect
<1>2. DOMAIN B = 1..Len(B) /\ Len(B) \in Nat
  BY DEF SentText
<1>3. ASSUME NEW c, c.type \in {"email", "phone", "zip_code", "credit_card"}
      PROVE  /\ base(c) \in 0..1000 /\ (c.type \in Structured => base(c) >= 900)
  <2>1. RegexWeight[c.type] \in 750..950 /\ (c.type \in Structured => RegexWeight[c.type] >= 900)
    BY <1>3 DEF RegexWeight, Structured
  <2>2. PICK n \in Int : n = RegexWeight[c.type] + (IF c.type = "email" /\ Cue \in Range(B) THEN 100 ELSE 0)
                         /\ (c.type \in Structured => 900 <= n)
    BY <2>1
  <2>3. Clip(n) \in 0..1000 /\ \A m \in 0..1000 : m <= n => m <= Clip(n)
    BY ClipHolds, ZenonT(60)
  <2>4. base(c) = Clip(n)
    BY <2>2
  <2>. HIDE DEF base
  <2>5. 900 <= n => 900 <= Clip(n)
    BY <2>3
  <2>6. base(c) \in 0..1000 /\ (900 <= n => 900 <= base(c))
    <3>1. Clip(n) \in 0..1000
      BY <2>3
    <3>. QED BY <2>4, <2>5, <3>1
  <2>7. c.type \in Structured => 900 <= n
    BY <2>2
  <2>8. base(c) >= 900 <=> 900 <= base(c)
    BY <2>6
  <2>. QED BY <2>6, <2>7, <2>8
<1>. HIDE DEF base
<1>4. ASSUME NEW c, c.type \in {"email", "phone", "zip_code", "credit_card"}
      PROVE  /\ conf(c) \in 0..1000 /\ (c.type \in Structured /\ c.of \notin bad => conf(c) >= 900)
  <2>1. PICK n \in 0..1000 : n = base(c)
    BY <1>3, <1>4
  <2>2. (n * 45) \div 100 \in 0..1000
    OBVIOUS
  <2>. QED BY <1>3, <1>4, <2>1, <2>2
<1>5. \A i \in hits : /\ i \in 1..Len(B) /\ B[i].kind = "pii" /\ B[i].form = "raw" /\ ~IsExampleEmail(B[i])
                      /\ B[i].type \in {"email", "phone", "zip_code", "credit_card"}
  BY <1>2, SentCells DEF SentText
<1>. HIDE DEF conf
<1>6. "regex" \in DOMAIN Rank
  BY DEF Rank
<1>7. \A i \in hits : Seen(x(i), B)
  <2>. TAKE i \in hits
  <2>1. conf(B[i]) \in 0..1000
    <3>1. B[i].type \in {"email", "phone", "zip_code", "credit_card"}
      BY <1>5
    <3>. QED BY <1>4, <3>1
  <2>. QED BY <1>5, <1>6, <2>1, SeenCell, Zenon
<1>8. \A i : x(i).s = i /\ x(i).e = i + 1 /\ x(i).by = "regex" /\ x(i).conf = conf(B[i])
  BY EntityParts
<1>. HIDE DEF hits, x
<1>9. Reports(RegexDetect(B, bad), B, "regex")
  <2>1. \A y \in RegexDetect(B, bad) : Seen(y, B) /\ y.by = "regex" /\ y = x(y.s)
    BY <1>1, <1>7, <1>8
  <2>. QED BY <2>1 DEF Reports, SameKey
<1>10. ASSUME NEW i \in 1..Len(B), B[i].kind = "pii", B[i].form = "raw", ~IsExampleEmail(B[i]),
              B[i].type \in Structured, B[i].of \notin bad
       PROVE  \E y \in RegexDetect(B, bad) : B[y.s] = B[i] /\ y.e = y.s + 1 /\ y.conf >= 900
  <2>. DEFINE A == {j \in hits : B[j] = B[i]}
  <2>1. i \in hits
    BY <1>2, <1>10 DEF hits
  <2>2. A \subseteq Nat /\ A # {}
    <3>1. i \in A
      BY <2>1
    <3>2. \A j \in hits : j \in Nat
      BY <1>5
    <3>. QED BY <3>1, <3>2
  <2>. HIDE DEF A
  <2>3. PICK m \in A : \A k \in A : m <= k
    BY <2>2, LeastNat
  <2>4. m \in hits /\ B[m] = B[i] /\ \A j \in hits : B[j] = B[i] => m <= j
    BY <2>3 DEF A
  <2>5. m \in firsts
    BY <2>4
  <2>6. conf(B[m]) >= 900
    BY <1>4, <1>5, <1>10, <2>4
  <2>7. x(m) \in RegexDetect(B, bad)
    BY <1>1, <2>5
  <2>. QED BY <1>8, <2>4, <2>6, <2>7
<1>. QED BY <1>9, <1>10

LEMMA PairsReport ==
  ASSUME NEW B, SentText(B), NEW c, c \in 0..1000, NEW d, d \in DOMAIN Rank,
         NEW D, \A i \in D : i \in 1..Len(B) /\ PersonAt(B, i)
  PROVE  Reports({Entity(B, i, i + 2, "name", c, d) : i \in D}, B, d)
<1>. DEFINE x(i) == Entity(B, i, i + 2, "name", c, d)
<1>1. \A i \in D : i \in 1..Len(B) /\ i + 1 \in 1..Len(B) /\ B[i].kind = "cap" /\ B[i + 1].kind = "cap"
  BY DEF PersonAt, SentText
<1>2. \A i \in D : Seen(x(i), B)
  BY <1>1, SeenPair, Zenon
<1>3. \A i : x(i).s = i /\ x(i).by = d
  BY EntityParts
<1>. HIDE DEF x
<1>4. \A y \in {x(i) : i \in D} : Seen(y, B) /\ y.by = d /\ y = x(y.s)
  BY <1>2, <1>3
<1>5. Reports({x(i) : i \in D}, B, d)
  BY <1>4 DEF Reports, SameKey
<1>. QED BY <1>5 DEF x

LEMMA HeuristicReports ==
  ASSUME NEW B, SentText(B)
  PROVE  Reports(HeuristicDetect(B), B, "heuristics")
<1>. DEFINE scan == CHOOSE f : f = [i \in 0..Len(B) |-> i > 0 /\ PersonAt(B, i) /\ ~f[i - 1]]
            D == {j \in DOMAIN B : PersonAt(B, j) /\ scan[j]}
<1>1. HeuristicDetect(B) = {Entity(B, i, i + 2, "name", 600, "heuristics") : i \in D}
  BY Zenon DEF HeuristicDetect
<1>2. \A i \in D : i \in 1..Len(B) /\ PersonAt(B, i)
  BY DEF SentText
<1>3. "heuristics" \in DOMAIN Rank /\ 600 \in 0..1000
  BY DEF Rank
<1>. HIDE DEF D
<1>. QED BY <1>1, <1>2, <1>3, PairsReport

LEMMA NerReports ==
  ASSUME NEW B, SentText(B)
  PROVE  Reports(NerDetect(B), B, "ner")
<1>. DEFINE D == {j \in DOMAIN B : PersonAt(B, j)}
<1>1. NerDetect(B) = {Entity(B, i, i + 2, "name", 650, "ner") : i \in D}
  BY DEF NerDetect
<1>2. \A i \in D : i \in 1..Len(B) /\ PersonAt(B, i)
  BY DEF SentText
<1>3. "ner" \in DOMAIN Rank /\ 650 \in 0..1000
  BY DEF Rank
<1>. HIDE DEF D
<1>. QED BY <1>1, <1>2, <1>3, PairsReport

LEMMA FirstIn ==
  ASSUME NEW S, S \subseteq Nat
  PROVE  \A i \in First(S) : i \in S /\ i = Min(S)
BY MinIn DEF First

LEMMA DictionaryReports ==
  ASSUME NEW B, SentText(B)
  PROVE  Reports(DictionaryDetect(B), B, "dictionary")
<1>. DEFINE pairs == {i \in 1..(Len(B) - 1) : /\ B[i].kind = "cap" /\ B[i].of \in FirstNames
                                     /\ B[i + 1].kind = "cap" /\ B[i + 1].of \in LastNames}
            mails == {i \in DOMAIN B : IsEmail(B[i]) /\ Cue \in Range(B)}
            x(i) == Entity(B, i, i + 2, "name", 700, "dictionary")
            y(i) == Entity(B, i, i + 1, "email", 800, "dictionary")
<1>1. DictionaryDetect(B) = {x(i) : i \in First(pairs)} \cup {y(i) : i \in First(mails)}
  BY DEF DictionaryDetect
<1>2. Len(B) \in Nat /\ DOMAIN B = 1..Len(B)
  BY DEF SentText
<1>3. \A i \in pairs : i \in Nat /\ i \in 1..Len(B) /\ i + 1 \in 1..Len(B) /\ B[i].kind = "cap"
        /\ B[i + 1].kind = "cap"
  BY <1>2
<1>4. \A i \in mails : i \in Nat /\ i \in 1..Len(B) /\ B[i].kind = "pii" /\ B[i].form = "raw"
        /\ B[i].type = "email"
  BY <1>2 DEF IsEmail
<1>5. "dictionary" \in DOMAIN Rank /\ 700 \in 0..1000 /\ 800 \in 0..1000
  BY DEF Rank
<1>. HIDE DEF pairs, mails
<1>6. \A i \in First(pairs) : i \in pairs /\ i = Min(pairs)
  <2>1. pairs \subseteq Nat
    BY <1>3
  <2>. QED BY <2>1, FirstIn
<1>7. \A i \in First(mails) : i \in mails /\ i = Min(mails)
  <2>1. mails \subseteq Nat
    BY <1>4
  <2>. QED BY <2>1, FirstIn
<1>8. \A i \in First(pairs) : Seen(x(i), B)
  BY <1>3, <1>5, <1>6, SeenPair
<1>9. \A i \in First(mails) : Seen(y(i), B)
  <2>. TAKE i \in First(mails)
  <2>1. i \in 1..Len(B) /\ B[i].kind = "pii" /\ B[i].form = "raw" /\ "email" = B[i].type
    BY <1>4, <1>7
  <2>2. Seen(Entity(B, i, i + 1, B[i].type, 800, "dictionary"), B)
    <3>1. ASSUME NEW c, c \in 0..1000, NEW d, d \in DOMAIN Rank
          PROVE Seen(Entity(B, i, i + 1, B[i].type, c, d), B)
      BY <2>1, <3>1, SeenCell, Zenon
    <3>. QED BY <1>5, <3>1
  <2>. QED BY <2>1, <2>2
<1>10. \A i : /\ x(i).s = i /\ x(i).e = i + 2 /\ x(i).by = "dictionary"
              /\ y(i).s = i /\ y(i).e = i + 1 /\ y(i).by = "dictionary"
  BY EntityParts
<1>. HIDE DEF x, y
<1>11. \A u \in DictionaryDetect(B) :
         Seen(u, B) /\ u.by = "dictionary" /\ u.s \in Nat
           /\ ((u = x(u.s) /\ u.e = u.s + 2) \/ (u = y(u.s) /\ u.e = u.s + 1))
  BY <1>1, <1>3, <1>4, <1>6, <1>7, <1>8, <1>9, <1>10
<1>12. ASSUME NEW u \in DictionaryDetect(B), NEW v \in DictionaryDetect(B), SameKey(u, v) PROVE u = v
  <2>1. u.s = v.s /\ u.e = v.e
    BY <1>12 DEF SameKey
  <2>2. /\ u.s \in Nat /\ ((u = x(u.s) /\ u.e = u.s + 2) \/ (u = y(u.s) /\ u.e = u.s + 1))
        /\ ((v = x(v.s) /\ v.e = v.s + 2) \/ (v = y(v.s) /\ v.e = v.s + 1))
    BY <1>11
  <2>3. u.s + 2 # u.s + 1
    BY <2>2
  <2>. QED BY <2>1, <2>2, <2>3
<1>. QED BY <1>11, <1>12 DEF Reports

LEMMA ContextualReports ==
  ASSUME NEW B, SentText(B), NEW said
  PROVE  Reports(ContextualDetect(B, said), B, "contextual")
<1>. DEFINE cues  == {c \in DOMAIN B : B[c] = Cue /\ "my" \in said}
            mails == {i \in DOMAIN B : IsEmail(B[i]) /\ \E c \in First(cues) : i > c}
            conf  == Clip(800 + 100 * Cardinality(said \cap {"personal", "private"})
                        - 200 * Cardinality(said \cap Keywords.teaching))
            y(i) == Entity(B, i, i + 1, "email", conf, "contextual")
<1>1. ContextualDetect(B, said) = {y(i) : i \in First(mails)}
  BY DEF ContextualDetect
<1>2. Len(B) \in Nat /\ DOMAIN B = 1..Len(B)
  BY DEF SentText
<1>3. conf \in 0..1000
  <2>1. Cardinality(said \cap {"personal", "private"}) \in Nat
    BY FewWords, SaidCount
  <2>2. Cardinality(said \cap Keywords.teaching) \in Nat
    <3>1. IsFiniteSet(Keywords.teaching)
      BY FewWords DEF Keywords
    <3>. QED BY <3>1, SaidCount
  <2>3. PICK n \in Int : n = 800 + 100 * Cardinality(said \cap {"personal", "private"})
                        - 200 * Cardinality(said \cap Keywords.teaching)
    BY <2>1, <2>2
  <2>4. Clip(n) \in 0..1000
    BY ClipHolds, ZenonT(60)
  <2>. QED BY <2>3, <2>4
<1>4. \A i \in mails : i \in Nat /\ i \in 1..Len(B) /\ B[i].kind = "pii" /\ B[i].form = "raw"
        /\ B[i].type = "email"
  BY <1>2 DEF IsEmail
<1>5. "contextual" \in DOMAIN Rank
  BY DEF Rank
<1>. HIDE DEF mails, conf
<1>7. \A i \in First(mails) : i \in mails /\ i = Min(mails)
  <2>1. mails \subseteq Nat
    BY <1>4
  <2>. QED BY <2>1, FirstIn
<1>9. \A i \in First(mails) : Seen(y(i), B)
  <2>. TAKE i \in First(mails)
  <2>1. i \in 1..Len(B) /\ B[i].kind = "pii" /\ B[i].form = "raw" /\ "email" = B[i].type
    BY <1>4, <1>7
  <2>2. Seen(Entity(B, i, i + 1, B[i].type, conf, "contextual"), B)
    BY <1>3, <1>5, <2>1, SeenCell, Zenon
  <2>. QED BY <2>1, <2>2
<1>10. \A i : y(i).by = "contextual"
  BY EntityParts
<1>. HIDE DEF y
<1>11. \A u \in ContextualDetect(B, said) : Seen(u, B) /\ u.by = "contextual" /\ u = y(Min(mails))
  BY <1>1, <1>7, <1>9, <1>10
<1>. QED BY <1>11 DEF Reports

(* What the enabled detectors report together.                             *)
LEMMA AllReport ==
  ASSUME NEW B, SentText(B), NEW said, NEW bad, NEW on, on \subseteq DOMAIN Rank
  PROVE  /\ Ranked(RunDetectors(B, said, bad, on))
         /\ \A x \in RunDetectors(B, said, bad, on) : Seen(x, B)
         /\ "regex" \in on => RegexDetect(B, bad) \subseteq RunDetectors(B, said, bad, on)
<1>. DEFINE result == [regex |-> RegexDetect(B, bad), heuristics |-> HeuristicDetect(B),
                 dictionary |-> DictionaryDetect(B),
                 contextual |-> ContextualDetect(B, said), ner |-> NerDetect(B)]
<1>1. PICK S : S = RunDetectors(B, said, bad, on)
  OBVIOUS
<1>2. S = UNION {result[d] : d \in on}
  BY <1>1 DEF RunDetectors
<1>3. DOMAIN Rank = {"regex", "heuristics", "dictionary", "contextual", "ner"}
  BY DEF Rank
<1>4. /\ result["regex"] = RegexDetect(B, bad) /\ result["heuristics"] = HeuristicDetect(B)
      /\ result["dictionary"] = DictionaryDetect(B) /\ result["contextual"] = ContextualDetect(B, said)
      /\ result["ner"] = NerDetect(B)
  OBVIOUS
<1>. HIDE DEF result
<1>5. /\ Reports(result["regex"], B, "regex") /\ Reports(result["heuristics"], B, "heuristics")
      /\ Reports(result["dictionary"], B, "dictionary") /\ Reports(result["contextual"], B, "contextual")
      /\ Reports(result["ner"], B, "ner")
  BY <1>4, RegexReports, HeuristicReports, DictionaryReports, ContextualReports, NerReports
<1>6. \A d \in on : Reports(result[d], B, d)
  BY <1>3, <1>5
<1>7. \A x \in S : \E d \in on : x \in result[d]
  BY <1>2
<1>8. \A x \in S : Seen(x, B) /\ x \in result[x.by]
  BY <1>6, <1>7 DEF Reports
<1>9. \A x, y \in S : SameKey(x, y) => x = y
  <2>. SUFFICES ASSUME NEW x \in S, NEW y \in S, SameKey(x, y) PROVE x = y
    OBVIOUS
  <2>1. PICK d \in on : x \in result[d]
    BY <1>7
  <2>2. x.by = d /\ y.by = d
    BY <1>6, <2>1 DEF Reports, SameKey
  <2>3. y \in result[d]
    BY <1>8, <2>2
  <2>. QED BY <1>6, <2>1, <2>3 DEF Reports
<1>10. Len(B) \in Nat
  BY DEF SentText
<1>11. \A x \in S : x.s \in 1..Len(B) /\ x.e \in 1..(Len(B) + 1) /\ x.by \in DOMAIN Rank /\ x.conf \in 0..1000
  <2>. TAKE x \in S
  <2>1. Seen(x, B)
    BY <1>8
  <2>2. x.s \in 1..Len(B) /\ (x.e = x.s + 1 \/ (x.e = x.s + 2 /\ x.e <= Len(B) + 1))
    BY <2>1 DEF Seen, TwoCaps
  <2>3. x.by \in DOMAIN Rank /\ x.conf \in 0..1000
    BY <2>1 DEF Seen
  <2>4. x.e \in 1..(Len(B) + 1)
    BY <1>10, <2>2
  <2>. QED BY <2>2, <2>3, <2>4
<1>12. IsFiniteSet(S)
  BY <1>9, <1>10, <1>11, KeyedFinite
<1>13. Ranked(S)
  <2>1. \A x \in S : x.s \in Nat /\ x.e \in Nat /\ x.conf \in Nat /\ x.by \in DOMAIN Rank
    <3>1. ASSUME NEW x \in S PROVE x.s \in Nat /\ x.e \in Nat /\ x.conf \in Nat
      <4>1. x.s \in 1..Len(B) /\ x.e \in 1..(Len(B) + 1) /\ x.conf \in 0..1000
        BY <1>11
      <4>2. PICK n \in Nat : n = Len(B)
        BY <1>10
      <4>3. x.s \in 1..n /\ x.e \in 1..(n + 1)
        BY <4>1, <4>2
      <4>4. x.s \in Nat
        BY <4>3
      <4>5. x.e \in Nat
        BY <4>3
      <4>6. x.conf \in Nat
        <5>1. x.conf \in 0..1000
          BY <1>11
        <5>2. \A c \in 0..1000 : c \in Nat
          OBVIOUS
        <5>. QED BY <5>1, <5>2, Zenon
      <4>. QED BY <4>4, <4>5, <4>6
    <3>. QED BY <1>11, <3>1
  <2>. QED BY <1>9, <1>12, <2>1 DEF Ranked, SameKey
<1>14. "regex" \in on => result["regex"] \subseteq S
  BY <1>2
<1>. QED BY <1>1, <1>4, <1>8, <1>13, <1>14

LEMMA SeenSpan ==
  ASSUME NEW B, SentText(B), NEW x, Seen(x, B)
  PROVE  /\ x.s \in Nat /\ x.e \in Nat /\ x.s \in 1..Len(B) /\ (x.e = x.s + 1 \/ x.e = x.s + 2)
         /\ x.conf \in 0..1000
<1>1. PICK n \in Nat : n = Len(B)
  BY DEF SentText
<1>2. x.s \in 1..n /\ (x.e = x.s + 1 \/ x.e = x.s + 2)
  BY <1>1 DEF Seen, TwoCaps
<1>3. x.s \in Nat
  BY <1>2
<1>4. x.e \in Nat
  BY <1>2, <1>3
<1>5. x.conf \in 0..1000
  BY DEF Seen
<1>. QED BY <1>1, <1>2, <1>3, <1>4, <1>5

(* Spans of one or two cells overlap exactly when they share a cell.       *)
LEMMA OverlapShares ==
  ASSUME NEW x, NEW y, x.s \in Nat, y.s \in Nat, x.e = x.s + 1 \/ x.e = x.s + 2, y.e = y.s + 1 \/ y.e = y.s + 2
  PROVE  Overlaps(x, y) <=> ~Apart(x, y)
<1>0. x.e \in Nat /\ y.e \in Nat
  OBVIOUS
<1>1. PICK a \in Nat, b \in Nat, c \in Nat, d \in Nat : a = x.s /\ b = x.e /\ c = y.s /\ d = y.e
  BY <1>0, Zenon
<1>2. (b = a + 1 \/ b = a + 2) /\ (d = c + 1 \/ d = c + 2)
  BY <1>1
<1>. DEFINE lo == IF a > c THEN a ELSE c
            hi == IF b < d THEN b ELSE d
            shorter == IF b - a < d - c THEN b - a ELSE d - c
<1>3. Overlaps(x, y) <=> a <= d /\ b >= c /\ 2 * (hi - lo + 1) > shorter + 1
  BY <1>1, Zenon DEF Overlaps, AtLeast
<1>4. Apart(x, y) <=> b <= c \/ d <= a
  BY <1>1, Zenon DEF Apart
<1>5. a <= d /\ b >= c /\ 2 * (hi - lo + 1) > shorter + 1 <=> ~(b <= c \/ d <= a)
  BY <1>2
<1>. QED BY <1>3, <1>4, <1>5

(* A list of what was seen, no two of which share a cell; and what of it   *)
(* stands for an entity.                                                   *)
Loose(q, B)  == q \in Seq(Range(q)) /\ AllApart(q) /\ \A k \in 1..Len(q) : Seen(q[k], B)

Speaks(y, x) == y = x \/ (~Apart(x, y) /\ y.conf >= x.conf)

Stays(x, q)  == \E k \in 1..Len(q) : Speaks(q[k], x)

BestKept(kept, x, new, S) ==
  /\ new \in Seq(S) /\ AllApart(new) /\ (new = kept \/ new = Append(kept, x)) /\ Stays(x, new)

LEMMA BestKeeps ==
  ASSUME NEW B, SentText(B), NEW S, \A x \in S : Seen(x, B), NEW kept \in Seq(S), AllApart(kept),
         NEW x \in S, \A m \in 1..Len(kept) : kept[m].conf >= x.conf
  PROVE  BestKept(kept, x, KeepBest(kept, x), S)
<1>. DEFINE hits == {k \in DOMAIN kept : Overlaps(x, kept[k])}
<1>1. DOMAIN kept = 1..Len(kept) /\ Len(kept) \in Nat /\ \A m \in 1..Len(kept) : kept[m] \in S
  OBVIOUS
<1>2. \A m \in 1..Len(kept) : Overlaps(x, kept[m]) <=> ~Apart(x, kept[m])
  <2>. TAKE m \in 1..Len(kept)
  <2>1. Seen(x, B) /\ Seen(kept[m], B)
    BY <1>1
  <2>2. x.s \in Nat /\ (x.e = x.s + 1 \/ x.e = x.s + 2)
    BY <2>1, SeenSpan
  <2>3. kept[m].s \in Nat /\ (kept[m].e = kept[m].s + 1 \/ kept[m].e = kept[m].s + 2)
    BY <2>1, SeenSpan
  <2>. QED BY <2>2, <2>3, OverlapShares
<1>3. \A m : m \in hits <=> m \in 1..Len(kept) /\ ~Apart(x, kept[m])
  BY <1>1, <1>2
<1>4. KeepBest(kept, x) = IF hits = {} THEN Append(kept, x)
                          ELSE IF x.conf > kept[Min(hits)].conf THEN Append(RemoveAt(kept, Min(hits)), x) ELSE kept
  BY DEF KeepBest
<1>. HIDE DEF hits
<1>5. CASE hits = {}
  <2>1. PICK new : new = Append(kept, x)
    OBVIOUS
  <2>2. new \in Seq(S) /\ Len(new) = Len(kept) + 1 /\ new[Len(new)] = x
          /\ \A m \in 1..Len(kept) : new[m] = kept[m]
    BY <2>1
  <2>3. ASSUME NEW j \in 1..Len(new), NEW k \in 1..Len(new), j # k PROVE Apart(new[j], new[k])
    <3>1. CASE j \in 1..Len(kept) /\ k \in 1..Len(kept)
      BY <2>2, <2>3, <3>1 DEF AllApart
    <3>2. CASE j = Len(new)
      <4>1. k \in 1..Len(kept)
        BY <1>1, <2>2, <2>3, <3>2
      <4>. QED BY <1>3, <1>5, <2>2, <3>2, <4>1
    <3>3. CASE k = Len(new)
      <4>1. j \in 1..Len(kept)
        BY <1>1, <2>2, <2>3, <3>3
      <4>2. Apart(x, kept[j])
        BY <1>3, <1>5, <4>1
      <4>. QED BY <2>2, <3>3, <4>1, <4>2 DEF Apart
    <3>. QED BY <1>1, <2>2, <3>1, <3>2, <3>3
  <2>4. Stays(x, new)
    <3>1. Len(new) \in 1..Len(new)
      BY <1>1, <2>2
    <3>. QED BY <2>2, <3>1 DEF Stays, Speaks
  <2>5. AllApart(new)
    BY <2>3 DEF AllApart
  <2>. QED BY <1>4, <1>5, <2>1, <2>2, <2>4, <2>5 DEF BestKept
<1>6. CASE hits # {}
  <2>1. PICK m : m = Min(hits) /\ m \in hits
    <3>1. hits \subseteq Nat
      BY <1>1, <1>3
    <3>. QED BY <1>6, <3>1, MinIn
  <2>2. m \in 1..Len(kept) /\ ~Apart(x, kept[m]) /\ kept[m].conf >= x.conf
    BY <1>3, <2>1
  <2>3. ~(x.conf > kept[m].conf)
    <3>1. x.conf \in 0..1000 /\ kept[m].conf \in 0..1000
      BY <1>1, <2>2, SeenSpan, SMTT(30)
    <3>2. PICK a \in 0..1000, b \in 0..1000 : a = x.conf /\ b = kept[m].conf
      BY <3>1, ZenonT(60)
    <3>3. b >= a
      BY <2>2, <3>2
    <3>. QED BY <3>2, <3>3
  <2>4. KeepBest(kept, x) = kept
    BY <1>4, <1>6, <2>1, <2>3
  <2>5. Stays(x, kept)
    BY <2>2 DEF Stays, Speaks
  <2>. QED BY <2>4, <2>5 DEF BestKept
<1>. QED BY <1>5, <1>6

(* Along the entities from the surest down, whatever was passed is kept or *)
(* spoken for.                                                             *)
Upto(S, q, u, k) ==
  /\ u \in Seq(S) /\ AllApart(u)
  /\ \A m \in 1..Len(u) : \E j \in 1..k : u[m] = q[j]
  /\ \A j \in 1..k : Stays(q[j], u)

LEMMA BestStep ==
  ASSUME NEW B, SentText(B), NEW S, \A x \in S : Seen(x, B), NEW q, NEW n \in Nat, \A j \in 1..n : q[j] \in S,
         \A i, j \in 1..n : i < j => q[i].conf >= q[j].conf,
         NEW k \in Nat, k + 1 <= n, NEW u, Upto(S, q, u, k)
  PROVE  Upto(S, q, KeepBest(u, q[k + 1]), k + 1)
<1>1. PICK x \in S : x = q[k + 1]
  OBVIOUS
<1>2. PICK v : v = KeepBest(u, x)
  OBVIOUS
<1>3. u \in Seq(S) /\ AllApart(u) /\ Len(u) \in Nat
  BY DEF Upto
<1>4. \A j \in 1..k : j \in 1..n /\ j < k + 1 /\ k + 1 \in 1..n /\ j \in 1..(k + 1)
  OBVIOUS
<1>5. \A m \in 1..Len(u) : u[m].conf >= x.conf
  BY <1>1, <1>4 DEF Upto
<1>6. BestKept(u, x, v, S)
  BY <1>2, <1>3, <1>5, BestKeeps
<1>7. v = u \/ v = Append(u, x)
  BY <1>6 DEF BestKept
<1>8. /\ \A m \in 1..Len(u) : m \in 1..Len(v) /\ v[m] = u[m]
      /\ \A m \in 1..Len(v) : m \in 1..Len(u) \/ v[m] = x
  BY <1>3, <1>7
<1>9. \A m \in 1..Len(v) : \E j \in 1..(k + 1) : v[m] = q[j]
  <2>. TAKE m \in 1..Len(v)
  <2>1. CASE m \in 1..Len(u)
    BY <1>4, <1>8, <2>1 DEF Upto
  <2>2. CASE v[m] = x
    <3>1. k + 1 \in 1..(k + 1)
      OBVIOUS
    <3>. QED BY <1>1, <2>2, <3>1
  <2>. QED BY <1>8, <2>1, <2>2
<1>10. ASSUME NEW j \in 1..(k + 1) PROVE Stays(q[j], v)
  <2>1. CASE j \in 1..k
    <3>1. PICK m \in 1..Len(u) : Speaks(u[m], q[j])
      BY <2>1 DEF Upto, Stays
    <3>. QED BY <1>8, <3>1 DEF Stays
  <2>2. CASE j = k + 1
    BY <1>1, <1>6, <2>2 DEF BestKept
  <2>. QED BY <2>1, <2>2
<1>11. Upto(S, q, v, k + 1)
  BY <1>6, <1>9, <1>10 DEF Upto, BestKept
<1>. QED BY <1>1, <1>2, <1>11

(* Removing duplicates: of what was found, no two that share a cell, and   *)
(* one as sure in the place of everything else.                            *)
LEMMA DeduplicateHolds ==
  ASSUME NEW B, SentText(B), NEW S, Ranked(S), \A x \in S : Seen(x, B)
  PROVE  /\ Loose(Deduplicate(S), B) /\ \A x \in S : Stays(x, Deduplicate(S))
<1>1. PICK q : q = InOrder(S, ByConfidence)
  OBVIOUS
<1>2. InOrderOf(q, S, SureOrder(S))
  BY <1>1, SurestHolds
<1>3. PICK n \in Nat : n = Len(q)
  BY <1>2 DEF InOrderOf
<1>4. q \in Seq(S) /\ Range(q) = S /\ \A j \in 1..n : q[j] \in S
  BY <1>2, <1>3 DEF InOrderOf
<1>5. \A i, j \in 1..n : i < j => q[i].conf >= q[j].conf
  <2>. SUFFICES ASSUME NEW i \in 1..n, NEW j \in 1..n, i < j PROVE q[i].conf >= q[j].conf
    OBVIOUS
  <2>1. ByConfidence(q[i], q[j])
    BY <1>2, <1>3 DEF InOrderOf, Precedes, SureOrder
  <2>2. q[i].conf > q[j].conf \/ q[i].conf = q[j].conf
    BY <2>1 DEF ByConfidence
  <2>3. q[i].conf \in Nat /\ q[j].conf \in Nat
    BY <1>4 DEF Ranked
  <2>. QED BY <2>2, <2>3
<1>. DEFINE X == Seq(S)
            G == [w \in (1..n) \X X |-> IF KeepBest(w[2], q[w[1]]) \in X THEN KeepBest(w[2], q[w[1]]) ELSE w[2]]
<1>6. G \in [(1..n) \X X -> X]
  OBVIOUS
<1>7. \A k \in 1..n : \A t \in X : G[<<k, t>>] = IF KeepBest(t, q[k]) \in X THEN KeepBest(t, q[k]) ELSE t
  OBVIOUS
<1>. HIDE DEF G
<1>8. PICK f \in [0..n -> X] : f[0] = <<>> /\ \A k \in 1..n : f[k] = G[<<k, f[k - 1]>>]
  <2>1. <<>> \in X /\ n \in Nat
    OBVIOUS
  <2>2. StepsUp(X, <<>>, n, G)
    BY <1>6, <2>1, StepsExist
  <2>. QED BY <2>2 DEF StepsUp
<1>. DEFINE A == {k \in Nat : k <= n => /\ Upto(S, q, f[k], k)
                                        /\ \A j \in 1..k : f[j] = KeepBest(f[j - 1], q[j])}
<1>9. 0 \in A
  <2>1. Len(<<>>) = 0 /\ 1..0 = {} /\ <<>> \in Seq(S)
    OBVIOUS
  <2>2. Upto(S, q, <<>>, 0)
    BY <2>1 DEF Upto, AllApart
  <2>. QED BY <1>8, <2>1, <2>2
<1>10. ASSUME NEW k \in Nat, k \in A PROVE k + 1 \in A
  <2>. SUFFICES ASSUME k + 1 <= n PROVE Upto(S, q, f[k + 1], k + 1)
         /\ \A j \in 1..(k + 1) : f[j] = KeepBest(f[j - 1], q[j])
    OBVIOUS
  <2>1. k <= n /\ k + 1 \in 1..n /\ (k + 1) - 1 = k /\ k \in 0..n
    OBVIOUS
  <2>2. Upto(S, q, f[k], k) /\ \A j \in 1..k : f[j] = KeepBest(f[j - 1], q[j])
    BY <1>10, <2>1
  <2>3. PICK u \in X : u = f[k]
    BY <1>8, <2>1
  <2>4. Upto(S, q, u, k)
    BY <2>2, <2>3
  <2>. HIDE DEF A
  <2>5. Upto(S, q, KeepBest(u, q[k + 1]), k + 1)
    BY <1>4, <1>5, <2>4, BestStep
  <2>6. KeepBest(u, q[k + 1]) \in X
    BY <2>5 DEF Upto
  <2>7. f[k + 1] = G[<<k + 1, u>>]
    BY <1>8, <2>1, <2>3
  <2>8. f[k + 1] = KeepBest(u, q[k + 1])
    BY <1>7, <2>1, <2>6, <2>7
  <2>9. \A j \in 1..(k + 1) : j \in 1..k \/ (j = k + 1 /\ j - 1 = k)
    OBVIOUS
  <2>. QED BY <2>2, <2>3, <2>5, <2>8, <2>9
<1>. HIDE DEF A
<1>11. n \in A
  BY <1>9, <1>10, CountedUp
<1>12. Upto(S, q, f[n], n) /\ \A j \in 1..n : f[j] = KeepBest(f[j - 1], q[j])
  BY <1>11 DEF A
<1>. DEFINE Is(m) == m = [k \in 0..n |-> IF k = 0 THEN <<>> ELSE KeepBest(m[k - 1], q[k])]
<1>13. Is(f)
  <2>1. ASSUME NEW k \in 0..n PROVE f[k] = IF k = 0 THEN <<>> ELSE KeepBest(f[k - 1], q[k])
    <3>1. k = 0 \/ k \in 1..n
      OBVIOUS
    <3>. QED BY <1>8, <1>12, <3>1
  <2>2. f = [k \in 0..n |-> f[k]]
    OBVIOUS
  <2>. QED BY <2>1, <2>2
<1>14. PICK m : Is(m) /\ Deduplicate(S) = m[n]
  <2>1. Deduplicate(S) = (CHOOSE m : Is(m))[n]
    BY <1>1, <1>3 DEF Deduplicate
  <2>2. Is(CHOOSE m : Is(m))
    BY <1>13
  <2>. QED BY <2>1, <2>2
<1>15. m[0] = <<>> /\ \A k \in 1..n : m[k] = KeepBest(m[k - 1], q[k])
  <2>1. m = [k \in 0..n |-> IF k = 0 THEN <<>> ELSE KeepBest(m[k - 1], q[k])]
    BY <1>14
  <2>2. 0 \in 0..n /\ \A k \in 1..n : k \in 0..n /\ k # 0
    OBVIOUS
  <2>. QED BY <2>1, <2>2
<1>. HIDE DEF Is
<1>. DEFINE E == {k \in Nat : k <= n => m[k] = f[k]}
<1>16. 0 \in E
  BY <1>8, <1>15
<1>17. ASSUME NEW k \in Nat, k \in E PROVE k + 1 \in E
  <2>. SUFFICES ASSUME k + 1 <= n PROVE m[k + 1] = f[k + 1]
    OBVIOUS
  <2>1. k <= n /\ k + 1 \in 1..n /\ (k + 1) - 1 = k
    OBVIOUS
  <2>2. m[k] = f[k]
    BY <1>17, <2>1
  <2>. QED BY <1>12, <1>15, <2>1, <2>2
<1>. HIDE DEF E
<1>18. n \in E
  BY <1>16, <1>17, CountedUp
<1>19. PICK u : u = Deduplicate(S) /\ Upto(S, q, u, n)
  BY <1>12, <1>14, <1>18 DEF E
<1>20. u \in Seq(S) /\ AllApart(u) /\ \A x \in S : Stays(x, u)
  <2>1. \A x \in S : \E j \in 1..n : x = q[j]
    BY <1>3, <1>4, RangeFinite
  <2>. QED BY <1>19, <2>1 DEF Upto
<1>21. u \in Seq(Range(u)) /\ \A k \in 1..Len(u) : Seen(u[k], B)
  BY <1>20, RangeFinite
<1>. QED BY <1>19, <1>20, <1>21 DEF Loose

(* No entity is left that touches an example address.                      *)
OffExamples(T, x) == ~ \E i \in DOMAIN T : IsExampleEmail(T[i]) /\ T[i].form = "raw" /\ x.s <= i /\ i < x.e

LEMMA DropsPicked ==
  ASSUME NEW T, NEW ents, ents \in Seq(Range(ents))
  PROVE  DropExampleOverlaps(T, ents) = Picked(ents, {x \in Range(ents) : OffExamples(T, x)})
<1>1. \A i \in DOMAIN ents : ents[i] \in Range(ents)
  BY DEF Range
<1>2. \A i \in DOMAIN ents : ents[i] \in {x \in Range(ents) : OffExamples(T, x)} <=> OffExamples(T, ents[i])
  BY <1>1
<1>3. [i \in DOMAIN ents |-> IF OffExamples(T, ents[i]) THEN <<ents[i]>> ELSE <<>>]
        = [i \in DOMAIN ents |-> IF ents[i] \in {x \in Range(ents) : OffExamples(T, x)} THEN <<ents[i]>> ELSE <<>>]
  BY <1>2
<1>4. DropExampleOverlaps(T, ents) = FlattenSeq([i \in DOMAIN ents |-> IF OffExamples(T, ents[i]) THEN <<ents[i]>> ELSE <<>>])
  BY Zenon DEF DropExampleOverlaps, Only, OffExamples
<1>. QED BY <1>3, <1>4, Zenon DEF Picked

LEMMA PlainFits ==
  ASSUME NEW B, SentText(B), NEW x, Seen(x, B), OffExamples(B, x)
  PROVE  Fits(x, B)
<1>1. x.s \in Nat /\ x.s \in 1..Len(B) /\ (x.e = x.s + 1 \/ x.e = x.s + 2) /\ DOMAIN B = 1..Len(B)
  BY SeenSpan DEF SentText
<1>2. CASE x.e = x.s + 1 /\ B[x.s].kind = "pii" /\ B[x.s].form = "raw"
  <2>1. x.s <= x.s /\ x.s < x.e
    BY <1>1
  <2>2. ~IsExampleEmail(B[x.s])
    BY <1>1, <1>2, <2>1 DEF OffExamples
  <2>. QED BY <1>2, <2>2 DEF Seen, Fits, OneCell
<1>3. CASE TwoCaps(x, B)
  BY <1>3 DEF Seen, Fits
<1>. QED BY <1>2, <1>3 DEF Seen

LEMMA LoosePicked ==
  ASSUME NEW B, SentText(B), NEW ents, Loose(ents, B)
  PROVE  /\ Listed(DropExampleOverlaps(B, ents), B)
         /\ \A k \in 1..Len(ents) : OffExamples(B, ents[k]) => ents[k] \in Range(DropExampleOverlaps(B, ents))
<1>. DEFINE A == {x \in Range(ents) : OffExamples(B, x)}
<1>1. ents \in Seq(Range(ents)) /\ AllApart(ents) /\ (\A k \in 1..Len(ents) : Seen(ents[k], B))
        /\ Len(ents) \in Nat
  BY DEF Loose
<1>2. PICK q : q = DropExampleOverlaps(B, ents) /\ q = Picked(ents, A)
  BY <1>1, DropsPicked
<1>3. q \in Seq(Range(ents)) /\ Range(q) = Range(ents) \cap A
        /\ \E h : Rising(h, Len(q), Len(ents)) /\ \A k \in 1..Len(q) : q[k] = ents[h[k]]
  <2>. HIDE DEF A
  <2>. QED BY <1>1, <1>2, PickedHolds
<1>4. PICK h : Rising(h, Len(q), Len(ents)) /\ \A k \in 1..Len(q) : q[k] = ents[h[k]]
  BY <1>3
<1>5. \A i, j \in 1..Len(q) : i # j => h[i] \in 1..Len(ents) /\ h[j] \in 1..Len(ents) /\ h[i] # h[j]
  <2>. SUFFICES ASSUME NEW i \in 1..Len(q), NEW j \in 1..Len(q), i # j
                PROVE  h[i] \in 1..Len(ents) /\ h[j] \in 1..Len(ents) /\ h[i] # h[j]
    OBVIOUS
  <2>1. Len(q) \in Nat
    BY <1>3
  <2>2. h[i] \in 1..Len(ents) /\ h[j] \in 1..Len(ents) /\ (i < j => h[i] < h[j]) /\ (j < i => h[j] < h[i])
    BY <1>4 DEF Rising
  <2>. QED BY <1>1, <2>1, <2>2
<1>6. AllApart(q)
  BY <1>1, <1>4, <1>5 DEF AllApart
<1>7. \A k \in 1..Len(q) : q[k] \in Range(ents) /\ OffExamples(B, q[k])
  <2>1. \A k \in 1..Len(q) : q[k] \in Range(q)
    BY <1>3, RangeFinite
  <2>. QED BY <1>3, <2>1
<1>8. \A x \in Range(ents) : Seen(x, B)
  BY <1>1, RangeFinite
<1>9. \A k \in 1..Len(q) : Fits(q[k], B)
  BY <1>7, <1>8, PlainFits
<1>10. q \in Seq(Range(q))
  BY <1>3, RangeFinite
<1>11. \A k \in 1..Len(ents) : ents[k] \in Range(ents)
  BY <1>1, RangeFinite
<1>. QED BY <1>2, <1>3, <1>6, <1>9, <1>10, <1>11 DEF Listed

(* What speaks for a value of one cell is an entity of that cell.          *)
LEMMA SpeaksFor ==
  ASSUME NEW B, SentText(B), NEW x, Seen(x, B), x.e = x.s + 1, B[x.s].kind = "pii", NEW y, Seen(y, B),
         Speaks(y, x)
  PROVE  y.s = x.s /\ y.e = x.s + 1
<1>1. x.s \in Nat /\ y.s \in Nat /\ x.e \in Nat /\ y.e \in Nat
  BY SeenSpan
<1>2. CASE y = x
  BY <1>2
<1>3. CASE ~Apart(x, y)
  <2>1. x.s < y.e /\ y.s < x.s + 1
    BY <1>1, <1>3 DEF Apart
  <2>2. CASE y.e = y.s + 1
    BY <1>1, <2>1, <2>2
  <2>3. CASE TwoCaps(y, B)
    <3>1. y.e = y.s + 2 /\ B[y.s].kind = "cap" /\ B[y.s + 1].kind = "cap"
      BY <2>3 DEF TwoCaps
    <3>2. x.s = y.s \/ x.s = y.s + 1
      BY <1>1, <2>1, <3>1
    <3>. QED BY <3>1, <3>2
  <2>. QED BY <2>2, <2>3 DEF Seen
<1>. QED BY <1>2, <1>3 DEF Speaks

Telling(i, B, bad) == /\ i \in 1..Len(B) /\ B[i].kind = "pii" /\ B[i].form = "raw" /\ ~IsExampleEmail(B[i])
                      /\ B[i].type \in Structured /\ B[i].of \notin bad

Told(ents, B, bad) ==
  \A i : Telling(i, B, bad) => \E k \in 1..Len(ents) : ents[k].conf >= 900 /\ B[ents[k].s] = B[i]
    /\ ents[k].e = ents[k].s + 1

LEMMA DetectedHolds ==
  ASSUME NEW B, SentText(B), NEW said, NEW bad, NEW on, on \subseteq DOMAIN Rank,
         NEW ents, ents = ByPosition(DropExampleOverlaps(B, Deduplicate(RunDetectors(B, said, bad, on))))
  PROVE  Listed(ents, B) /\ ("regex" \in on => Told(ents, B, bad))
<1>1. PICK S : S = RunDetectors(B, said, bad, on)
  OBVIOUS
<1>2. PICK u : u = Deduplicate(S)
  OBVIOUS
<1>3. PICK q : q = DropExampleOverlaps(B, u)
  OBVIOUS
<1>4. Ranked(S) /\ (\A x \in S : Seen(x, B)) /\ ("regex" \in on => RegexDetect(B, bad) \subseteq S)
  BY <1>1, AllReport
<1>5. Loose(u, B) /\ \A x \in S : Stays(x, u)
  BY <1>2, <1>4, DeduplicateHolds
<1>6. Listed(q, B) /\ \A k \in 1..Len(u) : OffExamples(B, u[k]) => u[k] \in Range(q)
  BY <1>3, <1>5, LoosePicked
<1>7. B \in Seq(Range(B)) /\ DOMAIN B = 1..Len(B)
  BY DEF SentText
<1>8. InOrderOf(ents, Range(q), LeftOrder(Range(q)))
  <2>1. Spans(q, B)
    BY <1>6, <1>7, ListedSpans
  <2>2. Starts(Range(q))
    BY <1>7, <2>1, SpansStart
  <2>. QED BY <1>1, <1>2, <1>3, <2>2, ByPositionHolds
<1>9. Listed(ents, B) /\ Range(ents) = Range(q)
  BY <1>6, <1>7, <1>8, SortedListed
<1>10. ASSUME "regex" \in on, NEW i, Telling(i, B, bad)
       PROVE  \E k \in 1..Len(ents) : ents[k].conf >= 900 /\ B[ents[k].s] = B[i] /\ ents[k].e = ents[k].s + 1
  <2>1. PICK x \in RegexDetect(B, bad) : B[x.s] = B[i] /\ x.e = x.s + 1 /\ x.conf >= 900
    BY <1>10, RegexReports DEF Telling
  <2>2. Seen(x, B) /\ Stays(x, u)
    BY <1>4, <1>5, <1>10
  <2>3. PICK k \in 1..Len(u) : Speaks(u[k], x)
    BY <2>2 DEF Stays
  <2>4. PICK y : y = u[k]
    OBVIOUS
  <2>5. Seen(y, B) /\ Speaks(y, x)
    BY <1>5, <2>3, <2>4 DEF Loose
  <2>6. B[x.s].kind = "pii" /\ ~IsExampleEmail(B[x.s])
    BY <1>10, <2>1 DEF Telling
  <2>7. y.s = x.s /\ y.e = x.s + 1
    BY <2>1, <2>2, <2>5, <2>6, SpeaksFor
  <2>8. x.s \in Nat /\ x.conf \in 0..1000 /\ y.conf \in 0..1000
    BY <2>2, <2>5, SeenSpan
  <2>9. y.conf >= 900
    <3>1. y.conf >= x.conf
      <4>1. y = x \/ y.conf >= x.conf
        BY <2>5 DEF Speaks
      <4>2. PICK a \in 0..1000 : a = x.conf
        BY <2>8, Zenon
      <4>3. a >= a
        OBVIOUS
      <4>. QED BY <4>1, <4>2, <4>3, Zenon
    <3>2. PICK a \in 0..1000, b \in 0..1000 : a = x.conf /\ b = y.conf
      BY <2>8, ZenonT(60)
    <3>3. a >= 900 /\ b >= a
      BY <2>1, <3>1, <3>2
    <3>4. b >= 900
      BY <3>3
    <3>. QED BY <3>2, <3>4
  <2>10. OffExamples(B, y)
    <3>. SUFFICES ASSUME NEW j \in DOMAIN B, IsExampleEmail(B[j]), y.s <= j, j < y.e PROVE FALSE
      BY DEF OffExamples
    <3>1. j = x.s
      BY <1>7, <2>7, <2>8
    <3>. QED BY <2>6, <3>1
  <2>11. y \in Range(ents)
    BY <1>6, <1>9, <2>4, <2>10
  <2>12. PICK m \in 1..Len(ents) : y = ents[m]
    <3>1. ents \in Seq(Range(ents))
      BY <1>9 DEF Listed
    <3>. QED BY <2>11, <3>1, RangeFinite
  <2>. QED BY <2>1, <2>7, <2>9, <2>12
<1>. QED BY <1>9, <1>10 DEF Told

LEMMA ToldSure ==
  ASSUME NEW B, SentText(B), NEW ents, Told(ents, B, BadSums)
  PROVE  Sure(ents, B, 900)
<1>. SUFFICES ASSUME NEW c \in Counted(B)
              PROVE  \E k \in 1..Len(ents) : ents[k].conf >= 900 /\ B[ents[k].s] = c
                       /\ ents[k].e = ents[k].s + 1
  BY DEF Sure
<1>1. c \in Range(B) /\ c.kind = "pii" /\ ~IsExampleEmail(c) /\ c.type \in Structured /\ c.form = "raw"
        /\ c.of \notin BadSums
  BY DEF Counted, Values
<1>2. PICK i \in 1..Len(B) : c = B[i]
  <2>1. B \in Seq(Range(B))
    BY DEF SentText
  <2>. QED BY <1>1, <2>1, RangeFinite
<1>3. Telling(i, B, BadSums)
  BY <1>1, <1>2 DEF Telling
<1>. QED BY <1>2, <1>3 DEF Told

LEMMA EnabledSome ==
  /\ Enabled(mode) \subseteq DOMAIN Rank /\ "regex" \in Enabled(mode)
BY DEF Enabled, Rank

LEMMA DetectInv ==
  PipeInv /\ (\E failed \in SUBSET DOMAIN Rank : DetectEntities(failed)) => PipeInv'
<1>. SUFFICES ASSUME PipeInv, NEW failed \in SUBSET DOMAIN Rank, DetectEntities(failed) PROVE PipeInv'
  OBVIOUS
<1>1. stage = "detection" /\ stage' = "scoring"
        /\ UNCHANGED <<call, mode, out, raised, calls, answered, lost, repaired>>
        /\ blind' = ("regex" \in failed)
  BY AfterIs DEF DetectEntities, Advance
<1>2. /\ PipeTyped /\ SentText(BaseText) /\ AtText /\ Begun
      /\ ctx = [text |-> ctx.text, ents |-> ctx.ents, map |-> ctx.map]
  BY InvParts
<1>3. ctx.text = BaseText /\ "masking" \notin raised /\ ~repaired /\ lost = {}
  BY <1>1, <1>2 DEF AtText, Begun
<1>4. PICK ents : ents = Detected(Enabled(mode) \ failed)
  OBVIOUS
<1>5. ctx' = [text |-> ctx.text, ents |-> ents, map |-> ctx.map]
  <2>1. ctx' = [ctx EXCEPT !.ents = ents]
    BY <1>4 DEF DetectEntities
  <2>. QED BY <1>2, <2>1
<1>6. Listed(ents, BaseText) /\ ("regex" \notin failed => Sure(ents, BaseText, 900))
  <2>1. PICK B, on : B = BaseText /\ on = Enabled(mode) \ failed
    OBVIOUS
  <2>2. SentText(B) /\ on \subseteq DOMAIN Rank /\ ("regex" \notin failed => "regex" \in on)
    BY <1>2, <2>1, EnabledSome
  <2>3. ents = ByPosition(DropExampleOverlaps(B, Deduplicate(RunDetectors(B, call.said, BadSums, on))))
    BY <1>3, <1>4, <2>1 DEF Detected
  <2>4. Listed(ents, B) /\ ("regex" \in on => Told(ents, B, BadSums))
    BY <2>2, <2>3, DetectedHolds
  <2>. QED BY <2>1, <2>2, <2>4, ToldSure
<1>7. Goes("scoring", ents)
  <2>1. raised \subseteq answered /\ answered \subseteq Stages /\ repaired \in BOOLEAN /\ blind \in BOOLEAN
    BY <1>2 DEF PipeTyped
  <2>. QED BY <1>1, <1>5, <2>1, AfterIs DEF Goes
<1>8. PipeTyped' /\ BaseText' = BaseText /\ ctx'.ents = ents /\ ctx'.text = ctx.text
  BY <1>1, <1>7, GoesTyped
<1>9. AtText'
  BY <1>1, <1>3, <1>8 DEF AtText
<1>10. AtScoring'
  BY <1>1, <1>3, <1>6, <1>8 DEF AtScoring, Unsearched
<1>11. Begun' /\ AtMasking' /\ AtEnd' /\ AtRest'
  BY <1>1 DEF Begun, AtMasking, AtEnd, AtRest, Unsearched
<1>12. Listed(ctx.ents, BaseText)'
  BY <1>6, <1>8
<1>. QED BY <1>8, <1>9, <1>10, <1>11, <1>12 DEF PipeInv

-----------------------------------------------------------------------------
(* The invariant is kept                                                   *)

LEMMA PipeStep == PipeInv /\ [Next]_vars => PipeInv'
<1>. SUFFICES ASSUME PipeInv, [Next]_vars PROVE PipeInv'
  OBVIOUS
<1>1. CASE \E T \in Inputs, said \in Sayings, m \in Overrides : Process(T, said, m)
  BY <1>1, ProcessInv
<1>2. CASE RejectEmpty
  BY <1>2, RejectInv
<1>3. CASE NormalizeText
  BY <1>3, NormalizeInv
<1>4. CASE \E failed \in SUBSET DOMAIN Rank : DetectEntities(failed)
  BY <1>4, DetectInv
<1>5. CASE ScoreEntities
  BY <1>5, ScoreInv
<1>6. CASE ResolveEntities
  BY <1>6, ResolveInv
<1>7. CASE MaskEntities
  BY <1>7, MaskInv
<1>8. CASE CheckIntegrity
  BY <1>8, IntegrityInv
<1>9. CASE Verify
  BY <1>9, VerifyInv
<1>10. CASE Raise
  BY <1>10, RaiseInv
<1>11. CASE Finish
  BY <1>11, FinishInv
<1>12. CASE \E m \in Overrides : Configure(m)
  BY <1>12, ConfigureInv
<1>13. CASE UNCHANGED vars
  BY <1>13, StutterInv
<1>. QED BY <1>1, <1>2, <1>3, <1>4, <1>5, <1>6, <1>7, <1>8, <1>9, <1>10, <1>11, <1>12, <1>13 DEF Next

(* At every stage of every call the entities are spans of the base text    *)
(* that share no cell, every structured value that counts has one that is  *)
(* sure enough for what is still to come, and the text is the base, its    *)
(* masked form or the repair of that.                                      *)
THEOREM PipeAlways == Spec => []PipeInv
BY InitInv, PipeStep, PTL DEF Spec

(* Whatever a text holds, whichever detectors fail and stages raise, and    *)
(* however scores are moved: a structured value with a valid checksum is    *)
(* masked where it first occurs if the regular expressions answered and     *)
(* neither detection nor masking raised; spans to be masked share no cell;  *)
(* and what scoring dropped stays readable, unless nothing passed the floor *)
(* or the repair of the text took it.                                       *)
THEOREM MaskingHolds == Spec => []ValuesAreMasked
<1>1. PipeInv => ValuesAreMasked
  BY InvTyped, InvMasksStructured, InvSpansDisjoint, InvReads DEF ValuesAreMasked
<1>. QED BY <1>1, PipeAlways, PTL

(* The masking map of a successful call undoes it, unless two values share *)
(* a label, a fallback answered for masking, or labels were rewritten.     *)
THEOREM UnmaskingHolds == Spec => []UnmaskRestores
BY InvUnmasks, PipeAlways, PTL

(* The refinement                                                          *)
Renders(new, T) ==
  /\ Only(new, Untouched) = Only(T, Untouched)
  /\ \A c \in {x \in Range(new) : x.kind \in {"pii", "cap"}} : CountOf(c, new) <= CountOf(c, T)

LEMMA RendersMasked ==
  ASSUME NEW new, NEW T, Renders(new, T)
  PROVE  Abstract!MaskedFrom(new, T)
<1>1. \A u : Abstract!FlattenSeq(u) = FlattenSeq(u)
  BY Zenon DEF Abstract!FlattenSeq, FlattenSeq
<1>2. \A S : Abstract!Cardinality(S) = Cardinality(S)
  BY Zenon DEF Abstract!Cardinality, Cardinality
<1>3. \A c : Abstract!Around(c) <=> Untouched(c)
  BY DEF Abstract!Around, Untouched, Abstract!Cue, Cue, Abstract!IsExampleEmail, IsExampleEmail
<1>4. ASSUME NEW t PROVE Abstract!Only(t, Abstract!Around) = Only(t, Untouched)
  <2>1. [i \in DOMAIN t |-> IF Abstract!Around(t[i]) THEN <<t[i]>> ELSE <<>>]
          = [i \in DOMAIN t |-> IF Untouched(t[i]) THEN <<t[i]>> ELSE <<>>]
    BY <1>3
  <2>. QED BY <1>1, <2>1, Zenon DEF Abstract!Only, Only
<1>5. \A c, t : Abstract!Count2(c, t) = CountOf(c, t)
  BY <1>2, Zenon DEF Abstract!Count2, CountOf
<1>6. Abstract!Range(new) = Range(new)
  BY DEF Abstract!Range, Range
<1>. QED BY <1>4, <1>5, <1>6 DEF Renders, Abstract!MaskedFrom

LEMMA SameNormal == \A T : Abstract!Normalize(T) = Normalize(T)
BY DEF Abstract!Normalize, Normalize, Abstract!Standard, Standard

LEMMA MadeRenders ==
  ASSUME PipeInv, stage = "return"
  PROVE  Abstract!MaskedFrom(ctx.text, call.text)
           \/ Abstract!MaskedFrom(ctx.text, Abstract!Normalize(call.text))
<1>1. SentText(BaseText) /\ AllMade(ctx.text, ctx.ents, ctx.map, BaseText)
  BY InvParts DEF AtEnd
<1>2. PICK B, ents, M, T : B = BaseText /\ ents = ctx.ents /\ M = Made(ents, B) /\ T = ctx.text
  OBVIOUS
<1>3. Listed(ents, B) /\ SentText(B) /\ (M = B \/ M = ApplyMasks(B, ents)) /\ (T = M \/ T = Repair(M))
  BY <1>1, <1>2 DEF AllMade, Made
<1>4. Only(T, Untouched) = Only(B, Untouched)
  BY <1>3, MadeAround
<1>5. \A c \in {x \in Range(T) : x.kind \in {"pii", "cap"}} : CountOf(c, T) <= CountOf(c, B)
  BY <1>3, MadeCounts
<1>6. Abstract!MaskedFrom(T, B)
  BY <1>4, <1>5, RendersMasked DEF Renders
<1>7. B = call.text \/ B = Abstract!Normalize(call.text)
  BY <1>2, SameNormal DEF BaseText
<1>. QED BY <1>2, <1>6, <1>7

(* What a caller sees of the pipeline, and a step it does not see.         *)
CallerSees  == <<stage # "idle", call.text, [ok |-> out.ok, text |-> out.text]>>

Unseen == /\ (stage' # "idle") <=> (stage # "idle")
          /\ call'.text = call.text /\ out' = out

LEMMA HiddenStutters == Unseen => UNCHANGED CallerSees
BY DEF Unseen, CallerSees

LEMMA WorksHidden ==
  ASSUME PipeInv,
         \/ NormalizeText \/ (\E failed \in SUBSET DOMAIN Rank : DetectEntities(failed))
         \/ ScoreEntities \/ ResolveEntities \/ MaskEntities \/ Raise
  PROVE  Unseen
<1>1. ASSUME NEW s \in Stages PROVE s # "idle" /\ After(s) # "idle"
  BY AfterIs
<1>2. stage \in Stages /\ stage' = After(stage) /\ UNCHANGED <<call, out>>
  BY AfterIs DEF NormalizeText, DetectEntities, ScoreEntities, ResolveEntities, MaskEntities, Raise, Advance
<1>. QED BY <1>1, <1>2 DEF Unseen

(* A step that gives the call up answers with the text that was sent.      *)
LEMMA FailAnswers ==
  ASSUME stage # "idle", Fail
  PROVE  Abstract!Answer([ok |-> out.ok, text |-> out.text]'.ok, [ok |-> out.ok, text |-> out.text]'.text)
<1>1. stage' = "idle" /\ out'.ok = FALSE /\ out'.text = call.text /\ call' = call
  BY DEF Fail
<1>. QED BY <1>1 DEF Abstract!Answer

LEMMA AdvanceHidden ==
  ASSUME stage \in Stages, Advance
  PROVE  Unseen
<1>1. stage # "idle" /\ After(stage) # "idle"
  BY AfterIs
<1>. QED BY <1>1 DEF Advance, Unseen

LEMMA FinishAnswers ==
  ASSUME PipeInv, Finish
  PROVE  Abstract!Answer([ok |-> out.ok, text |-> out.text]'.ok, [ok |-> out.ok, text |-> out.text]'.text)
<1>1. stage = "return" /\ stage' = "idle" /\ out'.ok = TRUE /\ out'.text = ctx.text /\ call' = call
  BY DEF Finish
<1>2. Abstract!MaskedFrom(ctx.text, call.text) \/ Abstract!MaskedFrom(ctx.text, Abstract!Normalize(call.text))
  BY <1>1, MadeRenders
<1>. QED BY <1>1, <1>2 DEF Abstract!Answer

LEMMA PipeRefines == PipeInv /\ [Next]_vars => [Abstract!Next]_CallerSees
<1>. SUFFICES ASSUME PipeInv, [Next]_vars PROVE [Abstract!Next]_CallerSees
  OBVIOUS
<1>1. ASSUME NEW T \in Inputs, NEW said \in Sayings, NEW m \in Overrides, Process(T, said, m)
      PROVE  Abstract!Next
  <2>1. stage = "idle" /\ stage' = "normalization" /\ call'.text = T /\ out' = out
    BY <1>1 DEF Process, Order
  <2>2. Abstract!Send(T)
    BY <2>1 DEF Abstract!Send
  <2>. QED BY <2>2 DEF Abstract!Next
<1>2. CASE RejectEmpty
  <2>1. stage = "idle" /\ stage' = "idle" /\ call'.text = <<>> /\ out'.ok = FALSE /\ out'.text = <<>>
    BY <1>2 DEF RejectEmpty, NoResult
  <2>2. Abstract!Refuse
    BY <2>1 DEF Abstract!Refuse
  <2>. QED BY <2>2 DEF Abstract!Next
<1>3. CASE \/ NormalizeText \/ (\E failed \in SUBSET DOMAIN Rank : DetectEntities(failed))
           \/ ScoreEntities \/ ResolveEntities \/ MaskEntities \/ Raise
  BY <1>3, WorksHidden, HiddenStutters
<1>4. CASE CheckIntegrity \/ Verify
  <2>1. stage \in Stages /\ stage # "idle" /\ (Fail \/ Advance)
    BY <1>4, AfterIs DEF CheckIntegrity, Verify
  <2>2. CASE Fail
    BY <2>1, <2>2, FailAnswers DEF Abstract!Next
  <2>3. CASE Advance
    BY <2>1, <2>3, AdvanceHidden, HiddenStutters
  <2>. QED BY <2>1, <2>2, <2>3
<1>5. CASE Finish
  BY <1>5, FinishAnswers DEF Abstract!Next
<1>6. CASE \E m \in Overrides : Configure(m)
  <2>1. Unseen
    BY <1>6 DEF Configure, Unseen
  <2>. QED BY <2>1, HiddenStutters
<1>7. CASE UNCHANGED vars
  <2>1. Unseen
    BY <1>7 DEF vars, Unseen
  <2>. QED BY <2>1, HiddenStutters
<1>. QED BY <1>1, <1>2, <1>3, <1>4, <1>5, <1>6, <1>7 DEF Next

(* The pipeline implements the abstract call, step by step: its stages are *)
(* invisible, and an answer is the text sent, with the call marked as      *)
(* failed, or that text with nothing lost but values and nothing new but   *)
(* labels.                                                                 *)
THEOREM PipelineImplements == Spec => ImplementsMaskingCall
<1>1. Init => Abstract!Init
  BY DEF Init, NoResult, Abstract!Init
<1>2. PipeInv /\ [Next]_vars
        => [Abstract!Next]_<<stage # "idle", call.text, [ok |-> out.ok, text |-> out.text]>>
  BY PipeRefines DEF CallerSees
<1>. QED BY <1>1, <1>2, PipeAlways, PTL DEF Spec, ImplementsMaskingCall, Abstract!Spec
================================================================================
