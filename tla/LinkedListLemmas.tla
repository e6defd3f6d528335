-------------------------- MODULE LinkedListLemmas --------------------------
(***************************************************************************)
(* The lists of badvpn (LinkedList1 and the lists of BPending.c) in which  *)
(* nothing is linked twice, as sequences: what is in the list, and what is *)
(* in front of something, after each operation.                            *)
(***************************************************************************)
EXTENDS SequencesExt, SequenceTheorems, TLAPS

\* What comes before e in the list s.
FrontOf(s, e) == {s[i] : i \in {k \in DOMAIN s : \E l \in DOMAIN s : k < l /\ s[l] = e}}

LEMMA RemoveAtProperties ==
  ASSUME NEW S, NEW s \in Seq(S), NEW p \in 1..Len(s)
  PROVE  /\ RemoveAt(s, p) \in Seq(S) /\ Len(RemoveAt(s, p)) = Len(s) - 1
         /\ \A i \in 1..(Len(s) - 1) : RemoveAt(s, p)[i] = IF i < p THEN s[i] ELSE s[i + 1]
<1> DEFINE a == SubSeq(s, 1, p - 1)
           b == SubSeq(s, p + 1, Len(s))
<1>1. /\ a \in Seq(S) /\ Len(a) = p - 1 /\ Len(s) \in Nat
      /\ \A i \in 1..(p - 1) : a[i] = s[i]
  OBVIOUS
<1>2. /\ b \in Seq(S) /\ Len(b) = Len(s) - p
      /\ \A i \in 1..(Len(s) - p) : b[i] = s[p + i]
  <2>1. Len(s) \in Nat /\ p + 1 \in 1..(Len(s) + 1) /\ Len(s) \in p..Len(s)
    OBVIOUS
  <2>2. b \in Seq(S)
    BY <2>1
  <2>3. Len(b) = Len(s) - p
    BY <2>1
  <2>4. ASSUME NEW i \in 1..(Len(s) - p) PROVE b[i] = s[p + i]
    <3>1. i \in 1..Len(b)
      BY <2>3
    <3> QED BY <2>1, <3>1
  <2> QED BY <2>2, <2>3, <2>4
<1> HIDE DEF a, b
<1>3. /\ a \o b \in Seq(S) /\ Len(a \o b) = Len(s) - 1
      /\ \A i \in 1..(Len(s) - 1) : (a \o b)[i] = IF i <= p - 1 THEN a[i] ELSE b[i - (p - 1)]
  <2>1. Len(a) + Len(b) = Len(s) - 1 /\ Len(a) = p - 1
    BY <1>1, <1>2
  <2>2. a \o b \in Seq(S) /\ Len(a \o b) = Len(a) + Len(b)
    BY <1>1, <1>2, ConcatProperties, Zenon
  <2>3. \A i \in 1..(Len(a) + Len(b)) : (a \o b)[i] = IF i <= Len(a) THEN a[i] ELSE b[i - Len(a)]
    BY <1>1, <1>2, ConcatProperties
  <2> QED BY <2>1, <2>2, <2>3
<1>4. \A i \in 1..(Len(s) - 1) : (a \o b)[i] = IF i < p THEN s[i] ELSE s[i + 1]
  <2> SUFFICES ASSUME NEW i \in 1..(Len(s) - 1)
               PROVE  (a \o b)[i] = IF i < p THEN s[i] ELSE s[i + 1]
    BY ZenonT(40)
  <2>1. CASE i < p
    BY <1>1, <1>3, <2>1
  <2>2. CASE ~(i < p)
    <3>1. i - (p - 1) \in 1..(Len(s) - p) /\ p + (i - (p - 1)) = i + 1 /\ ~(i <= p - 1)
      BY <1>1, <2>2
    <3> QED BY <1>2, <1>3, <2>2, <3>1
  <2> QED BY <2>1, <2>2, Zenon
<1>5. RemoveAt(s, p) = a \o b
  BY DEF RemoveAt, a, b
<1> QED BY <1>3, <1>4, <1>5

\* LinkedList1_Remove of something that may be in the list.
LEMMA RemoveOne ==
  ASSUME NEW S, NEW s \in Seq(S), IsInjective(s), NEW e, NEW r, r = RemoveFirst(s, e)
  PROVE  /\ r \in Seq(S) /\ IsInjective(r)
         /\ Range(r) = Range(s) \ {e}
         /\ \A x : x # e => FrontOf(r, x) = FrontOf(s, x) \ {e}
<1>0. DOMAIN s = 1..Len(s) /\ Len(s) \in Nat
  OBVIOUS
<1>1. CASE e \notin Range(s)
  <2>1. r = s
    BY <1>0, <1>1 DEF RemoveFirst, Range
  <2>2. \A x : e \notin FrontOf(s, x)
    BY <1>1 DEF FrontOf, Range
  <2> QED BY <1>1, <2>1, <2>2
<1>2. CASE e \in Range(s)
  <2>1. PICK p \in 1..Len(s) : s[p] = e
    BY <1>0, <1>2 DEF Range
  <2>2. r = RemoveAt(s, p)
    <3>1. {k \in 1..Len(s) : s[k] = e} = {p}
      BY <1>0, <2>1 DEF IsInjective
    <3>2. Min({p}) = p
      BY DEF Min
    <3> QED BY <2>1, <3>1, <3>2, Zenon DEF RemoveFirst, SelectInSeq
  <2>3. /\ r \in Seq(S) /\ Len(r) = Len(s) - 1 /\ DOMAIN r = 1..(Len(s) - 1)
        /\ \A i \in 1..(Len(s) - 1) : r[i] = IF i < p THEN s[i] ELSE s[i + 1]
    <3>1. r \in Seq(S) /\ Len(r) = Len(s) - 1
      BY <2>2, RemoveAtProperties
    <3>2. \A i \in 1..(Len(s) - 1) : r[i] = IF i < p THEN s[i] ELSE s[i + 1]
      BY <2>2, RemoveAtProperties, ZenonT(40)
    <3> QED BY <3>1, <3>2
  <2> DEFINE Old(i) == IF i < p THEN i ELSE i + 1
             New(k) == IF k < p THEN k ELSE k - 1
  <2>4. \A i \in DOMAIN r : Old(i) \in DOMAIN s /\ Old(i) # p /\ r[i] = s[Old(i)] /\ New(Old(i)) = i
    BY <1>0, <2>3
  <2>5. \A k \in DOMAIN s : k # p => New(k) \in DOMAIN r /\ r[New(k)] = s[k] /\ Old(New(k)) = k
    BY <1>0, <2>3
  <2>6. /\ \A i, j \in DOMAIN r : i < j => Old(i) < Old(j)
        /\ \A i, j \in DOMAIN s : i # p /\ j # p /\ i < j => New(i) < New(j)
    BY <1>0, <2>3
  <2> HIDE DEF Old, New
  <2>7. IsInjective(r)
    BY <2>4 DEF IsInjective
  <2>8. \A k \in DOMAIN s : s[k] = e <=> k = p
    BY <1>0, <2>1 DEF IsInjective
  <2>9. Range(r) = Range(s) \ {e}
    <3>1. \A i \in DOMAIN r : r[i] \in Range(s) \ {e}
      BY <2>4, <2>8 DEF Range
    <3>2. \A k \in DOMAIN s : s[k] # e => s[k] \in Range(r)
      BY <2>5, <2>8 DEF Range
    <3> QED BY <3>1, <3>2 DEF Range
  <2>10. ASSUME NEW x, x # e PROVE FrontOf(r, x) = FrontOf(s, x) \ {e}
    <3>1. ASSUME NEW i \in DOMAIN r, NEW l \in DOMAIN r, i < l, r[l] = x
          PROVE  r[i] \in FrontOf(s, x) /\ r[i] # e
      <4>1. /\ Old(i) \in DOMAIN s /\ Old(l) \in DOMAIN s /\ Old(i) < Old(l)
            /\ s[Old(l)] = x /\ r[i] = s[Old(i)] /\ Old(i) # p
        BY <2>4, <2>6, <3>1
      <4> QED BY <2>8, <4>1 DEF FrontOf
    <3>2. ASSUME NEW i \in DOMAIN s, NEW l \in DOMAIN s, i < l, s[l] = x, s[i] # e
          PROVE  s[i] \in FrontOf(r, x)
      <4>1. i # p /\ l # p
        BY <2>8, <2>10, <3>2
      <4>2. New(i) \in DOMAIN r /\ New(l) \in DOMAIN r /\ New(i) < New(l)
            /\ r[New(l)] = x /\ r[New(i)] = s[i]
        BY <2>5, <2>6, <3>2, <4>1
      <4> QED BY <4>2 DEF FrontOf
    <3> QED BY <3>1, <3>2 DEF FrontOf
  <2> QED BY <2>3, <2>7, <2>9, <2>10
<1> QED BY <1>1, <1>2

\* LinkedList1_Prepend of something that is not in the list.
LEMMA PutFirst ==
  ASSUME NEW S, NEW s \in Seq(S), IsInjective(s), NEW e \in S, e \notin Range(s),
         NEW r, r = Cons(e, s)
  PROVE  /\ r \in Seq(S) /\ IsInjective(r)
         /\ Range(r) = Range(s) \cup {e}
         /\ FrontOf(r, e) = {}
         /\ \A x \in Range(s) : FrontOf(r, x) = FrontOf(s, x) \cup {e}
<1>0. DOMAIN s = 1..Len(s) /\ Len(s) \in Nat
  OBVIOUS
<1>1. /\ r \in Seq(S) /\ Len(r) = Len(s) + 1 /\ DOMAIN r = 1..(Len(s) + 1)
      /\ \A i \in 1..(Len(s) + 1) : r[i] = IF i = 1 THEN e ELSE s[i - 1]
  <2>1. <<e>> \in Seq(S) /\ Len(<<e>>) = 1 /\ <<e>>[1] = e /\ r = <<e>> \o s
    BY DEF Cons
  <2>2. r \in Seq(S) /\ Len(r) = 1 + Len(s)
    BY <2>1, ConcatProperties
  <2>3. \A i \in 1..(1 + Len(s)) : r[i] = IF i <= 1 THEN <<e>>[i] ELSE s[i - 1]
    BY <2>1, ConcatProperties
  <2> QED BY <1>0, <2>1, <2>2, <2>3
<1>2. \A i \in DOMAIN s : i + 1 \in DOMAIN r /\ r[i + 1] = s[i] /\ s[i] # e
  BY <1>0, <1>1 DEF Range
<1>3. 1 \in DOMAIN r /\ r[1] = e
  BY <1>0, <1>1
<1>4. \A i \in DOMAIN r : i # 1 => i - 1 \in DOMAIN s /\ r[i] = s[i - 1] /\ i > 1
  BY <1>0, <1>1
<1>5. DOMAIN r \subseteq Nat \ {0} /\ DOMAIN s \subseteq Nat \ {0}
  BY <1>0, <1>1
<1>6. IsInjective(r)
  <2> SUFFICES ASSUME NEW i \in DOMAIN r, NEW k \in DOMAIN r, r[i] = r[k] PROVE i = k
    BY DEF IsInjective
  <2>1. CASE i = 1 \/ k = 1
    <3>1. \A l \in DOMAIN r : r[l] = e => l = 1
      BY <1>2, <1>4
    <3> QED BY <2>1, <3>1, <1>3
  <2>2. CASE i # 1 /\ k # 1
    <3>1. i - 1 = k - 1
      BY <2>2, <1>4 DEF IsInjective
    <3> QED BY <3>1, <1>5
  <2> QED BY <2>1, <2>2
<1>7. Range(r) = Range(s) \cup {e}
  <2>1. \A i \in DOMAIN r : r[i] \in Range(s) \cup {e}
    BY <1>3, <1>4 DEF Range
  <2>2. \A i \in DOMAIN s : s[i] \in Range(r)
    BY <1>2 DEF Range
  <2>3. e \in Range(r)
    BY <1>3 DEF Range
  <2> QED BY <2>1, <2>2, <2>3 DEF Range
<1>8. FrontOf(r, e) = {}
  <2>1. \A l \in DOMAIN r : r[l] = e => l = 1
    BY <1>3, <1>6 DEF IsInjective
  <2>2. ~ \E i, l \in DOMAIN r : i < l /\ r[l] = e
    BY <1>5, <2>1
  <2> QED BY <2>2 DEF FrontOf
<1>9. ASSUME NEW x \in Range(s) PROVE FrontOf(r, x) = FrontOf(s, x) \cup {e}
  <2>0. PICK n \in DOMAIN s : s[n] = x
    BY DEF Range
  <2>1. ASSUME NEW i \in DOMAIN r, NEW l \in DOMAIN r, i < l, r[l] = x
        PROVE  r[i] \in FrontOf(s, x) \cup {e}
    <3>1. CASE i = 1
      BY <3>1, <1>3
    <3>2. CASE i # 1
      <4>1. /\ i - 1 \in DOMAIN s /\ l - 1 \in DOMAIN s /\ i - 1 < l - 1
            /\ r[i] = s[i - 1] /\ s[l - 1] = x
        BY <1>4, <1>5, <2>1, <3>2
      <4> QED BY <4>1 DEF FrontOf
    <3> QED BY <3>1, <3>2
  <2>2. ASSUME NEW i \in DOMAIN s, NEW l \in DOMAIN s, i < l, s[l] = x
        PROVE  s[i] \in FrontOf(r, x)
    <3>1. /\ i + 1 \in DOMAIN r /\ l + 1 \in DOMAIN r /\ i + 1 < l + 1
          /\ r[i + 1] = s[i] /\ r[l + 1] = x
      BY <1>2, <1>5, <2>2
    <3> QED BY <3>1 DEF FrontOf
  <2>3. e \in FrontOf(r, x)
    <3>1. n + 1 \in DOMAIN r /\ 1 < n + 1 /\ r[n + 1] = x
      BY <1>2, <1>5, <2>0
    <3> QED BY <1>3, <3>1 DEF FrontOf
  <2>4. FrontOf(r, x) \subseteq FrontOf(s, x) \cup {e}
    BY <2>1 DEF FrontOf
  <2>5. FrontOf(s, x) \subseteq FrontOf(r, x)
    BY <2>2 DEF FrontOf
  <2> QED BY <2>3, <2>4, <2>5
<1> QED BY <1>1, <1>6, <1>7, <1>8, <1>9

\* The first of a list is taken away.
LEMMA TakeFirst ==
  ASSUME NEW S, NEW s \in Seq(S), IsInjective(s), s # <<>>
  PROVE  /\ Head(s) \in Range(s) /\ Range(s) \subseteq S
         /\ Tail(s) \in Seq(S) /\ IsInjective(Tail(s))
         /\ Range(Tail(s)) = Range(s) \ {Head(s)}
         /\ FrontOf(s, Head(s)) = {}
         /\ \A x : x # Head(s) => FrontOf(Tail(s), x) = FrontOf(s, x) \ {Head(s)}
<1>0. DOMAIN s = 1..Len(s) /\ Len(s) \in Nat \ {0} /\ Head(s) = s[1] /\ 1 \in DOMAIN s
  OBVIOUS
<1>1. Tail(s) = RemoveFirst(s, Head(s))
  <2>1. {k \in 1..Len(s) : s[k] = Head(s)} = {1}
    BY <1>0 DEF IsInjective
  <2>2. Min({1}) = 1
    BY DEF Min
  <2>3. PICK r : r = RemoveAt(s, 1)
    OBVIOUS
  <2>4. RemoveFirst(s, Head(s)) = r
    BY <1>0, <2>1, <2>2, <2>3, Zenon DEF RemoveFirst, SelectInSeq
  <2>5. r \in Seq(S) /\ Len(r) = Len(s) - 1
    BY <1>0, <2>3, RemoveAtProperties, Zenon
  <2>6. \A i \in 1..(Len(s) - 1) : r[i] = IF i < 1 THEN s[i] ELSE s[i + 1]
    BY <1>0, <2>3, RemoveAtProperties
  <2>7. /\ Tail(s) \in Seq(S) /\ Len(Tail(s)) = Len(s) - 1
        /\ \A i \in 1..(Len(s) - 1) : Tail(s)[i] = s[i + 1]
    BY <1>0
  <2>8. \A i \in 1..Len(Tail(s)) : Tail(s)[i] = r[i]
    BY <1>0, <2>6, <2>7
  <2>9. Tail(s) = r
    BY <2>5, <2>7, <2>8, SeqEqual
  <2> QED BY <2>4, <2>9
<1>2. /\ Tail(s) \in Seq(S) /\ IsInjective(Tail(s))
      /\ Range(Tail(s)) = Range(s) \ {Head(s)}
      /\ \A x : x # Head(s) => FrontOf(Tail(s), x) = FrontOf(s, x) \ {Head(s)}
  <2>1. PICK e, r : e = Head(s) /\ r = Tail(s)
    BY Zenon
  <2>2. r = RemoveFirst(s, e)
    BY <1>1, <2>1
  <2>3. r \in Seq(S) /\ IsInjective(r)
    BY <2>2, RemoveOne
  <2>4. Range(r) = Range(s) \ {e}
    BY <2>2, RemoveOne
  <2>5. \A x : x # e => FrontOf(r, x) = FrontOf(s, x) \ {e}
    BY <2>2, RemoveOne
  <2> QED BY <2>1, <2>3, <2>4, <2>5
<1>3. FrontOf(s, Head(s)) = {}
  <2>1. \A l \in DOMAIN s : s[l] = Head(s) => l = 1
    BY <1>0 DEF IsInjective
  <2>2. ~ \E i, l \in DOMAIN s : i < l /\ s[l] = Head(s)
    BY <1>0, <2>1
  <2> QED BY <2>2 DEF FrontOf
<1>4. Head(s) \in Range(s) /\ Range(s) \subseteq S
  BY <1>0 DEF Range
<1> QED BY <1>2, <1>3, <1>4

\* One list is linked to the end of another that has nothing in common with it.
LEMMA JoinLists ==
  ASSUME NEW S, NEW s \in Seq(S), IsInjective(s), NEW q \in Seq(S), IsInjective(q),
         Range(s) \cap Range(q) = {}
  PROVE  /\ s \o q \in Seq(S) /\ IsInjective(s \o q)
         /\ Range(s \o q) = Range(s) \cup Range(q)
<1>0. /\ DOMAIN s = 1..Len(s) /\ Len(s) \in Nat
      /\ DOMAIN q = 1..Len(q) /\ Len(q) \in Nat
  OBVIOUS
<1> DEFINE r == s \o q
<1>1. /\ r \in Seq(S) /\ DOMAIN r = 1..(Len(s) + Len(q))
      /\ \A i \in 1..(Len(s) + Len(q)) : r[i] = IF i <= Len(s) THEN s[i] ELSE q[i - Len(s)]
  <2>1. r \in Seq(S) /\ Len(r) = Len(s) + Len(q)
    BY ConcatProperties
  <2>2. \A i \in 1..(Len(s) + Len(q)) : r[i] = IF i <= Len(s) THEN s[i] ELSE q[i - Len(s)]
    BY ConcatProperties
  <2> QED BY <2>1, <2>2
<1> HIDE DEF r
<1>2. \A i \in DOMAIN r : \/ i \in DOMAIN s /\ r[i] = s[i]
                          \/ i - Len(s) \in DOMAIN q /\ r[i] = q[i - Len(s)] /\ i > Len(s)
  BY <1>0, <1>1
<1>3. /\ \A i \in DOMAIN s : i \in DOMAIN r /\ r[i] = s[i]
      /\ \A i \in DOMAIN q : Len(s) + i \in DOMAIN r /\ r[Len(s) + i] = q[i]
  BY <1>0, <1>1
<1>4. \A i \in DOMAIN s, k \in DOMAIN q : s[i] # q[k]
  BY DEF Range
<1>5. IsInjective(r)
  <2> SUFFICES ASSUME NEW i \in DOMAIN r, NEW k \in DOMAIN r, r[i] = r[k] PROVE i = k
    BY DEF IsInjective
  <2>1. CASE i \in DOMAIN s /\ r[i] = s[i]
    BY <1>2, <1>4, <2>1, Zenon DEF IsInjective
  <2>2. CASE i - Len(s) \in DOMAIN q /\ r[i] = q[i - Len(s)] /\ i > Len(s)
    <3>1. k - Len(s) \in DOMAIN q /\ r[k] = q[k - Len(s)]
      BY <1>2, <1>4, <2>2, Zenon
    <3>2. i - Len(s) = k - Len(s)
      BY <2>2, <3>1, Zenon DEF IsInjective
    <3> QED BY <1>0, <1>1, <3>2
  <2> QED BY <1>2, <2>1, <2>2
<1>6. Range(r) = Range(s) \cup Range(q)
  <2>1. \A i \in DOMAIN r : r[i] \in Range(s) \cup Range(q)
    BY <1>2 DEF Range
  <2>2. /\ \A i \in DOMAIN s : s[i] \in Range(r)
        /\ \A i \in DOMAIN q : q[i] \in Range(r)
    BY <1>3 DEF Range
  <2> QED BY <2>1, <2>2 DEF Range
<1> QED BY <1>1, <1>5, <1>6 DEF r
=============================================================================
