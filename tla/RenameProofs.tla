--------------------------- MODULE RenameProofs ---------------------------
(***************************************************************************)
(* RenameInv is an invariant of Rename for any register files, banks, uops  *)
(* and ROB size, and with it the ownership of physical registers.           *)
(***************************************************************************)
EXTENDS Rename, TLAPS, WellFoundedInduction, SequenceTheorems, FiniteSetTheorems

(***************************************************************************)
(* find_lowest_set_bit returns a member of a non-empty pool.                *)
(***************************************************************************)
LEMMA LowestInSet ==
    ASSUME NEW S, S \subseteq Nat, S # {}
    PROVE  Lowest(S) \in S
<1>1. PICK x \in S : \A y \in S : ~ (<<y, x>> \in OpToRel(<, Nat))
  BY NatLessThanWellFounded, WFMin
<1>2. \A y \in S : ~ (y < x)
  BY <1>1 DEF OpToRel
<1>3. \A y \in S : x <= y
  BY <1>2, SMT
<1>4. QED
  BY <1>3 DEF Lowest

(***************************************************************************)
(* Renaming one uop to a free register keeps the two sides consistent.      *)
(***************************************************************************)
LEMMA AllocConsistent ==
    ASSUME NEW r, NEW f, NEW rr, NEW rf, NEW b, NEW e \in Entry, NEW r2, NEW f2,
           Consistent(r, f, rr, rf, b),
           e.dst = None => r2 = r /\ f2 = f,
           e.dst # None => /\ e.pdst \in f
                           /\ e.old = r[e.dst]
                           /\ r2 = [r EXCEPT ![e.dst] = e.pdst]
                           /\ f2 = f \ {e.pdst},
           e.srcA = IF e.srcA_arch = None THEN None ELSE r[e.srcA_arch],
           e.srcB \in Held(r) \cup {None},
           e.data \in Held(r) \cup {None}
    PROVE  Consistent(r2, f2, rr, rf, Append(b, e))
<1> DEFINE n == Len(b)
           c == Append(b, e)
<1>b. b \in Seq(Entry)
  BY DEF Consistent
<1>1. /\ n \in Nat /\ Len(c) = n + 1 /\ c \in Seq(Entry)
      /\ \A i \in 1 .. n : c[i] = b[i] /\ b[i] \in Entry
      /\ c[n + 1] = e
  BY <1>b
<1>2. Writers(c) = IF e.dst = None THEN Writers(b) ELSE Writers(b) \cup {n + 1}
  BY <1>1 DEF Writers
<1>3. Writers(b) \subseteq 1 .. n
  BY DEF Writers
<1> HIDE DEF n, c
<1>4. Old(c) = IF e.dst = None THEN Old(b) ELSE Old(b) \cup {e.old}
  BY <1>1, <1>2, <1>3 DEF Old
<1>5. r \in [LReg -> PReg] /\ rr \in [LReg -> PReg] /\ f \subseteq rf /\ rf \subseteq PReg
  BY DEF Consistent
<1>6. e.dst # None => e.dst \in LReg
  BY DEF Entry, LRegOrNone
<1>7. r2 \in [LReg -> PReg]
  BY <1>5, <1>6
<1>8. e.dst # None => Held(r2) = (Held(r) \ {e.old}) \cup {e.pdst}
  <2> SUFFICES ASSUME e.dst # None PROVE Held(r2) = (Held(r) \ {e.old}) \cup {e.pdst}
    OBVIOUS
  <2>1. Injective(r)
    BY DEF Consistent, Partition
  <2>2. e.pdst \notin Held(r)
    BY DEF Consistent, Partition
  <2>3. \A l \in LReg : r2[l] = IF l = e.dst THEN e.pdst ELSE r[l]
    BY <1>5
  <2>4. QED
    BY <2>1, <2>2, <2>3, <1>5, <1>6 DEF Held, Injective
<1>9. Partition(r2, f2, c)
  <2>1. CASE e.dst = None
    BY <2>1, <1>1, <1>2, <1>3, <1>4 DEF Consistent, Partition
  <2>2. CASE e.dst # None
    <3>1. e.old \in Held(r) /\ e.old \notin f /\ e.old \notin Old(b)
      BY <2>2, <1>6 DEF Held, Consistent, Partition
    <3>2. \A p \in PReg : p \in f2 \/ p \in Held(r2) \/ p \in Old(c)
      BY <2>2, <1>4, <1>8 DEF Consistent, Partition
    <3>3. f2 \cap Held(r2) = {} /\ f2 \cap Old(c) = {} /\ Held(r2) \cap Old(c) = {}
      BY <2>2, <3>1, <1>4, <1>8 DEF Consistent, Partition
    <3>4. Injective(r2)
      <4>1. Injective(r) /\ e.pdst \notin Held(r)
        BY <2>2 DEF Consistent, Partition
      <4>2. \A l \in LReg : r2[l] = IF l = e.dst THEN e.pdst ELSE r[l]
        BY <2>2, <1>5
      <4>3. QED
        BY <4>1, <4>2, <1>5, <1>6 DEF Held, Injective
    <3>5. \A i, j \in Writers(c) : c[i].old = c[j].old => i = j
      <4>1. \A i \in Writers(b) : b[i].old \in Old(b)
        BY DEF Old
      <4>2. \A i, j \in Writers(b) : b[i].old = b[j].old => i = j
        BY DEF Consistent, Partition
      <4>3. QED
        BY <4>1, <4>2, <3>1, <2>2, <1>1, <1>2, <1>3
    <3>6. QED
      BY <3>2, <3>3, <3>4, <3>5 DEF Partition
  <2>3. QED
    BY <2>1, <2>2
<1>10. \A i \in Writers(c) : c[i].pdst \in rf \ f2 /\ c[i].old \in PReg
  <2>1. \A i \in Writers(b) : b[i].pdst \in rf \ f /\ b[i].old \in PReg
    BY DEF Consistent
  <2>2. f2 \subseteq f
    OBVIOUS
  <2>3. QED
    BY <2>1, <2>2, <1>1, <1>2, <1>3, <1>5, <1>6
<1>11. \A i, j \in Writers(c) : c[i].pdst = c[j].pdst => i = j
  <2>1. \A i \in Writers(b) : b[i].pdst \notin f
    BY DEF Consistent
  <2>2. \A i, j \in Writers(b) : b[i].pdst = b[j].pdst => i = j
    BY DEF Consistent
  <2>3. QED
    BY <2>1, <2>2, <1>1, <1>2, <1>3
<1>12. \A l \in LReg : Linked(rr, b, n + 1, l, r[l])
  BY DEF Consistent, n
<1>13. \A l, p : \A k \in 1 .. n + 1 : Linked(rr, b, k, l, p) => Linked(rr, c, k, l, p)
  BY <1>1 DEF Linked
<1>14. \A l \in LReg : Linked(rr, c, Len(c) + 1, l, r2[l])
  <2> SUFFICES ASSUME NEW l \in LReg PROVE Linked(rr, c, n + 2, l, r2[l])
    BY <1>1
  <2>1. CASE e.dst = l
    <3>1. e.dst # None
      BY <2>1, RegAssumption
    <3>2. r2[l] = e.pdst
      BY <3>1, <2>1, <1>5
    <3>3. n + 1 \in 1 .. (n + 2) - 1 /\ c[n + 1].dst = l /\ r2[l] = c[n + 1].pdst
      BY <3>2, <2>1, <1>1
    <3>4. QED
      BY <3>3 DEF Linked
  <2>2. CASE e.dst # l
    <3>1. r2[l] = r[l]
      BY <2>2, <1>5
    <3>2. Linked(rr, c, n + 1, l, r[l])
      BY <1>1, <1>12, <1>13
    <3>3. QED
      BY <3>1, <3>2, <1>1 DEF Linked
  <2>3. QED
    BY <2>1, <2>2
<1>15. \A k \in Writers(c) : Linked(rr, c, k, c[k].dst, c[k].old)
  <2>1. \A k \in Writers(b) : Linked(rr, b, k, b[k].dst, b[k].old)
    BY DEF Consistent
  <2>2. \A k \in Writers(b) : Linked(rr, c, k, c[k].dst, c[k].old)
    BY <2>1, <1>1, <1>3, <1>13
  <2>3. e.dst # None => Linked(rr, c, n + 1, e.dst, e.old)
    BY <1>1, <1>6, <1>12, <1>13
  <2>4. QED
    BY <2>2, <2>3, <1>1, <1>2
<1>16. \A k \in 1 .. Len(c) :
          c[k].srcA_arch # None => Linked(rr, c, k, c[k].srcA_arch, c[k].srcA)
  <2>1. \A k \in 1 .. n : b[k].srcA_arch # None => Linked(rr, b, k, b[k].srcA_arch, b[k].srcA)
    BY DEF Consistent, n
  <2>2. \A k \in 1 .. n : c[k].srcA_arch # None => Linked(rr, c, k, c[k].srcA_arch, c[k].srcA)
    BY <2>1, <1>1, <1>13
  <2>3. e.srcA_arch # None => Linked(rr, c, n + 1, e.srcA_arch, e.srcA)
    BY <1>1, <1>12, <1>13 DEF Entry, LRegOrNone
  <2>4. QED
    BY <2>2, <2>3, <1>1
<1>17. \A s : \A k \in 1 .. n + 1 : (s \in Held(r) \/ s = None) => Kept(r2, c, k, s)
  BY <1>1, <1>8 DEF Kept
<1>18. \A s : \A k \in 1 .. n : Kept(r, b, k, s) => Kept(r2, c, k, s)
  <2> SUFFICES ASSUME NEW k \in 1 .. n, NEW s, Kept(r, b, k, s),
                      NEW m \in k .. n, b[m].dst # None, s = b[m].old
               PROVE  Kept(r2, c, k, s)
    BY <1>17, <1>1 DEF Kept, n
  <2>1. m \in k .. Len(c) /\ c[m] = b[m]
    BY <1>1
  <2>2. QED
    BY <2>1 DEF Kept
<1>19. \A k \in 1 .. Len(c) : /\ Kept(r2, c, k, c[k].srcA)
                              /\ Kept(r2, c, k, c[k].srcB)
                              /\ Kept(r2, c, k, c[k].data)
  <2>1. \A k \in 1 .. n : /\ Kept(r2, c, k, c[k].srcA)
                          /\ Kept(r2, c, k, c[k].srcB)
                          /\ Kept(r2, c, k, c[k].data)
    BY <1>18, <1>1 DEF Consistent, n
  <2>2. e.srcA \in Held(r) \cup {None}
    BY DEF Held, Entry, LRegOrNone
  <2>3. /\ Kept(r2, c, n + 1, e.srcA)
        /\ Kept(r2, c, n + 1, e.srcB)
        /\ Kept(r2, c, n + 1, e.data)
    BY <2>2, <1>17, <1>1
  <2>4. QED
    BY <2>1, <2>3, <1>1
<1>20. rf = PReg \ Held(rr) /\ Injective(rr) /\ f2 \subseteq rf
  BY <1>5 DEF Consistent
<1>21. QED
  BY <1>1, <1>5, <1>7, <1>9, <1>10, <1>11, <1>14, <1>15, <1>16, <1>19, <1>20 DEF Consistent, c

(***************************************************************************)
(* Retiring the oldest entry keeps the two sides consistent.  Its old       *)
(* mapping is the committed one, since no entry precedes it, and nobody      *)
(* else knows that register: it is neither mapped, nor another entry's old   *)
(* mapping, nor an operand of a younger entry.                              *)
(***************************************************************************)
LEMMA RetireConsistent ==
    ASSUME NEW r, NEW f, NEW rr, NEW rf, NEW b,
           Consistent(r, f, rr, rf, b), b # <<>>
    PROVE  Consistent(r, Released(f, Head(b)), RetireRat(rr, Head(b)),
                      RetireFree(rf, Head(b)), Tail(b))
<1> DEFINE n == Len(b)
           c == Tail(b)
           e == Head(b)
           f2 == Released(f, e)
           rr2 == RetireRat(rr, e)
           rf2 == RetireFree(rf, e)
<1>b. b \in Seq(Entry)
  BY DEF Consistent
<1>1. /\ n \in Nat \ {0} /\ Len(c) = n - 1 /\ c \in Seq(Entry)
      /\ \A i \in 1 .. n - 1 : c[i] = b[i + 1]
      /\ b[1] = e /\ e \in Entry
  BY <1>b
<1>2. \A i \in Writers(c) : i \in 1 .. n - 1 /\ i + 1 \in Writers(b) /\ c[i] = b[i + 1]
  BY <1>1 DEF Writers
<1>3. \A i \in Writers(b) : i \in 1 .. n /\ (i = 1 \/ i - 1 \in Writers(c))
  BY <1>1 DEF Writers
<1>4. 1 \in Writers(b) <=> e.dst # None
  BY <1>1 DEF Writers
<1> HIDE DEF n, c, e
<1>5. /\ r \in [LReg -> PReg] /\ rr \in [LReg -> PReg] /\ f \subseteq rf /\ rf \subseteq PReg
      /\ rf = PReg \ Held(rr) /\ Injective(rr)
  BY DEF Consistent
<1>6. e.dst # None => e.dst \in LReg
  BY <1>1 DEF Entry, LRegOrNone
<1>7. e.dst # None => e.pdst \in rf \ f /\ e.old \in PReg
  BY <1>1, <1>4 DEF Consistent
<1>8. e.dst # None => e.old = rr[e.dst]
  <2>1. e.dst # None => Linked(rr, b, 1, e.dst, e.old)
    BY <1>1, <1>4 DEF Consistent
  <2>2. QED
    BY <2>1 DEF Linked
<1>9. Old(c) \subseteq Old(b) /\ (e.dst # None => Old(c) = Old(b) \ {e.old})
      /\ (e.dst = None => Old(c) = Old(b))
  <2>1. \A i, j \in Writers(b) : b[i].old = b[j].old => i = j
    BY DEF Consistent, Partition
  <2>2. Old(c) \subseteq Old(b)
    BY <1>2 DEF Old
  <2>3. e.dst # None => e.old \notin Old(c)
    <3> SUFFICES ASSUME e.dst # None, NEW i \in Writers(c), c[i].old = e.old PROVE FALSE
      BY DEF Old
    <3>1. i + 1 \in Writers(b) /\ b[i + 1].old = b[1].old /\ i + 1 # 1
      BY <1>1, <1>2
    <3>2. QED
      BY <3>1, <2>1, <1>4
  <2>4. \A p \in Old(b) : p \in Old(c) \/ (e.dst # None /\ p = e.old)
    <3> SUFFICES ASSUME NEW i \in Writers(b)
                 PROVE  b[i].old \in Old(c) \/ (e.dst # None /\ b[i].old = e.old)
      BY DEF Old
    <3>1. CASE i = 1
      BY <3>1, <1>1, <1>4
    <3>2. CASE i # 1
      <4>1. i - 1 \in Writers(c) /\ c[i - 1] = b[(i - 1) + 1] /\ (i - 1) + 1 = i
        BY <3>2, <1>1, <1>2, <1>3
      <4>2. c[i - 1].old = b[i].old
        BY <4>1
      <4>3. QED
        BY <4>1, <4>2 DEF Old
    <3>3. QED
      BY <3>1, <3>2
  <2>5. QED
    BY <2>2, <2>3, <2>4
<1>10. rr2 \in [LReg -> PReg] /\ f2 \subseteq rf2 /\ rf2 \subseteq PReg
  BY <1>5, <1>6, <1>7 DEF Released, RetireRat, RetireFree
<1>11. e.dst # None => e.old \in Old(b) /\ e.old \notin Held(r) /\ e.old \notin f
  BY <1>1, <1>4 DEF Old, Consistent, Partition
<1>12. Partition(r, f2, c)
  <2>1. \A p \in PReg : p \in f2 \/ p \in Held(r) \/ p \in Old(c)
    BY <1>9 DEF Consistent, Partition, Released
  <2>2. f2 \cap Held(r) = {} /\ f2 \cap Old(c) = {} /\ Held(r) \cap Old(c) = {}
    BY <1>9, <1>11 DEF Consistent, Partition, Released
  <2>3. Injective(r)
    BY DEF Consistent, Partition
  <2>4. \A i, j \in Writers(c) : c[i].old = c[j].old => i = j
    <3>1. \A i, j \in Writers(b) : b[i].old = b[j].old => i = j
      BY DEF Consistent, Partition
    <3>2. QED
      <4> TAKE i, j \in Writers(c)
      <4> HAVE c[i].old = c[j].old
      <4>1. /\ i + 1 \in Writers(b) /\ j + 1 \in Writers(b) /\ b[i + 1].old = b[j + 1].old
            /\ i \in Int /\ j \in Int
        BY <1>1, <1>2
      <4>2. i + 1 = j + 1
        BY <4>1, <3>1
      <4>3. QED
        BY <4>1, <4>2
  <2>5. QED
    BY <2>1, <2>2, <2>3, <2>4 DEF Partition
<1>13. rf2 = PReg \ Held(rr2) /\ Injective(rr2)
  <2>1. CASE e.dst = None
    BY <2>1, <1>5 DEF RetireRat, RetireFree
  <2>2. CASE e.dst # None
    <3>1. \A l \in LReg : rr2[l] = IF l = e.dst THEN e.pdst ELSE rr[l]
      BY <2>2, <1>5 DEF RetireRat
    <3>2. e.pdst \notin Held(rr) /\ e.pdst \in PReg
      BY <2>2, <1>5, <1>7
    <3>3. Held(rr2) = (Held(rr) \ {e.old}) \cup {e.pdst}
      BY <3>1, <3>2, <2>2, <1>5, <1>6, <1>8 DEF Held, Injective
    <3>4. Injective(rr2)
      BY <3>1, <3>2, <2>2, <1>5, <1>6 DEF Held, Injective
    <3>5. e.old \in PReg /\ e.old # e.pdst
      BY <2>2, <3>2, <1>5, <1>6, <1>8 DEF Held
    <3>6. QED
      BY <3>2, <3>3, <3>4, <3>5, <2>2, <1>5 DEF RetireFree
  <2>3. QED
    BY <2>1, <2>2
<1>14. \A i, j \in Writers(b) : b[i].pdst = b[j].pdst => i = j
  BY DEF Consistent
<1>15. \A i \in Writers(c) : c[i].pdst \in rf2 \ f2 /\ c[i].old \in PReg
  <2> SUFFICES ASSUME NEW i \in Writers(c)
               PROVE  c[i].pdst \in rf2 \ f2 /\ c[i].old \in PReg
    OBVIOUS
  <2>1. c[i].pdst \in rf \ f /\ c[i].old \in PReg
    BY <1>2 DEF Consistent
  <2>2. e.dst # None => c[i].pdst # e.pdst
    BY <1>1, <1>2, <1>4, <1>14
  <2>3. e.dst # None => c[i].pdst # e.old
    BY <2>1, <1>5, <1>6, <1>8 DEF Held
  <2>4. QED
    BY <2>1, <2>2, <2>3 DEF Released, RetireFree
<1>16. \A i, j \in Writers(c) : c[i].pdst = c[j].pdst => i = j
  <2> TAKE i, j \in Writers(c)
  <2> HAVE c[i].pdst = c[j].pdst
  <2>1. /\ i + 1 \in Writers(b) /\ j + 1 \in Writers(b) /\ b[i + 1].pdst = b[j + 1].pdst
        /\ i \in Int /\ j \in Int
    BY <1>1, <1>2
  <2>2. i + 1 = j + 1
    BY <2>1, <1>14
  <2>3. QED
    BY <2>1, <2>2
<1>17. \A l \in LReg : \A p : \A k \in 2 .. n + 1 :
          Linked(rr, b, k, l, p) /\ (e.dst # None => p # e.old) => Linked(rr2, c, k - 1, l, p)
  <2> SUFFICES ASSUME NEW l \in LReg, NEW p, NEW k \in 2 .. n + 1, Linked(rr, b, k, l, p),
                      e.dst # None => p # e.old
               PROVE  Linked(rr2, c, k - 1, l, p)
    OBVIOUS
  <2>1. CASE p = rr[l]
    <3>1. e.dst # l
      BY <2>1, <1>6, <1>8, RegAssumption
    <3>2. rr2[l] = rr[l]
      BY <3>1, <1>5, <1>6 DEF RetireRat
    <3>3. QED
      BY <3>2, <2>1 DEF Linked
  <2>2. CASE \E j \in 1 .. k - 1 : b[j].dst = l /\ p = b[j].pdst
    <3> PICK j \in 1 .. k - 1 : b[j].dst = l /\ p = b[j].pdst
      BY <2>2
    <3>1. CASE j = 1
      <4>1. e.dst = l /\ p = e.pdst /\ e.dst # None
        BY <3>1, <1>1, RegAssumption
      <4>2. rr2[l] = p
        BY <4>1, <1>5 DEF RetireRat
      <4>3. QED
        BY <4>2 DEF Linked
    <3>2. CASE j # 1
      <4>1. j - 1 \in 1 .. (k - 1) - 1 /\ c[j - 1] = b[(j - 1) + 1] /\ (j - 1) + 1 = j
        BY <3>2, <1>1
      <4>2. c[j - 1].dst = l /\ p = c[j - 1].pdst
        BY <4>1
      <4>3. QED
        BY <4>1, <4>2 DEF Linked
    <3>3. QED
      BY <3>1, <3>2
  <2>3. QED
    BY <2>1, <2>2 DEF Linked
<1>18. \A l \in LReg : Linked(rr2, c, Len(c) + 1, l, r[l])
  <2>1. \A l \in LReg : Linked(rr, b, n + 1, l, r[l])
    BY DEF Consistent, n
  <2>2. \A l \in LReg : e.dst # None => r[l] # e.old
    BY <1>11 DEF Held
  <2>3. n + 1 \in 2 .. n + 1 /\ (n + 1) - 1 = Len(c) + 1
    BY <1>1
  <2>4. QED
    BY <2>1, <2>2, <2>3, <1>17
<1>19. \A k \in Writers(c) : Linked(rr2, c, k, c[k].dst, c[k].old)
  <2> SUFFICES ASSUME NEW k \in Writers(c) PROVE Linked(rr2, c, k, c[k].dst, c[k].old)
    OBVIOUS
  <2>1. Linked(rr, b, k + 1, b[k + 1].dst, b[k + 1].old)
    BY <1>2 DEF Consistent
  <2>2. e.dst # None => c[k].old # e.old
    BY <1>9, <1>11 DEF Old
  <2>3. c[k].dst \in LReg
    <3>1. c[k] \in Entry /\ c[k].dst # None
      BY <1>1, <1>2, ElementOfSeq DEF Writers
    <3>2. QED
      BY <3>1 DEF Entry, LRegOrNone
  <2>4. k + 1 \in 2 .. n + 1 /\ (k + 1) - 1 = k
    BY <1>1, <1>2
  <2>5. QED
    BY <2>1, <2>2, <2>3, <2>4, <1>2, <1>17
<1>20. \A s : \A k \in 1 .. n - 1 : Kept(r, b, k + 1, s) =>
          Kept(r, c, k, s) /\ (s # None /\ e.dst # None => s # e.old)
  <2> SUFFICES ASSUME NEW s, NEW k \in 1 .. n - 1, Kept(r, b, k + 1, s)
               PROVE  Kept(r, c, k, s) /\ (s # None /\ e.dst # None => s # e.old)
    OBVIOUS
  <2>1. CASE s = None \/ s \in Held(r)
    BY <2>1, <1>11 DEF Kept
  <2>2. CASE \E m \in k + 1 .. n : b[m].dst # None /\ s = b[m].old
    <3> PICK m \in k + 1 .. n : b[m].dst # None /\ s = b[m].old
      BY <2>2
    <3>1. /\ m \in Int /\ m - 1 \in k .. Len(c) /\ m - 1 \in 1 .. n - 1
          /\ (m - 1) + 1 = m /\ m \in 1 .. n /\ m # 1
      BY <1>1
    <3>2. c[m - 1] = b[m]
      BY <3>1, <1>1
    <3>3. m \in Writers(b)
      BY <3>1 DEF Writers, n
    <3>4. e.dst # None => s # e.old
      BY <3>1, <3>3, <1>1, <1>4 DEF Consistent, Partition
    <3>5. Kept(r, c, k, s)
      BY <3>1, <3>2 DEF Kept
    <3>6. QED
      BY <3>4, <3>5
  <2>3. QED
    BY <2>1, <2>2 DEF Kept, n
<1>21. \A k \in 1 .. n - 1 : /\ Kept(r, b, k + 1, c[k].srcA)
                             /\ Kept(r, b, k + 1, c[k].srcB)
                             /\ Kept(r, b, k + 1, c[k].data)
  BY <1>1 DEF Consistent, n
<1>22. \A k \in 1 .. Len(c) : /\ Kept(r, c, k, c[k].srcA)
                              /\ Kept(r, c, k, c[k].srcB)
                              /\ Kept(r, c, k, c[k].data)
  BY <1>1, <1>20, <1>21
<1>23. \A k \in 1 .. Len(c) :
          c[k].srcA_arch # None => Linked(rr2, c, k, c[k].srcA_arch, c[k].srcA)
  <2> SUFFICES ASSUME NEW k \in 1 .. Len(c), c[k].srcA_arch # None
               PROVE  Linked(rr2, c, k, c[k].srcA_arch, c[k].srcA)
    OBVIOUS
  <2>1. /\ k \in 1 .. n - 1 /\ k + 1 \in 1 .. n /\ k + 1 \in 2 .. n + 1 /\ (k + 1) - 1 = k
        /\ c[k] = b[k + 1]
    BY <1>1
  <2>2. Linked(rr, b, k + 1, c[k].srcA_arch, c[k].srcA)
    BY <2>1 DEF Consistent, n
  <2>3. c[k].srcA_arch \in LReg
    <3>1. c[k] \in Entry
      BY <1>1, ElementOfSeq
    <3>2. QED
      BY <3>1 DEF Entry, LRegOrNone
  <2>4. c[k].srcA = None \/ (e.dst # None => c[k].srcA # e.old)
    BY <2>1, <1>20, <1>21
  <2>5. e.dst # None => c[k].srcA # e.old
    BY <2>4, <1>7, RegAssumption
  <2>6. QED
    BY <2>1, <2>2, <2>3, <2>5, <1>17
<1>24. QED
  BY <1>1, <1>5, <1>10, <1>12, <1>13, <1>15, <1>16, <1>18, <1>19, <1>22, <1>23
     DEF Consistent, c, e

(***************************************************************************)
(* Marking an entry complete, or its store data read, changes no mapping.   *)
(***************************************************************************)
LEMMA MarkConsistent ==
    ASSUME NEW r, NEW f, NEW rr, NEW rf, NEW b, NEW c \in Seq(Entry),
           Consistent(r, f, rr, rf, b), Len(c) = Len(b),
           \A i \in 1 .. Len(b) :
               /\ c[i].dst = b[i].dst /\ c[i].pdst = b[i].pdst /\ c[i].old = b[i].old
               /\ c[i].srcA_arch = b[i].srcA_arch /\ c[i].srcA = b[i].srcA
               /\ c[i].srcB = b[i].srcB /\ c[i].data \in {None, b[i].data}
    PROVE  Consistent(r, f, rr, rf, c)
<1>0. Len(b) \in Nat
  BY DEF Consistent
<1>1. Writers(c) = Writers(b) /\ Writers(b) \subseteq 1 .. Len(b)
  BY DEF Writers
<1>2. Old(c) = Old(b)
  BY <1>1 DEF Old
<1>3. \A l, p : \A k \in 1 .. Len(b) + 1 : Linked(rr, b, k, l, p) => Linked(rr, c, k, l, p)
  BY <1>0 DEF Linked
<1>4. \A s : \A k \in 1 .. Len(b) : Kept(r, b, k, s) => Kept(r, c, k, s)
  BY <1>0 DEF Kept
<1>5. Partition(r, f, c)
  BY <1>1, <1>2 DEF Partition, Consistent
<1>6. /\ \A i \in Writers(c) : c[i].pdst \in rf \ f /\ c[i].old \in PReg
      /\ \A i, j \in Writers(c) : c[i].pdst = c[j].pdst => i = j
  BY <1>1 DEF Consistent
<1>7. \A l \in LReg : Linked(rr, c, Len(c) + 1, l, r[l])
  BY <1>0, <1>3 DEF Consistent
<1>8. \A n \in Writers(c) : Linked(rr, c, n, c[n].dst, c[n].old)
  BY <1>0, <1>1, <1>3 DEF Consistent
<1>9. \A n \in 1 .. Len(c) :
         c[n].srcA_arch # None => Linked(rr, c, n, c[n].srcA_arch, c[n].srcA)
  BY <1>0, <1>3 DEF Consistent
<1>10. \A n \in 1 .. Len(c) : Kept(r, c, n, c[n].srcA) /\ Kept(r, c, n, c[n].srcB)
  BY <1>4 DEF Consistent
<1>11. \A n \in 1 .. Len(c) : Kept(r, c, n, c[n].data)
  <2>1. \A n \in 1 .. Len(c) : Kept(r, c, n, b[n].data) /\ Kept(r, c, n, None)
    BY <1>4 DEF Consistent, Kept
  <2>2. QED
    BY <2>1
<1>12. QED
  BY <1>5, <1>6, <1>7, <1>8, <1>9, <1>10, <1>11 DEF Consistent

(***************************************************************************)
(* In a consistent state no pending operand is free.                        *)
(***************************************************************************)
LEMMA ConsistentHolds ==
    ASSUME NEW r, NEW f, NEW rr, NEW rf, NEW b, Consistent(r, f, rr, rf, b)
    PROVE  \A i \in 1 .. Len(b) : Unread(b[i]) \cap f = {}
<1>1. None \notin f
  BY RegAssumption DEF Consistent
<1>2. \A s : \A i \in 1 .. Len(b) : Kept(r, b, i, s) => s \notin f
  <2> SUFFICES ASSUME NEW s, NEW i \in 1 .. Len(b), NEW k \in i .. Len(b),
                      b[k].dst # None, s = b[k].old
               PROVE  s \notin f
    BY <1>1 DEF Kept, Consistent, Partition
  <2>1. k \in Writers(b)
    BY DEF Writers, Consistent
  <2>2. QED
    BY <2>1 DEF Old, Consistent, Partition
<1>3. QED
  BY <1>2 DEF Unread, Consistent

(***************************************************************************)
(* The entry a uop is given satisfies what AllocConsistent asks.            *)
(***************************************************************************)
LEMMA NewEntryFits ==
    ASSUME NEW u \in Uop, NEW p, NEW r \in [LReg -> PReg], NEW old, NEW a, NEW b,
           old = IF u.dst = None THEN None ELSE r[u.dst],
           a = IF u.srcA = None THEN None ELSE r[u.srcA],
           b = IF u.srcB = None THEN None ELSE r[u.srcB],
           u.dst # None => p \in PReg, u.dst = None => p = None
    PROVE  LET e == NewEntry(u, p, old, a, b)
           IN  /\ e \in Entry
               /\ e.dst = u.dst /\ e.pdst = p /\ (u.dst # None => e.old = r[u.dst])
               /\ e.srcA = IF e.srcA_arch = None THEN None ELSE r[e.srcA_arch]
               /\ e.srcB \in Held(r) \cup {None}
               /\ e.data \in Held(r) \cup {None}
               /\ e.sd_complete => e.data = None
<1> DEFINE e == NewEntry(u, p, old, a, b)
<1>1. u.dst \in LRegOrNone /\ u.srcA \in LRegOrNone /\ u.srcB \in LRegOrNone
  BY DEF Uop
<1>2. old \in PRegOrNone /\ a \in PRegOrNone /\ b \in PRegOrNone /\ b \in Held(r) \cup {None}
  BY <1>1 DEF Held, LRegOrNone, PRegOrNone
<1>3. p \in PRegOrNone
  BY DEF PRegOrNone
<1>4. /\ HasStoreData(u) \in BOOLEAN /\ SdCompleteAtAlloc(u) \in BOOLEAN /\ Fold(u) \in BOOLEAN
  BY DEF HasStoreData, SdCompleteAtAlloc, Fold
<1>5. e \in Entry
  BY <1>1, <1>2, <1>3, <1>4 DEF NewEntry, Entry, PRegOrNone
<1>6. SdCompleteAtAlloc(u) => ~HasStoreData(u)
  BY DEF SdCompleteAtAlloc, HasStoreData
<1>7. QED
  BY <1>1, <1>2, <1>5, <1>6 DEF NewEntry

LEMMA NewRegFree ==
    ASSUME NEW u \in Uop, NEW even, Enough(u, even)
    PROVE  /\ u.dst # None => NewReg(u, even) \in Pool(u, even) \cap free
           /\ u.dst = None => NewReg(u, even) = None
<1>1. Pool(u, even) \cap free \subseteq Nat
  BY RegAssumption DEF Pool
<1>2. QED
  BY <1>1, LowestInSet DEF NewReg, HasDst, Enough

-----------------------------------------------------------------------------
LEMMA InitInv == Init => RenameInv
<1> SUFFICES ASSUME Init PROVE RenameInv
  OBVIOUS
<1>1. /\ rat = Reset /\ rrat = Reset /\ free = rfree /\ rob = <<>> /\ phase = "active" /\ late = {}
      /\ rfree = PReg \ Held(Reset) /\ Reset \in [LReg -> PReg] /\ Injective(Reset)
  BY ResetAssumption DEF Init, Held, Injective
<1>2. Len(rob) = 0 /\ Writers(rob) = {} /\ Old(rob) = {} /\ rob \in Seq(Entry)
  BY <1>1 DEF Writers, Old
<1>3. TypeOK
  BY <1>1, <1>2 DEF TypeOK
<1>4. Partition(rat, free, rob)
  BY <1>1, <1>2 DEF Partition
<1>5. \A l \in LReg : Linked(rrat, rob, Len(rob) + 1, l, rat[l])
  BY <1>1 DEF Linked
<1>6. Consistent(rat, free, rrat, rfree, rob)
  BY <1>1, <1>2, <1>4, <1>5 DEF Consistent
<1>7. QED
  BY <1>1, <1>2, <1>3, <1>6 DEF RenameInv, RetiredOwnership, OperandHeld, DataFirst

\* What has to be shown of a step that ends outside the fault phase.
LEMMA FromConsistent ==
    ASSUME phase' \in {"active", "drain"}, DataFirst',
           Consistent(rat', free', rrat', rfree', rob')
    PROVE  RenameInv'
<1>1. TypeOK'
  BY DEF TypeOK, Consistent, DataFirst
<1>2. RetiredOwnership'
  BY DEF RetiredOwnership, Consistent
<1>3. OperandHeld'
  BY ConsistentHolds DEF OperandHeld, DataFirst
<1>4. QED
  BY <1>1, <1>2, <1>3 DEF RenameInv

LEMMA AppendDataFirst ==
    ASSUME NEW b \in Seq(Entry), NEW e \in Entry, e.sd_complete => e.data = None,
           \A i \in 1 .. Len(b) : b[i].sd_complete => b[i].data = None
    PROVE  \A i \in 1 .. Len(Append(b, e)) :
               Append(b, e)[i].sd_complete => Append(b, e)[i].data = None
<1>1. /\ Len(b) \in Nat /\ Len(Append(b, e)) = Len(b) + 1
      /\ \A i \in 1 .. Len(b) : Append(b, e)[i] = b[i]
      /\ Append(b, e)[Len(b) + 1] = e
  OBVIOUS
<1>2. QED
  BY <1>1

LEMMA AllocInv ==
    ASSUME RenameInv, NEW u \in Uops, NEW even \in BOOLEAN, Alloc(u, even)
    PROVE  RenameInv'
<1> DEFINE p == NewReg(u, even)
           e == FirstEntry(u, p)
<1>1. u \in Uop /\ Consistent(rat, free, rrat, rfree, rob) /\ rat \in [LReg -> PReg]
  BY RegAssumption DEF RenameInv, Alloc, TypeOK
<1>2. /\ u.dst # None => p \in free /\ p \in PReg
      /\ u.dst = None => p = None
  BY <1>1, NewRegFree, Zenon DEF Alloc, Pool
<1>3. /\ e \in Entry
      /\ e.dst = u.dst /\ e.pdst = p /\ (u.dst # None => e.old = rat[u.dst])
      /\ e.srcA = IF e.srcA_arch = None THEN None ELSE rat[e.srcA_arch]
      /\ e.srcB \in Held(rat) \cup {None}
      /\ e.data \in Held(rat) \cup {None}
      /\ e.sd_complete => e.data = None
  <2> HIDE DEF p
  <2>1. QED
    BY <1>1, <1>2, NewEntryFits DEF FirstEntry, Mapped
<1>4. /\ rat' = Remap(rat, u, p) /\ free' = free \ {p} /\ rob' = Append(rob, e)
      /\ rrat' = rrat /\ rfree' = rfree /\ late' = late /\ phase' = "active"
  BY DEF Alloc
<1> HIDE DEF p, e
<1>5. u.dst = None => rat' = rat /\ free' = free
  BY <1>1, <1>2, <1>4, RegAssumption DEF Remap, HasDst, Consistent
<1>6. u.dst # None => rat' = [rat EXCEPT ![u.dst] = p]
  BY <1>4 DEF Remap, HasDst
<1>7. Consistent(rat', free', rrat, rfree, Append(rob, e))
  BY <1>1, <1>2, <1>3, <1>4, <1>5, <1>6, AllocConsistent
<1>8. DataFirst'
  BY <1>1, <1>3, <1>4, AppendDataFirst DEF RenameInv, DataFirst, Consistent
<1>9. QED
  BY <1>4, <1>7, <1>8, FromConsistent

\* The registers of a pair differ: GPRs have opposite parity, and no other file
\* gives out two registers in a cycle.
LEMMA PairDiffers ==
    ASSUME NEW u1 \in Uop, NEW u2 \in Uop, NEW even \in BOOLEAN,
           SecondFits(u1, u2, even), u1.dst # None, u2.dst # None,
           NEW p1 \in Pool(u1, even), NEW p2 \in Pool(u2, ~even)
    PROVE  p1 # p2
<1>1. /\ p1 \in PReg /\ PFile[p1] = LFile[u1.dst]
      /\ p2 \in PReg /\ PFile[p2] = LFile[u2.dst]
      /\ PFile[p1] = "gpr" => (p1 \in EvenBank <=> even)
      /\ PFile[p2] = "gpr" => (p2 \in EvenBank <=> ~even)
  BY DEF Pool
<1>2. LFile[u2.dst] \in {"gpr", "fp"} /\ (LFile[u2.dst] = "fp" => LFile[u1.dst] # "fp")
  BY DEF SecondFits, HasDst
<1>3. QED
  BY <1>1, <1>2, Zenon

LEMMA AllocTwoInv ==
    ASSUME RenameInv, NEW u1 \in Uops, NEW u2 \in Uops, NEW even \in BOOLEAN,
           AllocTwo(u1, u2, even)
    PROVE  RenameInv'
<1> DEFINE p1 == NewReg(u1, even)
           p2 == NewReg(u2, ~even)
           e1 == FirstEntry(u1, p1)
           e2 == SecondEntry(u1, p1, u2, p2)
           r1 == Remap(rat, u1, p1)
           f1 == free \ {p1}
<1>1. /\ u1 \in Uop /\ u2 \in Uop /\ rat \in [LReg -> PReg]
      /\ Consistent(rat, free, rrat, rfree, rob)
  BY RegAssumption DEF RenameInv, AllocTwo, TypeOK
<1>d. /\ u1.dst # None => u1.dst \in LReg
      /\ u2.dst # None => u2.dst \in LReg
  BY <1>1 DEF Uop, LRegOrNone
<1>2. /\ u1.dst # None => p1 \in Pool(u1, even) /\ p1 \in free
      /\ u1.dst = None => p1 = None
  BY <1>1, NewRegFree, Zenon DEF AllocTwo
<1>3. /\ u2.dst # None => p2 \in Pool(u2, ~even) /\ p2 \in free
      /\ u2.dst = None => p2 = None
  <2>1. Enough(u2, ~even)
    BY Zenon DEF AllocTwo, SecondFits
  <2>2. QED
    BY <2>1, <1>1, NewRegFree, Zenon
<1>4. /\ rat' = Remap(r1, u2, p2) /\ free' = free \ {p1, p2}
      /\ rob' = Append(Append(rob, e1), e2)
      /\ rrat' = rrat /\ rfree' = rfree /\ late' = late /\ phase' = "active"
  BY DEF AllocTwo
<1>5. SecondFits(u1, u2, even)
  BY DEF AllocTwo
<1>6. free \subseteq PReg /\ None \notin free
  BY <1>1, RegAssumption DEF Consistent
<1> HIDE DEF p1, p2
<1>8. \A l \in LRegOrNone : Bypassed(l, u1, p1) = IF l = None THEN None ELSE r1[l]
  BY <1>1, <1>d, RegAssumption DEF LRegOrNone, Mapped, Bypassed, Remap, HasDst
<1>9. /\ e1 \in Entry
      /\ e1.dst = u1.dst /\ e1.pdst = p1 /\ (u1.dst # None => e1.old = rat[u1.dst])
      /\ e1.srcA = IF e1.srcA_arch = None THEN None ELSE rat[e1.srcA_arch]
      /\ e1.srcB \in Held(rat) \cup {None}
      /\ e1.data \in Held(rat) \cup {None}
      /\ e1.sd_complete => e1.data = None
  BY <1>1, <1>2, <1>6, NewEntryFits DEF FirstEntry, Mapped
<1>10. /\ u1.dst = None => r1 = rat /\ f1 = free
       /\ u1.dst # None => r1 = [rat EXCEPT ![u1.dst] = p1]
  BY <1>2, <1>6 DEF Remap, HasDst
<1> HIDE DEF e1, r1, f1
<1>11. Consistent(r1, f1, rrat, rfree, Append(rob, e1))
  BY <1>1, <1>2, <1>9, <1>10, AllocConsistent DEF f1
<1>12. r1 \in [LReg -> PReg]
  BY <1>11 DEF Consistent
<1>13. /\ e2 \in Entry
       /\ e2.dst = u2.dst /\ e2.pdst = p2 /\ (u2.dst # None => e2.old = r1[u2.dst])
       /\ e2.srcA = IF e2.srcA_arch = None THEN None ELSE r1[e2.srcA_arch]
       /\ e2.srcB \in Held(r1) \cup {None}
       /\ e2.data \in Held(r1) \cup {None}
       /\ e2.sd_complete => e2.data = None
  <2>1. u2.dst \in LRegOrNone /\ u2.srcA \in LRegOrNone /\ u2.srcB \in LRegOrNone
    BY <1>1 DEF Uop
  <2>2. /\ Bypassed(u2.dst, u1, p1) = IF u2.dst = None THEN None ELSE r1[u2.dst]
        /\ Bypassed(u2.srcA, u1, p1) = IF u2.srcA = None THEN None ELSE r1[u2.srcA]
        /\ Bypassed(u2.srcB, u1, p1) = IF u2.srcB = None THEN None ELSE r1[u2.srcB]
    BY <2>1, <1>8
  <2>3. /\ u2.dst # None => p2 \in PReg
        /\ u2.dst = None => p2 = None
    BY <1>3, <1>6
  <2> DEFINE o2 == Bypassed(u2.dst, u1, p1)
             a2 == Bypassed(u2.srcA, u1, p1)
             b2 == Bypassed(u2.srcB, u1, p1)
  <2>4. e2 = NewEntry(u2, p2, o2, a2, b2)
    BY DEF SecondEntry
  <2> HIDE DEF o2, a2, b2, e2
  <2>5. /\ o2 = IF u2.dst = None THEN None ELSE r1[u2.dst]
        /\ a2 = IF u2.srcA = None THEN None ELSE r1[u2.srcA]
        /\ b2 = IF u2.srcB = None THEN None ELSE r1[u2.srcB]
    BY <2>2 DEF o2, a2, b2
  <2> DEFINE e == NewEntry(u2, p2, o2, a2, b2)
  <2>6. /\ e \in Entry
        /\ e.dst = u2.dst /\ e.pdst = p2 /\ (u2.dst # None => e.old = r1[u2.dst])
        /\ e.srcA = IF e.srcA_arch = None THEN None ELSE r1[e.srcA_arch]
        /\ e.srcB \in Held(r1) \cup {None}
        /\ e.data \in Held(r1) \cup {None}
        /\ e.sd_complete => e.data = None
    <3>1. u2 \in Uop
      BY <1>1
    <3>2. QED
      BY <3>1, <2>3, <2>5, <1>12, NewEntryFits
  <2>7. QED
    BY <2>4, <2>6
<1>14. u2.dst # None => p2 \in f1
  <2>1. CASE u1.dst = None
    BY <2>1, <1>3, <1>10
  <2>2. CASE u1.dst # None
    BY <2>2, <1>1, <1>2, <1>3, <1>5, PairDiffers DEF f1
  <2>3. QED
    BY <2>1, <2>2
<1> HIDE DEF e2
<1>15. /\ u2.dst = None => rat' = r1 /\ free' = f1
       /\ u2.dst # None => rat' = [r1 EXCEPT ![u2.dst] = p2] /\ free' = f1 \ {p2}
  BY <1>3, <1>4, <1>6 DEF Remap, HasDst, f1
<1>16. Consistent(rat', free', rrat, rfree, Append(Append(rob, e1), e2))
  BY <1>11, <1>13, <1>14, <1>15, AllocConsistent
<1>17. DataFirst'
  <2>1. rob \in Seq(Entry) /\ Append(rob, e1) \in Seq(Entry)
    BY <1>1, <1>9 DEF Consistent
  <2>2. \A i \in 1 .. Len(rob) : rob[i].sd_complete => rob[i].data = None
    BY DEF RenameInv, DataFirst
  <2>3. \A i \in 1 .. Len(Append(rob, e1)) :
            Append(rob, e1)[i].sd_complete => Append(rob, e1)[i].data = None
    BY <2>1, <2>2, <1>9, AppendDataFirst
  <2>4. \A i \in 1 .. Len(rob') : rob'[i].sd_complete => rob'[i].data = None
    BY <2>1, <2>3, <1>4, <1>13, AppendDataFirst
  <2>5. QED
    BY <2>4, <1>4 DEF RenameInv, DataFirst
<1>18. QED
  BY <1>4, <1>16, <1>17, FromConsistent

LEMMA CompleteInv ==
    ASSUME RenameInv, NEW i \in 1 .. Len(rob), Complete(i)
    PROVE  RenameInv'
<1>1. /\ rob \in Seq(Entry) /\ rob[i] \in Entry
      /\ rob' = [rob EXCEPT ![i].complete = TRUE]
      /\ rat' = rat /\ free' = free /\ rrat' = rrat /\ rfree' = rfree /\ late' = late /\ phase' = phase
  BY DEF Complete, RenameInv, TypeOK
<1>2. rob' = [rob EXCEPT ![i] = [rob[i] EXCEPT !.complete = TRUE]]
  BY <1>1
<1>3. [rob[i] EXCEPT !.complete = TRUE] \in Entry
  BY <1>1 DEF Entry
<1>4. rob' \in Seq(Entry) /\ Len(rob') = Len(rob)
      /\ \A j \in 1 .. Len(rob) : rob'[j] = IF j = i THEN [rob[i] EXCEPT !.complete = TRUE] ELSE rob[j]
  BY <1>1, <1>2, <1>3
<1>5. \A j \in 1 .. Len(rob) :
          /\ rob'[j].dst = rob[j].dst /\ rob'[j].pdst = rob[j].pdst /\ rob'[j].old = rob[j].old
          /\ rob'[j].srcA_arch = rob[j].srcA_arch /\ rob'[j].srcA = rob[j].srcA
          /\ rob'[j].srcB = rob[j].srcB /\ rob'[j].data = rob[j].data
          /\ rob'[j].sd_complete = rob[j].sd_complete
          /\ rob[j].complete => rob'[j].complete
  BY <1>1, <1>4 DEF Entry
<1>6. TypeOK' /\ RetiredOwnership'
  BY <1>1, <1>4 DEF RenameInv, TypeOK, RetiredOwnership
<1>7. OperandHeld'
  BY <1>1, <1>4, <1>5 DEF RenameInv, OperandHeld, Unread
<1>8. phase' # "fault" => Consistent(rat', free', rrat', rfree', rob')
  <2> SUFFICES ASSUME phase # "fault" PROVE Consistent(rat, free, rrat, rfree, rob')
    BY <1>1
  <2>1. Consistent(rat, free, rrat, rfree, rob)
    BY DEF RenameInv
  <2>2. QED
    BY <2>1, <1>4, <1>5, MarkConsistent
<1>9. DataFirst'
  BY <1>1, <1>4, <1>5 DEF RenameInv, DataFirst
<1>10. QED
  BY <1>6, <1>7, <1>8, <1>9 DEF RenameInv

LEMMA StoreDataInv ==
    ASSUME RenameInv, NEW i \in 1 .. Len(rob), StoreData(i)
    PROVE  RenameInv'
<1> DEFINE e == [rob[i] EXCEPT !.data = None, !.sd_complete = TRUE]
<1>1. /\ rob \in Seq(Entry) /\ rob[i] \in Entry
      /\ rob' = [rob EXCEPT ![i].data = None, ![i].sd_complete = TRUE]
      /\ rat' = rat /\ free' = free /\ rrat' = rrat /\ rfree' = rfree /\ late' = late /\ phase' = phase
  BY DEF StoreData, RenameInv, TypeOK
<1>2. rob' = [rob EXCEPT ![i] = e]
  BY <1>1
<1>3. e \in Entry
  BY <1>1 DEF Entry, PRegOrNone
<1>e. /\ e.dst = rob[i].dst /\ e.pdst = rob[i].pdst /\ e.old = rob[i].old
      /\ e.srcA_arch = rob[i].srcA_arch /\ e.srcA = rob[i].srcA /\ e.srcB = rob[i].srcB
      /\ e.data = None /\ e.complete = rob[i].complete
  BY <1>1 DEF Entry
<1> HIDE DEF e
<1>s. rob \in Seq(Entry)
  BY <1>1
<1>4. rob' \in Seq(Entry) /\ Len(rob') = Len(rob)
      /\ \A j \in 1 .. Len(rob) : rob'[j] = IF j = i THEN e ELSE rob[j]
  BY <1>s, <1>2, <1>3
<1>5. \A j \in 1 .. Len(rob) :
          /\ rob'[j].dst = rob[j].dst /\ rob'[j].pdst = rob[j].pdst /\ rob'[j].old = rob[j].old
          /\ rob'[j].srcA_arch = rob[j].srcA_arch /\ rob'[j].srcA = rob[j].srcA
          /\ rob'[j].srcB = rob[j].srcB /\ rob'[j].data \in {None, rob[j].data}
          /\ rob'[j].complete = rob[j].complete
  BY <1>e, <1>4
<1>6. TypeOK' /\ RetiredOwnership'
  BY <1>1, <1>4 DEF RenameInv, TypeOK, RetiredOwnership
<1>7. OperandHeld'
  <2>1. None \notin free
    BY RegAssumption DEF RenameInv, TypeOK
  <2>2. QED
    BY <2>1, <1>1, <1>4, <1>5 DEF RenameInv, OperandHeld, Unread
<1>8. phase' # "fault" => Consistent(rat', free', rrat', rfree', rob')
  <2> SUFFICES ASSUME phase # "fault" PROVE Consistent(rat, free, rrat, rfree, rob')
    BY <1>1
  <2>1. Consistent(rat, free, rrat, rfree, rob)
    BY DEF RenameInv
  <2>2. QED
    BY <2>1, <1>4, <1>5, MarkConsistent
<1>9. DataFirst'
  BY <1>e, <1>1, <1>4 DEF RenameInv, DataFirst
<1>10. QED
  BY <1>6, <1>7, <1>8, <1>9 DEF RenameInv

LEMMA RetireInv ==
    ASSUME RenameInv, NEW next \in {phase, "drain"}, Retire(next)
    PROVE  RenameInv'
<1>1. Consistent(rat, free, rrat, rfree, rob) /\ rob # <<>>
  BY DEF Retire, RenameInv
<1>2. phase' \in {"active", "drain"}
  BY DEF Retire
<1>3. DataFirst'
  <2>1. rob \in Seq(Entry) /\ DataFirst
    BY DEF RenameInv, TypeOK
  <2>2. /\ Head(rob) = rob[1] /\ 1 \in 1 .. Len(rob)
        /\ Len(Tail(rob)) = Len(rob) - 1 /\ Len(rob) \in Nat
        /\ \A i \in 1 .. Len(rob) - 1 : i + 1 \in 1 .. Len(rob) /\ Tail(rob)[i] = rob[i + 1]
    BY <2>1, <1>1
  <2>3. DataLeft(Head(rob)) = {}
    BY <2>1, <2>2 DEF DataFirst, DataLeft, Retire, HeadComplete
  <2>4. QED
    BY <2>1, <2>2, <2>3 DEF DataFirst, Retire
<1>4. QED
  BY <1>1, <1>2, <1>3, RetireConsistent, FromConsistent DEF Retire

LEMMA RetireTwoInv ==
    ASSUME RenameInv, RetireTwo
    PROVE  RenameInv'
<1>1. Consistent(rat, free, rrat, rfree, rob) /\ rob \in Seq(Entry) /\ Len(rob) >= 2
  BY DEF RetireTwo, RenameInv, TypeOK
<1>2. rob # <<>> /\ Head(rob) = rob[1] /\ Tail(rob) # <<>> /\ Head(Tail(rob)) = rob[2]
  <2>1. rob # <<>> /\ Len(Tail(rob)) = Len(rob) - 1 /\ Tail(rob) \in Seq(Entry)
        /\ Tail(rob)[1] = rob[2]
    BY <1>1
  <2>2. Len(Tail(rob)) # 0
    BY <2>1, <1>1
  <2>. Len(<<>>) = 0
    OBVIOUS
  <2>3. Tail(rob) # <<>>
    BY <2>2
  <2>4. QED
    BY <2>1, <2>3, <1>1
<1> DEFINE f1 == Released(free, rob[1])
           rr1 == RetireRat(rrat, rob[1])
           rf1 == RetireFree(rfree, rob[1])
<1>3. Consistent(rat, f1, rr1, rf1, Tail(rob))
  BY <1>1, <1>2, RetireConsistent
<1>4. Consistent(rat, Released(f1, rob[2]), RetireRat(rr1, rob[2]),
                 RetireFree(rf1, rob[2]), Tail(Tail(rob)))
  <2> HIDE DEF f1, rr1, rf1
  <2>1. QED
    BY <1>2, <1>3, RetireConsistent
<1>5. phase' = "active"
  BY DEF RetireTwo
<1>6. DataFirst'
  <2>1. DataFirst /\ 1 \in 1 .. Len(rob) /\ 2 \in 1 .. Len(rob) /\ Len(rob) \in Nat
    BY <1>1 DEF RenameInv
  <2>2. DataLeft(rob[1]) = {} /\ DataLeft(rob[2]) = {}
    BY <2>1 DEF DataFirst, DataLeft, RetireTwo, HeadComplete
  <2>3. /\ Len(Tail(rob)) = Len(rob) - 1 /\ Tail(rob) \in Seq(Entry)
        /\ \A i \in 1 .. Len(rob) - 1 : Tail(rob)[i] = rob[i + 1]
    BY <1>1, <1>2
  <2>4. /\ Len(Tail(Tail(rob))) = Len(rob) - 2
        /\ \A i \in 1 .. Len(rob) - 2 : Tail(Tail(rob))[i] = Tail(rob)[i + 1]
    BY <2>1, <2>3, <1>2
  <2>5. \A i \in 1 .. Len(rob) - 2 : i + 2 \in 1 .. Len(rob) /\ Tail(Tail(rob))[i] = rob[i + 2]
    BY <2>1, <2>3, <2>4
  <2>6. QED
    BY <2>1, <2>2, <2>4, <2>5 DEF DataFirst, RetireTwo
<1>7. QED
  BY <1>4, <1>5, <1>6, FromConsistent DEF RetireTwo

\* A faulting entry leaves the ROB without being renamed back: the speculative
\* side is broken, the committed side and the pending operands are not.
LEMMA BumpInv ==
    ASSUME RenameInv, Bump
    PROVE  RenameInv'
<1>1. /\ rob \in Seq(Entry) /\ rob # <<>> /\ rob' = Tail(rob) /\ phase' = "fault"
      /\ rat' = rat /\ free' = free /\ rrat' = rrat /\ rfree' = rfree /\ late' = late
  BY DEF Bump, RenameInv, TypeOK
<1>2. /\ rob' \in Seq(Entry) /\ Len(rob') = Len(rob) - 1 /\ Len(rob) \in Nat
      /\ \A i \in 1 .. Len(rob) - 1 : i + 1 \in 1 .. Len(rob) /\ rob'[i] = rob[i + 1]
  BY <1>1
<1>3. TypeOK' /\ RetiredOwnership'
  BY <1>1, <1>2 DEF RenameInv, TypeOK, RetiredOwnership
<1>4. OperandHeld'
  BY <1>1, <1>2 DEF RenameInv, OperandHeld
<1>5. DataFirst'
  BY <1>1, <1>2 DEF RenameInv, DataFirst
<1>6. QED
  BY <1>1, <1>3, <1>4, <1>5 DEF RenameInv

\* The RAT state restores the speculative side from the committed one.
LEMMA RatCopyInv ==
    ASSUME RenameInv, RatCopy
    PROVE  RenameInv'
<1>1. /\ rat' = rrat /\ free' = rfree /\ rrat' = rrat /\ rfree' = rfree
      /\ rob' = <<>> /\ phase' = "active"
      /\ rrat \in [LReg -> PReg] /\ rfree = PReg \ Held(rrat) /\ Injective(rrat)
  BY DEF RatCopy, RenameInv, TypeOK, RetiredOwnership
<1>2. Len(<<>>) = 0 /\ Writers(<<>>) = {} /\ Old(<<>>) = {} /\ <<>> \in Seq(Entry)
  BY DEF Writers, Old
<1>3. Partition(rrat, rfree, <<>>)
  BY <1>1, <1>2 DEF Partition
<1>4. \A l \in LReg : Linked(rrat, <<>>, Len(<<>>) + 1, l, rrat[l])
  BY DEF Linked
<1>5. Consistent(rrat, rfree, rrat, rfree, <<>>)
  BY <1>1, <1>2, <1>3, <1>4 DEF Consistent
<1>6. DataFirst'
  BY <1>1, <1>2 DEF RatCopy, RenameInv, DataFirst
<1>7. QED
  BY <1>1, <1>5, <1>6, FromConsistent

-----------------------------------------------------------------------------
LEMMA StepInv ==
    ASSUME RenameInv, [Next]_vars
    PROVE  RenameInv'
<1>1. ASSUME NEW u \in Uops, NEW even \in BOOLEAN, Alloc(u, even) PROVE RenameInv'
  BY <1>1, AllocInv
<1>2. ASSUME NEW u1 \in Uops, NEW u2 \in Uops, NEW even \in BOOLEAN, AllocTwo(u1, u2, even)
      PROVE  RenameInv'
  BY <1>2, AllocTwoInv
<1>3. ASSUME NEW i \in 1 .. Len(rob), Complete(i) PROVE RenameInv'
  BY <1>3, CompleteInv
<1>4. ASSUME NEW i \in 1 .. Len(rob), StoreData(i) PROVE RenameInv'
  BY <1>4, StoreDataInv
<1>5. ASSUME NEW next \in {phase, "drain"}, Retire(next) PROVE RenameInv'
  BY <1>5, RetireInv
<1>6. CASE RetireTwo
  BY <1>6, RetireTwoInv
<1>7. CASE Bump
  BY <1>7, BumpInv
<1>8. CASE RatCopy
  BY <1>8, RatCopyInv
<1>9. CASE UNCHANGED vars
  BY <1>9 DEF vars, RenameInv, TypeOK, RetiredOwnership, OperandHeld, DataFirst
<1>10. QED
  BY <1>1, <1>2, <1>3, <1>4, <1>5, <1>6, <1>7, <1>8, <1>9, Zenon DEF Next

(***************************************************************************)
(* The inductive invariant holds in every reachable state, for any files,    *)
(* banks, uops and ROB size.                                                *)
(***************************************************************************)
THEOREM RenameInvariant == Spec => []RenameInv
  BY InitInv, StepInv, PTL DEF Spec

(***************************************************************************)
(* No physical register is ever in two places or in none: the free lists     *)
(* and the RATs of core.sv never hand out a register twice or lose one.      *)
(***************************************************************************)
THEOREM RegistersOwnedOnce == Spec => []Ownership
<1>1. RenameInv => Ownership
  BY DEF RenameInv, Ownership, Consistent
<1>2. QED
  BY <1>1, RenameInvariant, PTL

(***************************************************************************)
(* The committed map and the committed free list are complementary in every  *)
(* state, faults included: the RAT copy always restores a whole state.       *)
(***************************************************************************)
THEOREM CommittedOwnedOnce == Spec => []RetiredOwnership
<1>1. RenameInv => RetiredOwnership
  BY DEF RenameInv
<1>2. QED
  BY <1>1, RenameInvariant, PTL

(***************************************************************************)
(* A register that an instruction in flight has still to read, store data    *)
(* included, is never free.                                                 *)
(***************************************************************************)
THEOREM OperandsHeld == Spec => []OperandHeld
<1>1. RenameInv => OperandHeld
  BY DEF RenameInv
<1>2. QED
  BY <1>1, RenameInvariant, PTL

(***************************************************************************)
(* The oldest instruction's operand is the register that holds the committed *)
(* value of its logical name: renaming and the pair bypass are right.        *)
(***************************************************************************)
THEOREM SourcesCurrent == Spec => []SourceCurrent
<1>1. RenameInv => SourceCurrent
  <2> SUFFICES ASSUME RenameInv, rob # <<>>, phase # "fault", Head(rob).srcA_arch # None
               PROVE  Head(rob).srcA = rrat[Head(rob).srcA_arch]
    BY DEF SourceCurrent
  <2>1. rob \in Seq(Entry) /\ 1 \in 1 .. Len(rob) /\ Head(rob) = rob[1]
    BY DEF RenameInv, TypeOK
  <2>2. Linked(rrat, rob, 1, rob[1].srcA_arch, rob[1].srcA)
    BY <2>1 DEF RenameInv, Consistent
  <2>3. QED
    BY <2>1, <2>2 DEF Linked
<1>2. QED
  BY <1>1, RenameInvariant, PTL

-----------------------------------------------------------------------------
(* Results stay in their file, and so an empty ROB leaves a register free.   *)

LEMMA EntryInFile ==
    ASSUME NEW u \in Uops, NEW even \in BOOLEAN, Enough(u, even), NEW p, p = NewReg(u, even), u.dst # None
    PROVE  p \in PReg /\ PFile[p] = LFile[u.dst]
<1>1. u \in Uop
  BY RegAssumption
<1>2. p \in Pool(u, even)
  BY <1>1, NewRegFree
<1> QED
  BY <1>2 DEF Pool

LEMMA RemapInFile ==
    ASSUME NEW r \in [LReg -> PReg], InFile(r), NEW u \in Uops, NEW p,
           u.dst # None => p \in PReg /\ PFile[p] = LFile[u.dst]
    PROVE  Remap(r, u, p) \in [LReg -> PReg] /\ InFile(Remap(r, u, p))
BY DEF Remap, HasDst, InFile

LEMMA AppendInFile ==
    ASSUME NEW b \in Seq(Entry), NEW e, WritesInFile(b), e.dst # None => PFile[e.pdst] = LFile[e.dst]
    PROVE  WritesInFile(Append(b, e))
<1>1. /\ Len(b) \in Nat /\ Len(Append(b, e)) = Len(b) + 1
      /\ \A i \in 1 .. Len(b) : Append(b, e)[i] = b[i]
      /\ Append(b, e)[Len(b) + 1] = e
  OBVIOUS
<1> QED
  BY <1>1 DEF WritesInFile

LEMMA TailInFile ==
    ASSUME NEW b \in Seq(Entry), b # <<>>, WritesInFile(b)
    PROVE  Tail(b) \in Seq(Entry) /\ WritesInFile(Tail(b))
<1>1. /\ Tail(b) \in Seq(Entry) /\ Len(Tail(b)) = Len(b) - 1 /\ Len(b) \in Nat
      /\ \A i \in 1 .. Len(b) - 1 : i + 1 \in 1 .. Len(b) /\ Tail(b)[i] = b[i + 1]
  OBVIOUS
<1> QED
  BY <1>1 DEF WritesInFile

LEMMA RetireRatInFile ==
    ASSUME NEW r \in [LReg -> PReg], InFile(r), NEW b \in Seq(Entry), WritesInFile(b),
           NEW i \in 1 .. Len(b)
    PROVE  InFile(RetireRat(r, b[i]))
BY DEF RetireRat, InFile, WritesInFile

LEMMA RetireRatType ==
    ASSUME RenameInv, phase # "fault", NEW i \in 1 .. Len(rob)
    PROVE  RetireRat(rrat, rob[i]) \in [LReg -> PReg]
<1>1. rrat \in [LReg -> PReg] /\ (rob[i].dst # None => rob[i].pdst \in PReg)
  BY DEF RenameInv, TypeOK, Consistent, Writers
<1> QED
  BY <1>1 DEF RetireRat

LEMMA FilesStep ==
    ASSUME RenameInv, FilesKept, [Next]_vars
    PROVE  FilesKept'
<1>0. rat \in [LReg -> PReg] /\ rrat \in [LReg -> PReg] /\ rob \in Seq(Entry)
      /\ InFile(rat) /\ InFile(rrat) /\ WritesInFile(rob)
  BY DEF RenameInv, TypeOK, FilesKept
<1>1. ASSUME NEW u \in Uops, NEW even \in BOOLEAN, Alloc(u, even) PROVE FilesKept'
  <2>1. PICK p : p = NewReg(u, even)
    OBVIOUS
  <2>2. u.dst # None => p \in PReg /\ PFile[p] = LFile[u.dst]
    BY <1>1, <2>1, EntryInFile DEF Alloc
  <2>3. PICK e : e = FirstEntry(u, p)
    OBVIOUS
  <2>4. e.dst = u.dst /\ e.pdst = p
    BY <2>3 DEF FirstEntry, NewEntry
  <2>5. InFile(Remap(rat, u, p)) /\ WritesInFile(Append(rob, e))
    BY <1>0, <2>2, <2>4, RemapInFile, AppendInFile
  <2> QED
    BY <1>0, <1>1, <2>1, <2>3, <2>5 DEF Alloc, FilesKept
<1>2. ASSUME NEW u1 \in Uops, NEW u2 \in Uops, NEW even \in BOOLEAN, AllocTwo(u1, u2, even) PROVE FilesKept'
  <2>1. PICK p1, p2 : p1 = NewReg(u1, even) /\ p2 = NewReg(u2, ~even)
    OBVIOUS
  <2>2. /\ u1.dst # None => p1 \in PReg /\ PFile[p1] = LFile[u1.dst]
        /\ u2.dst # None => p2 \in PReg /\ PFile[p2] = LFile[u2.dst]
    BY <1>2, <2>1, EntryInFile DEF AllocTwo, SecondFits
  <2>3. PICK e1, e2 : e1 = FirstEntry(u1, p1) /\ e2 = SecondEntry(u1, p1, u2, p2)
    OBVIOUS
  <2>4. e1.dst = u1.dst /\ e1.pdst = p1 /\ e2.dst = u2.dst /\ e2.pdst = p2
    BY <2>3 DEF FirstEntry, SecondEntry, NewEntry
  <2>5. Remap(rat, u1, p1) \in [LReg -> PReg] /\ InFile(Remap(rat, u1, p1))
    BY <1>0, <2>2, RemapInFile
  <2>6. InFile(Remap(Remap(rat, u1, p1), u2, p2))
    BY <2>2, <2>5, RemapInFile
  <2>7. WritesInFile(Append(Append(rob, e1), e2))
    <3>1. rob' \in Seq(Entry) /\ rob' = Append(Append(rob, e1), e2)
      BY <1>2, <2>1, <2>3, AllocTwoInv DEF AllocTwo, RenameInv, TypeOK
    <3>2. e1 \in Entry
      BY <2>3, <3>1, <1>0
    <3>3. Append(rob, e1) \in Seq(Entry) /\ WritesInFile(Append(rob, e1))
      BY <1>0, <2>2, <2>4, <3>2, AppendInFile
    <3> QED
      BY <2>2, <2>4, <3>3, AppendInFile
  <2> QED
    BY <1>0, <1>2, <2>1, <2>3, <2>6, <2>7 DEF AllocTwo, FilesKept
<1>3. ASSUME NEW i \in 1 .. Len(rob), Complete(i) \/ StoreData(i) PROVE FilesKept'
  <2>1. /\ rat' = rat /\ rrat' = rrat /\ Len(rob') = Len(rob)
        /\ \A k \in 1 .. Len(rob) : rob'[k].dst = rob[k].dst /\ rob'[k].pdst = rob[k].pdst
    <3>1. CASE Complete(i)
      <4>1. rob' = [rob EXCEPT ![i] = [rob[i] EXCEPT !.complete = TRUE]] /\ rat' = rat /\ rrat' = rrat
        BY <1>0, <3>1 DEF Complete
      <4>2. \A k \in 1 .. Len(rob) : rob[k] \in Entry
        BY <1>0
      <4> QED
        BY <1>0, <4>1, <4>2 DEF Entry
    <3>2. CASE StoreData(i)
      <4>1. /\ rob' = [rob EXCEPT ![i] = [rob[i] EXCEPT !.data = None, !.sd_complete = TRUE]]
            /\ rat' = rat /\ rrat' = rrat
        BY <1>0, <3>2 DEF StoreData
      <4>2. \A k \in 1 .. Len(rob) : rob[k] \in Entry
        BY <1>0
      <4> QED
        BY <1>0, <4>1, <4>2 DEF Entry
    <3> QED
      BY <1>3, <3>1, <3>2
  <2> QED
    BY <1>0, <2>1 DEF FilesKept, InFile, WritesInFile
<1>5. ASSUME NEW next \in {phase, "drain"}, Retire(next) PROVE FilesKept'
  <2>1. rob # <<>> /\ Head(rob) = rob[1] /\ 1 \in 1 .. Len(rob)
    BY <1>0, <1>5 DEF Retire
  <2>2. InFile(RetireRat(rrat, rob[1])) /\ WritesInFile(Tail(rob))
    BY <1>0, <2>1, RetireRatInFile, TailInFile
  <2> QED
    BY <1>0, <1>5, <2>1, <2>2 DEF Retire, FilesKept
<1>6. CASE RetireTwo
  <2>1. rob # <<>> /\ 1 \in 1 .. Len(rob) /\ 2 \in 1 .. Len(rob) /\ phase # "fault"
    BY <1>0, <1>6 DEF RetireTwo
  <2>2. RetireRat(rrat, rob[1]) \in [LReg -> PReg] /\ InFile(RetireRat(rrat, rob[1]))
    BY <1>0, <2>1, RetireRatType, RetireRatInFile
  <2>3. InFile(RetireRat(RetireRat(rrat, rob[1]), rob[2]))
    BY <1>0, <2>1, <2>2, RetireRatInFile
  <2>4. Tail(rob) \in Seq(Entry) /\ WritesInFile(Tail(rob)) /\ Tail(rob) # <<>>
    <3>1. Len(Tail(rob)) = Len(rob) - 1 /\ Len(rob) >= 2 /\ Len(rob) \in Nat
      BY <1>0, <1>6, <2>1 DEF RetireTwo
    <3>2. Len(Tail(rob)) # 0
      <4>1. PICK n, m : n = Len(rob) /\ m = Len(Tail(rob))
        OBVIOUS
      <4>2. n \in Nat /\ n >= 2 /\ m = n - 1
        BY <3>1, <4>1, Zenon
      <4>3. m # 0
        BY <4>2
      <4> QED
        BY <4>1, <4>3, Zenon
    <3>a. Len(<<>>) = 0
      OBVIOUS
    <3>3. Tail(rob) # <<>>
      BY <3>2, <3>a
    <3> QED
      BY <1>0, <2>1, <3>3, TailInFile
  <2>5. WritesInFile(Tail(Tail(rob)))
    BY <2>4, TailInFile
  <2> QED
    BY <1>0, <1>6, <2>3, <2>5 DEF RetireTwo, FilesKept
<1>7. CASE Bump
  BY <1>0, <1>7, TailInFile DEF Bump, FilesKept
<1>8. CASE RatCopy
  <2>1. WritesInFile(<<>>)
    BY DEF WritesInFile
  <2> QED
    BY <1>0, <1>8, <2>1 DEF RatCopy, FilesKept
<1>9. CASE UNCHANGED vars
  BY <1>0, <1>9 DEF vars, FilesKept
<1> QED
  BY <1>1, <1>2, <1>3, <1>5, <1>6, <1>7, <1>8, <1>9, Zenon DEF Next

\* With an empty ROB the registers of a file that are not free are the images of
\* its logical ones: there are too few of those to use up a half.
LEMMA RegisterLeft ==
    ASSUME RenameInv, FilesKept, rob = <<>>, phase = "active", NEW u \in Uops, u.dst # None,
           \A even \in BOOLEAN : Pool(u, even) \cap free = {}
    PROVE  FALSE
<1> DEFINE Same == {l \in LReg : LFile[l] = LFile[u.dst]}
           Half == Pool(u, TRUE) \cup Pool(u, FALSE)
           Img  == {rat[l] : l \in Same}
<1>1. Old(rob) = {}
  BY DEF Old, Writers
<1>2. Partition(rat, free, rob)
  BY DEF RenameInv, Consistent
<1>3. ASSUME NEW p \in Half PROVE p \in Img
  <2>1. p \in PReg /\ p \notin free /\ PFile[p] = LFile[u.dst]
    BY DEF Pool
  <2>2. p \in Held(rat)
    BY <1>1, <1>2, <2>1 DEF Partition
  <2>3. PICK l \in LReg : p = rat[l]
    BY <2>2 DEF Held
  <2>4. l \in Same
    BY <2>1, <2>3 DEF FilesKept, InFile
  <2> QED
    BY <2>3, <2>4
<1>4. IsFiniteSet(Same)
  BY CapacityAssumption, FS_Subset
<1>5. Cardinality(Same) < Cardinality(Half)
  BY CapacityAssumption
<1> HIDE DEF Same, Half
<1>6. IsFiniteSet(Img) /\ Cardinality(Img) <= Cardinality(Same)
  <2> DEFINE f == [l \in Same |-> rat[l]]
  <2>1. f \in Surjection(Same, Img)
    BY DEF Surjection
  <2> HIDE DEF f, Img
  <2> QED
    BY <1>4, <2>1, FS_Surjection
<1> HIDE DEF Img
<1>7. IsFiniteSet(Half) /\ Cardinality(Half) <= Cardinality(Img)
  BY <1>3, <1>6, FS_Subset
<1>8. Cardinality(Half) \in Nat /\ Cardinality(Img) \in Nat /\ Cardinality(Same) \in Nat
  BY <1>4, <1>6, <1>7, FS_CardinalityType
<1> QED
  BY <1>5, <1>6, <1>7, <1>8

(***************************************************************************)
(* Renaming cannot wedge: with an empty ROB one of the two parities has a    *)
(* register for any uop, however unevenly the banks of core.sv's free lists  *)
(* were drained.  It needs halves larger than the logical file.              *)
(***************************************************************************)
THEOREM RenamingNeverWedges == Spec => []NeverWedged
<1>1. Init => FilesKept
  <2> SUFFICES ASSUME Init PROVE FilesKept
    OBVIOUS
  <2>1. rat = Reset /\ rrat = Reset /\ Len(rob) = 0
    BY DEF Init
  <2> QED
    BY <2>1, ResetAssumption DEF FilesKept, InFile, WritesInFile
<1>2. RenameInv /\ FilesKept => NeverWedged
  <2> SUFFICES ASSUME RenameInv, FilesKept, rob = <<>>, phase = "active", NEW u \in Uops
               PROVE  \E even \in BOOLEAN : Enough(u, even)
    BY DEF NeverWedged
  <2> QED
    BY RegisterLeft DEF Enough, HasDst
<1>3. RenameInv /\ FilesKept /\ [Next]_vars => FilesKept'
  BY FilesStep
<1> QED
  BY <1>1, <1>2, <1>3, RenameInvariant, PTL DEF Spec
=============================================================================
