--------------------------- MODULE RowStoreShares ---------------------------
(****************************************************************************)
(* The share counts of RowStore: own_store asks a count whether a write     *)
(* needs a copy, and the count covers every share that is kept.  So a write *)
(* never reaches a store of a value kept elsewhere, and a kept value stays  *)
(* as it is.                                                                *)
(****************************************************************************)
EXTENDS RowStoreProofs

(* Counts never wrap: there are fewer descriptors than a count of 32 bits tells apart. *)
CountsSuffice == Cardinality(DescAddr) + 1 < RcMod

-----------------------------------------------------------------------------
(* The invariant of counts. *)

(* the descriptors that have a share of the store st *)
Sharers(H, st) == {r \in DOMAIN H.d : H.d[r].base = st /\ ~H.d[r].pad2}

(* the count c covers the sharers S, but for those of X, and at most one more than S: a leaf that
   gave way to slots keeps its count *)
Covers(c, S, X) == Cardinality(S \ X) <= c /\ c <= Cardinality(S) + 1

(* the descriptor r has a share that is counted *)
Shares(H, X, r) == r \in DOMAIN H.d \ X /\ ~H.d[r].pad2

(* X are descriptors that nothing leads to and that have shares no count knows of: those row_replace
   leaves behind.  K are the descriptors of cells, R those of rows on the operand stack. *)
Counted(H, K, R, X) ==
  /\ X \subseteq DOMAIN H.d /\ R \cap X = None
  /\ \A st \in DOMAIN H.s : Covers(H.s[st].rc, Sharers(H, st), X)
  /\ \A r \in K : Shares(H, X, r)
  /\ \A st \in DOMAIN H.s : \A i \in DOMAIN H.s[st].e :
       IsRow(H.s[st].e[i]) => Shares(H, X, H.s[st].e[i])

-----------------------------------------------------------------------------
(* Counting. *)

(* The sharers of a store can be counted. *)
LEMMA SharersFinite ==
  ASSUME NEW H, Shape(H), NEW st
  PROVE  /\ IsFiniteSet(Sharers(H, st)) /\ Cardinality(Sharers(H, st)) \in Nat
         /\ Cardinality(Sharers(H, st)) <= Cardinality(DescAddr) /\ Cardinality(DescAddr) \in Nat
<1>1. Sharers(H, st) \subseteq DescAddr
  BY ShapeParts DEF Sharers
<1>2. IsFiniteSet(Sharers(H, st)) /\ Cardinality(Sharers(H, st)) <= Cardinality(DescAddr)
  BY <1>1, FS_Subset, Addresses
<1>3. QED
  BY <1>2, FS_CardinalityType, Addresses

(* The counts of a set and of the part of it that is not in X. *)
LEMMA PartCount ==
  ASSUME NEW S, IsFiniteSet(S), NEW X
  PROVE  IsFiniteSet(S \ X) /\ Cardinality(S) \in Nat /\ Cardinality(S \ X) \in Nat
<1>1. S \ X \in SUBSET S
  OBVIOUS
<1>2. IsFiniteSet(S \ X)
  BY <1>1, FS_Subset
<1>3. QED
  BY <1>2, FS_CardinalityType

(* One sharer more, and one share more. *)
LEMMA OneSharer ==
  ASSUME NEW S, IsFiniteSet(S), NEW X, NEW c \in Nat, Covers(c, S, X), NEW k, k \notin S
  PROVE  /\ Covers(c + 1, S \cup {k}, X) /\ Cardinality(S \cup {k}) = Cardinality(S) + 1
         /\ c <= Cardinality(S \cup {k})
<1>1. /\ IsFiniteSet(S \ X) /\ Cardinality(S) \in Nat /\ Cardinality(S \ X) \in Nat
  BY PartCount
<1>2. Cardinality(S \cup {k}) = Cardinality(S) + 1
  BY FS_AddElement
<1>3. Cardinality((S \cup {k}) \ X) \in {Cardinality(S \ X), Cardinality(S \ X) + 1}
  <2>1. CASE k \in X
    <3>1. (S \cup {k}) \ X = S \ X
      BY <2>1
    <3>2. QED
      BY <3>1
  <2>2. CASE k \notin X
    <3>1. (S \cup {k}) \ X = (S \ X) \cup {k} /\ k \notin S \ X
      BY <2>2
    <3>2. QED
      BY <1>1, <3>1, FS_AddElement
  <2>3. QED
    BY <2>1, <2>2
<1>4. QED
  BY <1>1, <1>2, <1>3 DEF Covers

(* One sharer less, and one share less: or none, if there was no other. *)
LEMMA NoSharer ==
  ASSUME NEW S, IsFiniteSet(S), NEW X, NEW c \in Nat, Covers(c, S, X), NEW o \in S, o \notin X
  PROVE  c > 0 /\ Covers(c - 1, S \ {o}, X) /\ (c <= 1 => Covers(c, S \ {o}, X))
<1>1. /\ IsFiniteSet(S \ X) /\ Cardinality(S) \in Nat /\ Cardinality(S \ X) \in Nat
  BY PartCount
<1>2. Cardinality(S \ {o}) = Cardinality(S) - 1
  BY FS_RemoveElement
<1>3. Cardinality((S \ {o}) \ X) = Cardinality(S \ X) - 1
  <2>1. (S \ {o}) \ X = (S \ X) \ {o} /\ o \in S \ X
    OBVIOUS
  <2>2. QED
    BY <1>1, <2>1, FS_RemoveElement
<1>4. IsFiniteSet(S \ {o}) /\ IsFiniteSet((S \ {o}) \ X)
  BY <1>1, FS_RemoveElement, PartCount
<1>5. Cardinality(S \ {o}) \in Nat /\ Cardinality((S \ {o}) \ X) \in Nat
  BY <1>4, FS_CardinalityType
<1>6. QED
  BY <1>1, <1>2, <1>3, <1>5 DEF Covers

(* A new store with a share. *)
LEMMA FirstShare ==
  ASSUME NEW X, NEW S, NEW o, S \subseteq {o}
  PROVE  Covers(1, S, X)
<1>1. S = {} \/ S = {o}
  OBVIOUS
<1>2. IsFiniteSet(S) /\ Cardinality(S) \in {0, 1}
  <2>1. CASE S = {}
    BY <2>1, FS_EmptySet
  <2>2. CASE S = {o}
    BY <2>2, FS_Singleton
  <2>3. QED
    BY <1>1, <2>1, <2>2
<1>3. S \ X \in {{}, {o}}
  OBVIOUS
<1>4. Cardinality(S \ X) \in {0, 1}
  <2>1. CASE S \ X = {}
    BY <2>1, FS_EmptySet
  <2>2. CASE S \ X = {o}
    BY <2>2, FS_Singleton
  <2>3. QED
    BY <1>3, <2>1, <2>2
<1>5. QED
  BY <1>2, <1>4 DEF Covers

(* A count of one covers a set if it covers the part that counts. *)
LEMMA PartCovers ==
  ASSUME NEW S, IsFiniteSet(S), NEW X, Covers(1, S \ X, X)
  PROVE  Covers(1, S, X)
<1>1. Cardinality(S) \in Nat /\ Cardinality(S \ X) \in Nat
  BY PartCount
<1>2. (S \ X) \ X = S \ X
  OBVIOUS
<1>3. Cardinality((S \ X) \ X) = Cardinality(S \ X)
  BY <1>2
<1>4. Cardinality(S \ X) <= 1
  BY <1>3 DEF Covers
<1>5. QED
  BY <1>1, <1>4 DEF Covers

(* More that is not counted. *)
LEMMA FewerCounted ==
  ASSUME NEW S, IsFiniteSet(S), NEW X, NEW Y, X \subseteq Y, NEW c \in Nat, Covers(c, S, X)
  PROVE  Covers(c, S, Y)
<1>1. IsFiniteSet(S \ X) /\ S \ Y \in SUBSET (S \ X)
  BY PartCount
<1>2. Cardinality(S \ Y) <= Cardinality(S \ X)
  BY <1>1, FS_Subset
<1>3. Cardinality(S \ X) \in Nat /\ Cardinality(S \ Y) \in Nat /\ Cardinality(S) \in Nat
  BY PartCount
<1>4. QED
  BY <1>2, <1>3 DEF Covers

-----------------------------------------------------------------------------
(* Changes of a heap. *)

(* The elements of G that are rows have shares in H. *)
RowsShare(H, G, X) ==
  \A t \in DOMAIN G.s : \A i \in DOMAIN G.s[t].e :
    IsRow(G.s[t].e[i]) => Shares(H, X, G.s[t].e[i])

(* What has a share keeps it. *)
SharesStay(H, G, X) == \A r : Shares(H, X, r) => Shares(G, X, r)

(* the shares of G, from those of H *)
LEMMA CountedAgain ==
  ASSUME NEW H, NEW G, NEW K, NEW R, NEW X, NEW Y, Counted(H, K, R, X), DOMAIN H.d \subseteq DOMAIN G.d,
         \A r : Shares(H, X, r) => Shares(G, Y, r), RowsShare(H, G, X), Y \subseteq DOMAIN G.d,
         R \cap Y = None, \A t \in DOMAIN G.s : Covers(G.s[t].rc, Sharers(G, t), Y)
  PROVE  Counted(G, K, R, Y)
BY DEF Counted, RowsShare

(* The counts of a heap are numbers. *)
LEMMA RcIsNat ==
  ASSUME NEW H, Shape(H), NEW st \in DOMAIN H.s
  PROVE  H.s[st].rc \in Nat /\ H.s[st].rc \in 0 .. RcMod - 1
BY ShapeParts, StoreParts

(* A count that does not wrap. *)
LEMMA NotWrapped ==
  ASSUME NEW c \in Nat, c + 1 < RcMod
  PROVE  (c + 1) % RcMod = c + 1
BY Sizes

(* k, new or a borrow until now, comes to have a share of the store st. *)
Gains(H, G, st, k) ==
  /\ k \in DOMAIN H.d => H.d[k].pad2
  /\ DOMAIN G.d = DOMAIN H.d \cup {k} /\ \A q \in DOMAIN H.d \ {k} : G.d[q] = H.d[q]
  /\ G.d[k].base = st /\ G.d[k].pad2 = FALSE
  /\ SameElements(H, G) /\ \A t \in DOMAIN H.s \ {st} : G.s[t].rc = H.s[t].rc
  /\ G.s[st].rc = (H.s[st].rc + 1) % RcMod
LEMMA GainShare ==
  ASSUME CountsSuffice, NEW H, Shape(H), NEW G, Shape(G), NEW K, NEW R, NEW X,
         Counted(H, K, R, X), NEW st \in DOMAIN H.s, NEW k, k \notin X, Gains(H, G, st, k)
  PROVE  Counted(G, K, R, X) /\ Shares(G, X, k)
<1>1. Sharers(G, st) = Sharers(H, st) \cup {k} /\ k \notin Sharers(H, st)
  BY DEF Gains, Sharers
<1>2. ASSUME NEW t \in DOMAIN H.s \ {st} PROVE Sharers(G, t) = Sharers(H, t)
  BY DEF Gains, Sharers
<1>3. PICK c : c = H.s[st].rc
  OBVIOUS
<1>4. PICK S : S = Sharers(H, st)
  OBVIOUS
<1>5. c \in Nat /\ IsFiniteSet(S) /\ Covers(c, S, X) /\ k \notin S /\ Sharers(G, st) = S \cup {k}
  BY <1>1, <1>3, <1>4, RcIsNat, SharersFinite DEF Counted
<1>6. /\ Covers(c + 1, S \cup {k}, X) /\ c <= Cardinality(S \cup {k})
  BY <1>5, OneSharer
<1>7. c + 1 < RcMod
  <2>1. /\ Cardinality(S \cup {k}) \in Nat /\ Cardinality(S \cup {k}) <= Cardinality(DescAddr)
        /\ Cardinality(DescAddr) \in Nat
    BY <1>5, SharersFinite
  <2>2. QED
    BY <1>5, <1>6, <2>1, Sizes DEF CountsSuffice
<1>8. G.s[st].rc = c + 1
  BY <1>3, <1>5, <1>7, NotWrapped DEF Gains
<1>9. ASSUME NEW t \in DOMAIN G.s PROVE Covers(G.s[t].rc, Sharers(G, t), X)
  <2>1. CASE t = st
    BY <1>5, <1>6, <1>8, <2>1
  <2>2. CASE t # st
    <3>1. t \in DOMAIN H.s \ {st} /\ G.s[t].rc = H.s[t].rc
      BY <2>2 DEF Gains, SameElements
    <3>2. QED
      BY <1>2, <3>1 DEF Counted
  <2>3. QED
    BY <2>1, <2>2
<1>10. \A r : Shares(H, X, r) => Shares(G, X, r)
  BY DEF Gains, Shares
<1>11. RowsShare(H, G, X)
  BY DEF RowsShare, Counted, Gains, SameElements
<1>12. DOMAIN H.d \subseteq DOMAIN G.d /\ X \subseteq DOMAIN G.d /\ R \cap X = None
  BY DEF Counted, Gains
<1>13. Counted(G, K, R, X)
  BY <1>9, <1>10, <1>11, <1>12, CountedAgain
<1>14. Shares(G, X, k)
  BY DEF Shares, Gains
<1>15. QED
  BY <1>13, <1>14

(* No share is taken or given: descriptors that are new are borrows, or parts of variables. *)
SameShares(H, G) ==
  /\ DOMAIN H.d \subseteq DOMAIN G.d /\ DOMAIN G.s = DOMAIN H.s
  /\ \A q \in DOMAIN H.d : G.d[q].base = H.d[q].base /\ G.d[q].pad2 = H.d[q].pad2
  /\ \A q \in DOMAIN G.d \ DOMAIN H.d : G.d[q].pad2 \/ G.d[q].base \notin DOMAIN H.s
  /\ \A t \in DOMAIN H.s : G.s[t].rc = H.s[t].rc
LEMMA NoShare ==
  ASSUME NEW H, NEW G, NEW K, NEW R, NEW X, Counted(H, K, R, X), SameShares(H, G),
         RowsShare(H, G, X)
  PROVE  Counted(G, K, R, X) /\ SharesStay(H, G, X)
<1>1. ASSUME NEW t \in DOMAIN G.s PROVE Covers(G.s[t].rc, Sharers(G, t), X)
  <2>1. Sharers(G, t) = Sharers(H, t)
    BY DEF SameShares, Sharers
  <2>2. QED
    BY <2>1 DEF SameShares, Counted
<1>2. \A r : Shares(H, X, r) => Shares(G, X, r)
  BY DEF SameShares, Shares
<1>3. DOMAIN H.d \subseteq DOMAIN G.d /\ X \subseteq DOMAIN G.d /\ R \cap X = None
  BY DEF Counted, SameShares
<1>4. QED
  BY <1>1, <1>2, <1>3, CountedAgain DEF SharesStay

(* The share of o goes over to a new store k, which it is the first to share: the store it had loses a
   share, or keeps the count if it was the last. *)
Moves(H, G, o, k) ==
  LET st == H.d[o].base
  IN /\ DOMAIN G.d = DOMAIN H.d /\ \A q \in DOMAIN H.d \ {o} : G.d[q] = H.d[q]
     /\ G.d[o].base = k /\ G.d[o].pad2 = H.d[o].pad2 /\ st \in DOMAIN H.s
     /\ k \notin DOMAIN H.s /\ DOMAIN G.s = DOMAIN H.s \cup {k} /\ G.s[k].rc = 1
     /\ \A q \in DOMAIN H.d : H.d[q].base # k
     /\ \A t \in DOMAIN H.s \ {st} : G.s[t].rc = H.s[t].rc
     /\ \/ G.s[st].rc = H.s[st].rc - 1
        \/ G.s[st].rc = H.s[st].rc /\ H.s[st].rc <= 1
LEMMA MoveShare ==
  ASSUME NEW H, Shape(H), NEW G, NEW K, NEW R, NEW X, Counted(H, K, R, X), NEW o, Shares(H, X, o),
         NEW k, Moves(H, G, o, k), RowsShare(H, G, X)
  PROVE  Counted(G, K, R, X) /\ SharesStay(H, G, X)
<1>1. PICK st : st = H.d[o].base
  OBVIOUS
<1>2. PICK c : c = H.s[st].rc
  OBVIOUS
<1>3. PICK S : S = Sharers(H, st)
  OBVIOUS
<1>4. /\ DOMAIN G.d = DOMAIN H.d /\ \A q \in DOMAIN H.d \ {o} : G.d[q] = H.d[q]
      /\ G.d[o].base = k /\ G.d[o].pad2 = H.d[o].pad2 /\ st \in DOMAIN H.s
      /\ k \notin DOMAIN H.s /\ DOMAIN G.s = DOMAIN H.s \cup {k} /\ G.s[k].rc = 1
      /\ \A q \in DOMAIN H.d : H.d[q].base # k
      /\ \A t \in DOMAIN H.s \ {st} : G.s[t].rc = H.s[t].rc
      /\ (G.s[st].rc = c - 1 \/ (G.s[st].rc = c /\ c <= 1))
  BY <1>1, <1>2 DEF Moves
<1>5. o \in DOMAIN H.d /\ o \notin X /\ ~H.d[o].pad2 /\ o \in S
  BY <1>1, <1>3 DEF Shares, Sharers
<1>6. /\ Sharers(G, st) = S \ {o} /\ Sharers(G, k) \subseteq {o}
      /\ \A t \in DOMAIN H.s \ {st} : Sharers(G, t) = Sharers(H, t)
  BY <1>1, <1>3, <1>4, <1>5 DEF Sharers
<1>7. c \in Nat /\ IsFiniteSet(S) /\ Covers(c, S, X)
  BY <1>2, <1>3, <1>4, RcIsNat, SharersFinite DEF Counted
<1>8. c > 0 /\ Covers(c - 1, S \ {o}, X) /\ (c <= 1 => Covers(c, S \ {o}, X))
  BY <1>5, <1>7, NoSharer
<1>9. ASSUME NEW t \in DOMAIN G.s PROVE Covers(G.s[t].rc, Sharers(G, t), X)
  <2>1. CASE t = st
    BY <1>4, <1>6, <1>8, <2>1
  <2>2. CASE t = k
    BY <1>4, <1>6, <2>2, FirstShare
  <2>3. CASE t # st /\ t # k
    <3>1. t \in DOMAIN H.s \ {st} /\ G.s[t].rc = H.s[t].rc /\ Sharers(G, t) = Sharers(H, t)
      BY <1>4, <1>6, <2>3
    <3>2. QED
      BY <3>1 DEF Counted
  <2>4. QED
    BY <2>1, <2>2, <2>3
<1>10. \A r : Shares(H, X, r) => Shares(G, X, r)
  BY <1>4 DEF Shares
<1>11. DOMAIN H.d \subseteq DOMAIN G.d /\ X \subseteq DOMAIN G.d /\ R \cap X = None
  BY <1>4 DEF Counted
<1>12. QED
  BY <1>9, <1>10, <1>11, CountedAgain DEF SharesStay

(* A new store st, and a new descriptor k that has the first share of it. *)
Makes(H, G, k, st) ==
  /\ k \notin DOMAIN H.d /\ DOMAIN G.d = DOMAIN H.d \cup {k}
  /\ \A q \in DOMAIN H.d : G.d[q] = H.d[q] /\ H.d[q].base # st
  /\ G.d[k].base = st /\ G.d[k].pad2 = FALSE
  /\ st \notin DOMAIN H.s /\ DOMAIN G.s = DOMAIN H.s \cup {st} /\ G.s[st].rc = 1
  /\ \A t \in DOMAIN H.s : G.s[t].rc = H.s[t].rc
LEMMA MakeShare ==
  ASSUME NEW H, NEW G, NEW K, NEW R, NEW X, Counted(H, K, R, X), NEW k, NEW st, Makes(H, G, k, st),
         RowsShare(H, G, X)
  PROVE  Counted(G, K, R, X) /\ SharesStay(H, G, X) /\ Shares(G, X, k) /\ k \notin X
<1>1. ASSUME NEW t \in DOMAIN G.s PROVE Covers(G.s[t].rc, Sharers(G, t), X)
  <2>1. CASE t = st
    <3>1. Sharers(G, t) \subseteq {k} /\ G.s[t].rc = 1
      BY <2>1 DEF Makes, Sharers
    <3>2. QED
      BY <3>1, FirstShare
  <2>2. CASE t # st
    <3>1. t \in DOMAIN H.s /\ G.s[t].rc = H.s[t].rc /\ Sharers(G, t) = Sharers(H, t)
      BY <2>2 DEF Makes, Sharers
    <3>2. QED
      BY <3>1 DEF Counted
  <2>3. QED
    BY <2>1, <2>2
<1>2. \A r : Shares(H, X, r) => Shares(G, X, r)
  BY DEF Makes, Shares
<1>3. DOMAIN H.d \subseteq DOMAIN G.d /\ X \subseteq DOMAIN G.d /\ R \cap X = None
  BY DEF Counted, Makes
<1>4. k \notin X
  BY DEF Counted, Makes
<1>5. Shares(G, X, k)
  BY <1>4 DEF Makes, Shares
<1>6. QED
  BY <1>1, <1>2, <1>3, <1>4, <1>5, CountedAgain DEF SharesStay

(* The share of o goes over to the store ns of the descriptor k, whose own share is lost: no count
   knows of it. *)
Takes(H, G, o, k, ns) ==
  LET st == H.d[o].base
  IN /\ DOMAIN G.d = DOMAIN H.d /\ \A q \in DOMAIN H.d \ {o} : G.d[q] = H.d[q]
     /\ G.d[o].base = ns /\ G.d[o].pad2 = H.d[o].pad2 /\ st \in DOMAIN H.s /\ st # ns
     /\ DOMAIN G.s = DOMAIN H.s /\ G.s[ns].rc = 1
     /\ \A q \in DOMAIN H.d : H.d[q].base = ns => q = k
     /\ \A t \in DOMAIN H.s \ {st} : G.s[t].rc = H.s[t].rc
     /\ H.s[st].rc > 0 => G.s[st].rc = H.s[st].rc - 1
(* nothing leads to the descriptor k *)
Loose(H, K, R, k) ==
  /\ k \in DOMAIN H.d /\ k \notin K /\ k \notin R
  /\ \A t \in DOMAIN H.s : \A i \in DOMAIN H.s[t].e : H.s[t].e[i] # k
LEMMA TakeShare ==
  ASSUME NEW H, Shape(H), NEW G, NEW K, NEW R, NEW X, Counted(H, K, R, X), NEW o, Shares(H, X, o),
         NEW k, Loose(H, K, R, k), k # o, NEW ns, Takes(H, G, o, k, ns), RowsShare(H, G, X),
         \A t \in DOMAIN H.s : G.s[t].e = H.s[t].e
  PROVE  Counted(G, K, R, X \cup {k})
<1>1. PICK st : st = H.d[o].base
  OBVIOUS
<1>2. PICK c : c = H.s[st].rc
  OBVIOUS
<1>3. PICK S : S = Sharers(H, st)
  OBVIOUS
<1>4. PICK Y : Y = X \cup {k}
  OBVIOUS
<1>5. /\ DOMAIN G.d = DOMAIN H.d /\ \A q \in DOMAIN H.d \ {o} : G.d[q] = H.d[q]
      /\ G.d[o].base = ns /\ G.d[o].pad2 = H.d[o].pad2 /\ st \in DOMAIN H.s /\ st # ns
      /\ DOMAIN G.s = DOMAIN H.s /\ G.s[ns].rc = 1
      /\ \A q \in DOMAIN H.d : H.d[q].base = ns => q = k
      /\ \A t \in DOMAIN H.s \ {st} : G.s[t].rc = H.s[t].rc
      /\ c > 0 => G.s[st].rc = c - 1
  BY <1>1, <1>2 DEF Takes
<1>6. o \in DOMAIN H.d /\ o \notin Y /\ o \notin X /\ ~H.d[o].pad2 /\ o \in S
  BY <1>1, <1>3, <1>4 DEF Shares, Sharers
<1>7. /\ Sharers(G, st) = S \ {o} /\ Sharers(G, ns) \subseteq {o, k}
      /\ \A t \in DOMAIN H.s \ {st, ns} : Sharers(G, t) = Sharers(H, t)
  BY <1>1, <1>3, <1>5, <1>6 DEF Sharers
<1>8. c \in Nat /\ IsFiniteSet(S) /\ Covers(c, S, X)
  BY <1>2, <1>3, <1>5, RcIsNat, SharersFinite DEF Counted
<1>9. c > 0 /\ Covers(c - 1, S \ {o}, X)
  BY <1>6, <1>8, NoSharer
<1>10. c - 1 \in Nat /\ IsFiniteSet(S \ {o}) /\ X \subseteq Y
  BY <1>4, <1>8, <1>9, FS_RemoveElement
<1>11. Covers(c - 1, S \ {o}, Y)
  BY <1>9, <1>10, FewerCounted
<1>12. ASSUME NEW t \in DOMAIN G.s PROVE Covers(G.s[t].rc, Sharers(G, t), Y)
  <2>1. CASE t = st
    BY <1>5, <1>7, <1>9, <1>11, <2>1
  <2>2. CASE t = ns
    <3>1. Sharers(G, ns) \ Y \subseteq {o}
      BY <1>4, <1>7
    <3>2. Covers(1, Sharers(G, ns) \ Y, Y)
      BY <3>1, FirstShare
    <3>3. Sharers(G, ns) \in SUBSET {o, k} /\ IsFiniteSet({o, k})
      <4>1. IsFiniteSet({o}) /\ {o, k} = {o} \cup {k}
        BY FS_Singleton
      <4>2. IsFiniteSet({o} \cup {k})
        BY <4>1, FS_AddElement
      <4>3. QED
        BY <1>7, <4>1, <4>2
    <3>4. IsFiniteSet(Sharers(G, ns))
      BY <3>3, FS_Subset
    <3>5. QED
      BY <1>5, <2>2, <3>2, <3>4, PartCovers
  <2>3. CASE t # st /\ t # ns
    <3>1. t \in DOMAIN H.s /\ G.s[t].rc = H.s[t].rc /\ Sharers(G, t) = Sharers(H, t)
      BY <1>5, <1>7, <2>3
    <3>2. Covers(H.s[t].rc, Sharers(H, t), X) /\ H.s[t].rc \in Nat /\ IsFiniteSet(Sharers(H, t))
      BY <3>1, RcIsNat, SharersFinite DEF Counted
    <3>3. QED
      BY <1>10, <3>1, <3>2, FewerCounted
  <2>4. QED
    BY <2>1, <2>2, <2>3
<1>13. \A r : Shares(H, X, r) /\ r # k => Shares(G, Y, r)
  BY <1>4, <1>5 DEF Shares
<1>14. Y \subseteq DOMAIN G.d /\ R \cap Y = None
  BY <1>4, <1>5 DEF Counted, Loose, None
<1>15. /\ \A r \in K : Shares(G, Y, r)
       /\ \A t \in DOMAIN G.s : \A i \in DOMAIN G.s[t].e :
            IsRow(G.s[t].e[i]) => Shares(G, Y, G.s[t].e[i])
  BY <1>5, <1>13 DEF Counted, Loose, RowsShare
<1>16. QED
  BY <1>4, <1>12, <1>14, <1>15 DEF Counted

-----------------------------------------------------------------------------
(* The operations of sharing. *)

(* A share count set: nothing else changes. *)
LEMMA RcSet ==
  ASSUME NEW H, H = [d |-> H.d, s |-> H.s], NEW st \in DOMAIN H.s, H.s[st] \in Store, NEW c,
         NEW G, G = [H EXCEPT !.s[st].rc = c]
  PROVE  /\ G = [d |-> G.d, s |-> G.s] /\ G.d = H.d /\ SameElements(H, G) /\ G.s[st].rc = c
         /\ \A t \in DOMAIN H.s \ {st} : G.s[t].rc = H.s[t].rc
<1>1. PICK x : x = [H.s[st] EXCEPT !.rc = c]
  OBVIOUS
<1>2. x.rc = c /\ x.e = H.s[st].e /\ x.leaf = H.s[st].leaf
  BY <1>1 DEF Store
<1>3. G = [d |-> H.d, s |-> [H.s EXCEPT ![st] = x]]
  BY <1>1
<1>4. G.d = H.d /\ G.s = [H.s EXCEPT ![st] = x]
  BY <1>3
<1>5. DOMAIN G.s = DOMAIN H.s /\ G.s[st] = x /\ \A t \in DOMAIN H.s \ {st} : G.s[t] = H.s[t]
  BY <1>4
<1>6. QED
  BY <1>2, <1>3, <1>4, <1>5 DEF SameElements

(* SharePart: the new share is counted. *)
LEMMA PartShared ==
  ASSUME CountsSuffice, NEW H, NEW C, NEW V, NEW O, Good(H, C, V, O), FreeD(H) > 0,
         NEW r \in DOMAIN H.d, NEW x \in Desc, PartOf(H, r, x), x.pad2 = FALSE,
         NEW K, NEW R, NEW X, Counted(H, K, R, X), NEW D, D = rowd_alloc(H, x),
         NEW G, G = OneMore(D, x.base), NEW k, k = NextDesc(H)
  PROVE  Counted(G, K, R, X) /\ SharesStay(H, G, X) /\ Shares(G, X, k)
<1>1. /\ k \in DescAddr \ DOMAIN H.d /\ DOMAIN G.d = DOMAIN H.d \cup {k} /\ G.d[k] = x
      /\ DOMAIN G.s = DOMAIN H.s /\ Extends(H, G) /\ Does(H, G, C, V, O, None, 1, 0)
  BY SharePart
<1>2. PICK st : st = x.base
  OBVIOUS
<1>3. st \in DOMAIN H.s /\ Shape(H) /\ Shape(G)
  BY <1>1, <1>2, StoreOf DEF PartOf, Does, Good
<1>4. D.s = H.s /\ Shape(D)
  <2>1. D.s = H.s /\ Does(H, D, C, V, O, None, 1, 0)
    BY NewPart
  <2>2. QED
    BY <2>1 DEF Does, Good
<1>5. G = [D EXCEPT !.s[st].rc = (D.s[st].rc + 1) % RcMod]
  BY <1>2 DEF OneMore
<1>6. /\ G.s[st].rc = (H.s[st].rc + 1) % RcMod
      /\ \A t \in DOMAIN H.s \ {st} : G.s[t].rc = H.s[t].rc
  <2>1. D = [d |-> D.d, s |-> D.s] /\ D.s[st] \in Store
    BY <1>3, <1>4, ShapeParts DEF Shape
  <2>2. QED
    BY <1>3, <1>4, <1>5, <2>1, RcSet
<1>7. k \notin X /\ k \notin DOMAIN H.d
  BY <1>1 DEF Counted
<1>8. Gains(H, G, st, k)
  <2>1. SameElements(H, G) /\ \A q \in DOMAIN H.d \ {k} : G.d[q] = H.d[q]
    BY <1>1 DEF Extends, SameElements
  <2>2. QED
    BY <1>1, <1>2, <1>6, <1>7, <2>1 DEF Gains
<1>9. Counted(G, K, R, X) /\ Shares(G, X, k)
  BY <1>3, <1>7, <1>8, GainShare
<1>10. SharesStay(H, G, X)
  BY <1>1 DEF Extends, SharesStay, Shares
<1>11. QED
  BY <1>9, <1>10

(* rowd_share: a share more that is counted. *)
LEMMA RowShared ==
  ASSUME CountsSuffice, NEW H, NEW C, NEW V, NEW O, Good(H, C, V, O), FreeD(H) > 0,
         NEW r \in DOMAIN H.d, NEW K, NEW R, NEW X, Counted(H, K, R, X),
         NEW G, G = rowd_share(H, r), NEW k, k = NextDesc(H)
  PROVE  Counted(G, K, R, X) /\ SharesStay(H, G, X) /\ Shares(G, X, k)
<1>1. H.d[r].off \in Nat /\ H.d[r].n \in Nat /\ H.d[r].n \in 0 .. prog.len
  BY ShapeParts, DescParts DEF Good
<1>2. rowd_store(H, r) \in StoreAddr
  BY StoreOf, ShapeParts DEF Good
<1>3. PICK x : x = [base |-> rowd_store(H, r), off |-> H.d[r].off, n |-> H.d[r].n, pad2 |-> FALSE]
  OBVIOUS
<1>4. x \in Desc
  BY <1>1, <1>2, <1>3 DEF Desc
<1>5. x.base = rowd_store(H, r) /\ x.off = H.d[r].off /\ x.n = H.d[r].n /\ x.pad2 = FALSE
  BY <1>3
<1>6. PartOf(H, r, x)
  BY <1>1, <1>5 DEF PartOf
<1>7. PICK D : D = rowd_alloc(H, x)
  OBVIOUS
<1>8. G = OneMore(D, x.base)
  BY <1>3, <1>7 DEF rowd_share, OneMore
<1>9. QED
  BY <1>4, <1>5, <1>6, <1>7, <1>8, PartShared

(* rowd_borrow: no share. *)
LEMMA RowBorrowed ==
  ASSUME NEW H, NEW C, NEW V, NEW O, Good(H, C, V, O), FreeD(H) > 0, NEW r \in DOMAIN H.d,
         NEW K, NEW R, NEW X, Counted(H, K, R, X), NEW G, G = rowd_borrow(H, r),
         NEW k, k = NextDesc(H)
  PROVE  Counted(G, K, R, X) /\ SharesStay(H, G, X) /\ k \notin X /\ G.d[k].pad2 = TRUE
<1>1. H.d[r].off \in Nat /\ H.d[r].n \in Nat /\ H.d[r].n \in 0 .. prog.len
  BY ShapeParts, DescParts DEF Good
<1>2. rowd_store(H, r) \in StoreAddr
  BY StoreOf, ShapeParts DEF Good
<1>3. PICK x : x = [base |-> rowd_store(H, r), off |-> H.d[r].off, n |-> H.d[r].n, pad2 |-> TRUE]
  OBVIOUS
<1>4. x \in Desc
  BY <1>1, <1>2, <1>3 DEF Desc
<1>5. x.base = rowd_store(H, r) /\ x.off = H.d[r].off /\ x.n = H.d[r].n /\ x.pad2 = TRUE
  BY <1>3
<1>6. PartOf(H, r, x)
  BY <1>1, <1>5 DEF PartOf
<1>7. G = rowd_alloc(H, x)
  BY <1>3 DEF rowd_borrow
<1>8. /\ k \in DescAddr \ DOMAIN H.d /\ DOMAIN G.d = DOMAIN H.d \cup {k} /\ G.d[k] = x
      /\ G.s = H.s /\ Extends(H, G)
  BY <1>4, <1>6, <1>7, NewPart
<1>9. SameShares(H, G)
  BY <1>5, <1>8 DEF SameShares, Extends
<1>10. RowsShare(H, G, X)
  BY <1>8 DEF RowsShare, Counted
<1>11. Counted(G, K, R, X) /\ SharesStay(H, G, X)
  BY <1>9, <1>10, NoShare
<1>12. QED
  BY <1>5, <1>8, <1>11 DEF Counted

(* unborrow: a borrow that is kept is counted. *)
LEMMA BorrowKept ==
  ASSUME CountsSuffice, NEW H, NEW C, NEW V, NEW O, Good(H, C, V, O), NEW v, Elem(H, C, O, v),
         IsRow(v), NEW K, NEW R, NEW X, Counted(H, K, R, X), v \notin X, NEW G, G = unborrow(H, v)
  PROVE  Counted(G, K, R, X) /\ SharesStay(H, G, X) /\ Shares(G, X, v)
<1>1. v \in DOMAIN H.d /\ Inside(H, H.d[v]) /\ H.d[v] \in Desc /\ Shape(H)
  BY ShapeParts DEF Good, Elem, Plain
<1>2. CASE ~H.d[v].pad2
  <2>1. G = H
    BY <1>2 DEF unborrow
  <2>2. Shares(H, X, v)
    BY <1>1, <1>2 DEF Shares
  <2>3. QED
    BY <2>1, <2>2 DEF SharesStay
<1>3. CASE H.d[v].pad2
  <2>1. PICK st : st = H.d[v].base
    OBVIOUS
  <2>2. st \in DOMAIN H.s
    BY <1>1, <2>1 DEF Inside
  <2>3. PICK D : D = [H EXCEPT !.d[v].pad2 = FALSE]
    OBVIOUS
  <2>4. H = [d |-> H.d, s |-> H.s] /\ H.d \in [DOMAIN H.d -> Desc]
    BY <1>1 DEF Shape
  <2>5. PICK x : x = [H.d[v] EXCEPT !.pad2 = FALSE]
    OBVIOUS
  <2>6. x \in Desc /\ x.pad2 = FALSE /\ x.base = st
    BY <1>1, <2>1, <2>5 DEF Desc
  <2>7. D = [d |-> [H.d EXCEPT ![v] = x], s |-> H.s]
    BY <2>3, <2>4, <2>5
  <2>8. D.d = [H.d EXCEPT ![v] = x] /\ D.s = H.s
    BY <2>7
  <2>9. /\ DOMAIN D.d = DOMAIN H.d /\ D.d[v] = x /\ D.d \in [DOMAIN D.d -> Desc]
        /\ \A q \in DOMAIN H.d \ {v} : D.d[q] = H.d[q]
    BY <1>1, <2>4, <2>6, <2>8, ButOne
  <2>10. Shape(D)
    BY <1>1, <2>7, <2>8, <2>9 DEF Shape
  <2>11. PICK c : c = (H.s[st].rc + 1) % RcMod
    OBVIOUS
  <2>12. /\ G.d = D.d /\ SameElements(D, G) /\ G.s[st].rc = (H.s[st].rc + 1) % RcMod
         /\ \A t \in DOMAIN H.s \ {st} : G.s[t].rc = H.s[t].rc
    <3>1. G = [D EXCEPT !.s[st].rc = c] /\ st \in DOMAIN D.s
      BY <1>1, <1>3, <2>1, <2>2, <2>3, <2>8, <2>11 DEF unborrow
    <3>2. /\ G.d = D.d /\ SameElements(D, G) /\ G.s[st].rc = c
          /\ \A t \in DOMAIN D.s \ {st} : G.s[t].rc = D.s[t].rc
      BY <2>10, <3>1, RcSet, ShapeParts DEF Shape
    <3>3. QED
      BY <2>8, <2>11, <3>2
  <2>13. Gains(H, G, st, v)
    BY <1>1, <1>3, <2>6, <2>8, <2>9, <2>12 DEF Gains, SameElements
  <2>14. Shape(G)
    BY KeptBorrow DEF Does, Good
  <2>15. Counted(G, K, R, X) /\ Shares(G, X, v)
    BY <1>1, <2>2, <2>13, <2>14, GainShare
  <2>16. SharesStay(H, G, X)
    BY <1>1, <2>6, <2>9, <2>12 DEF SharesStay, Shares
  <2>17. QED
    BY <2>15, <2>16
<1>4. QED
  BY <1>2, <1>3

-----------------------------------------------------------------------------
(* Slots and new rows. *)

(* A slot written: the descriptors and the counts are what they were. *)
LEMMA SlotAlone ==
  ASSUME NEW H, Shape(H), NEW st \in DOMAIN H.s, NEW i, NEW v, NEW G, G = WriteSlot(H, st, i, v)
  PROVE  /\ G.d = H.d /\ DOMAIN G.s = DOMAIN H.s /\ \A t \in DOMAIN H.s : G.s[t].rc = H.s[t].rc
         /\ \A t \in DOMAIN H.s \ {st} : G.s[t] = H.s[t]
         /\ G.s[st].e = [H.s[st].e EXCEPT ![i] = v] /\ G.s[st].leaf = H.s[st].leaf
<1>1. H = [d |-> H.d, s |-> H.s] /\ H.s \in [DOMAIN H.s -> Store]
  BY DEF Shape
<1>2. PICK x : x = [H.s[st] EXCEPT !.e = [H.s[st].e EXCEPT ![i] = v]]
  OBVIOUS
<1>3. x.e = [H.s[st].e EXCEPT ![i] = v] /\ x.rc = H.s[st].rc /\ x.leaf = H.s[st].leaf
  BY <1>1, <1>2 DEF Store
<1>4. G = [d |-> H.d, s |-> [H.s EXCEPT ![st] = x]]
  BY <1>1, <1>2 DEF WriteSlot
<1>5. G.d = H.d /\ G.s = [H.s EXCEPT ![st] = x]
  BY <1>4
<1>6. DOMAIN G.s = DOMAIN H.s /\ G.s[st] = x /\ \A t \in DOMAIN H.s \ {st} : G.s[t] = H.s[t]
  BY <1>1, <1>5
<1>7. QED
  BY <1>3, <1>5, <1>6

(* A value with a share, or that needs none, is written in a slot. *)
LEMMA SlotCounted ==
  ASSUME NEW H, Shape(H), NEW K, NEW R, NEW X, Counted(H, K, R, X), NEW st \in DOMAIN H.s,
         NEW i \in 1 .. Len(H.s[st].e), NEW v \in Value, IsRow(v) => Shares(H, X, v),
         NEW G, G = WriteSlot(H, st, i, v)
  PROVE  Counted(G, K, R, X) /\ SharesStay(H, G, X) /\ G.d = H.d /\ G.s[st].rc = H.s[st].rc
<1>1. /\ G.d = H.d /\ DOMAIN G.s = DOMAIN H.s /\ \A t \in DOMAIN H.s : G.s[t].rc = H.s[t].rc
      /\ \A t \in DOMAIN H.s \ {st} : G.s[t] = H.s[t]
      /\ G.s[st].e = [H.s[st].e EXCEPT ![i] = v]
  BY SlotAlone
<1>2. H.s[st].e \in Seq(Value)
  BY ShapeParts, StoreParts
<1>3. /\ DOMAIN G.s[st].e = DOMAIN H.s[st].e /\ G.s[st].e[i] = v
      /\ \A j \in DOMAIN H.s[st].e : j # i => G.s[st].e[j] = H.s[st].e[j]
  BY <1>1, <1>2, SeqSet
<1>4. RowsShare(H, G, X)
  <2>1. ASSUME NEW j \in DOMAIN G.s[st].e, IsRow(G.s[st].e[j]) PROVE Shares(H, X, G.s[st].e[j])
    BY <1>3, <2>1 DEF Counted
  <2>2. ASSUME NEW t \in DOMAIN G.s \ {st}, NEW j \in DOMAIN G.s[t].e, IsRow(G.s[t].e[j])
        PROVE  Shares(H, X, G.s[t].e[j])
    BY <1>1, <2>2 DEF Counted
  <2>3. QED
    BY <2>1, <2>2 DEF RowsShare
<1>5. SameShares(H, G)
  BY <1>1 DEF SameShares
<1>6. QED
  BY <1>1, <1>4, <1>5, NoShare

(* store_set: a scalar is written, and nothing more. *)
LEMMA ScalarSet ==
  ASSUME NEW H, NEW st, NEW i, NEW v, ~IsRow(v)
  PROVE  store_set(H, st, i, v) = WriteSlot(H, st, i, v)
BY DEF store_set, unborrow, WriteSlot

(* store_set: a value is written that is to have a share. *)
LEMMA SetCounted ==
  ASSUME CountsSuffice, NEW H, NEW C, NEW V, NEW O, Good(H, C, V, O), NEW st \in DOMAIN H.s,
         NEW i, NEW v, MayHold(H, C, O, st, i, v), NEW K, NEW R, NEW X, Counted(H, K, R, X),
         v \notin X, NEW G, G = store_set(H, st, i, v)
  PROVE  Counted(G, K, R, X) /\ SharesStay(H, G, X) /\ (IsRow(v) => Shares(G, X, v))
<1>1. Shape(H) /\ i \in 1 .. Len(H.s[st].e) /\ v \in Value /\ Elem(H, C, O, v)
  BY DEF Good, MayHold
<1>2. CASE ~IsRow(v)
  BY <1>1, <1>2, ScalarSet, SlotCounted
<1>3. CASE IsRow(v)
  <2>1. ~H.s[st].leaf
    BY <1>3 DEF MayHold, leaf_accepts
  <2>2. PICK B : B = unborrow(H, v)
    OBVIOUS
  <2>3. G = WriteSlot(B, st, i, v)
    BY <2>1, <2>2 DEF store_set, WriteSlot
  <2>4. SameElements(H, B) /\ Does(H, B, C, V, O, None, 0, 0)
    BY <1>1, <2>2, KeptBorrow
  <2>5. Counted(B, K, R, X) /\ SharesStay(H, B, X) /\ Shares(B, X, v)
    BY <1>1, <1>3, <2>2, BorrowKept
  <2>6. Shape(B) /\ st \in DOMAIN B.s /\ i \in 1 .. Len(B.s[st].e)
    BY <1>1, <2>4 DEF SameElements, Does, Good
  <2>7. Counted(G, K, R, X) /\ SharesStay(B, G, X)
    BY <1>1, <2>3, <2>5, <2>6, SlotCounted
  <2>8. QED
    BY <2>5, <2>7 DEF SharesStay
<1>4. QED
  BY <1>2, <1>3

(* No descriptor has a store that is not there. *)
LEMMA NoBase ==
  ASSUME NEW H, NEW C, NEW V, NEW O, Good(H, C, V, O), NEW st \in StoreAddr \ DOMAIN H.s,
         NEW q \in DOMAIN H.d
  PROVE  H.d[q].base # st
<1>1. CASE Inside(H, H.d[q])
  BY <1>1 DEF Inside
<1>2. CASE View(H, V, H.d[q])
  <2>1. H.d[q].base \in DescAddr
    BY <1>2, ShapeParts DEF View, Good, Plain
  <2>2. QED
    BY <2>1, Addresses
<1>3. QED
  BY <1>1, <1>2 DEF Good

(* A new store, and nothing else. *)
LEMMA StoreAdded ==
  ASSUME NEW H, Shape(H), FreeS(H) > 0, NEW x, NEW G, G = store_alloc(H, x),
         NEW k, k = NextStore(H)
  PROVE  /\ G = [d |-> G.d, s |-> G.s] /\ k \in StoreAddr \ DOMAIN H.s /\ G.d = H.d
         /\ DOMAIN G.s = DOMAIN H.s \cup {k} /\ G.s[k] = x /\ \A t \in DOMAIN H.s : G.s[t] = H.s[t]
<1>1. k \in StoreAddr \ DOMAIN H.s
  BY NextFree
<1>2. H = [d |-> H.d, s |-> H.s]
  BY DEF Shape
<1>3. G = [d |-> H.d, s |-> With(H.s, k, x)]
  BY <1>2 DEF store_alloc
<1>4. G.d = H.d /\ G.s = With(H.s, k, x)
  BY <1>3
<1>5. G.s = [z \in DOMAIN H.s \cup {k} |-> IF z = k THEN x ELSE H.s[z]]
  BY <1>4 DEF With
<1>6. QED
  BY <1>1, <1>3, <1>4, <1>5

(* A new descriptor, and nothing else. *)
LEMMA DescAdded ==
  ASSUME NEW H, H = [d |-> H.d, s |-> H.s], NEW k, k = NextDesc(H), k \notin DOMAIN H.d, NEW x,
         NEW G, G = rowd_alloc(H, x)
  PROVE  /\ G = [d |-> G.d, s |-> G.s] /\ G.s = H.s /\ DOMAIN G.d = DOMAIN H.d \cup {k}
         /\ G.d[k] = x /\ \A q \in DOMAIN H.d : G.d[q] = H.d[q]
<1>1. G = [d |-> With(H.d, k, x), s |-> H.s]
  BY DEF rowd_alloc
<1>2. G.s = H.s /\ G.d = With(H.d, k, x)
  BY <1>1
<1>3. G.d = [z \in DOMAIN H.d \cup {k} |-> IF z = k THEN x ELSE H.d[z]]
  BY <1>2 DEF With
<1>4. QED
  BY <1>1, <1>2, <1>3

(* A new row: its share is the first of its store. *)
NewShare(H, G, K, R, X, e, k, st) ==
  /\ Counted(G, K, R, X) /\ SharesStay(H, G, X) /\ Shares(G, X, k)
  /\ G.d[k].base = st /\ G.d[k].off = 0 /\ G.d[k].n = Len(e)
  /\ \A q \in DOMAIN G.d : G.d[q].base = st => q = k
  /\ DOMAIN G.d = DOMAIN H.d \cup {k} /\ \A q \in DOMAIN H.d : G.d[q] = H.d[q]
  /\ G.s[st].rc = 1
LEMMA NewCounted ==
  ASSUME NEW H, NEW C, NEW V, NEW O, Good(H, C, V, O), FreeD(H) > 0, FreeS(H) > 0,
         NEW K, NEW R, NEW X, Counted(H, K, R, X), NEW e, NEW leaf,
         \A i \in DOMAIN e : IsRow(e[i]) => Shares(H, X, e[i]),
         NEW k, k = NextDesc(H), NEW st, st = NextStore(H), NEW G, G = NewRow(H, e, leaf)
  PROVE  NewShare(H, G, K, R, X, e, k, st)
<1>1. Shape(H) /\ k \in DescAddr \ DOMAIN H.d
  BY NextFree DEF Good
<1>2. PICK x : x = [leaf |-> leaf, rc |-> 1, e |-> e]
  OBVIOUS
<1>3. PICK y : y = [base |-> st, off |-> 0, n |-> Len(e), pad2 |-> FALSE]
  OBVIOUS
<1>4. PICK D : D = store_alloc(H, x)
  OBVIOUS
<1>5. /\ D = [d |-> D.d, s |-> D.s] /\ st \in StoreAddr \ DOMAIN H.s /\ D.d = H.d
      /\ DOMAIN D.s = DOMAIN H.s \cup {st} /\ D.s[st] = x
      /\ \A t \in DOMAIN H.s : D.s[t] = H.s[t]
  BY <1>1, <1>4, StoreAdded
<1>6. G = rowd_alloc(D, y) /\ NextDesc(D) = k
  BY <1>2, <1>3, <1>4, <1>5 DEF NewRow, NextDesc
<1>7. /\ G.s = D.s /\ DOMAIN G.d = DOMAIN H.d \cup {k} /\ G.d[k] = y
      /\ \A q \in DOMAIN H.d : G.d[q] = H.d[q]
  BY <1>1, <1>5, <1>6, DescAdded
<1>8. \A q \in DOMAIN H.d : H.d[q].base # st
  BY <1>5, NoBase
<1>9. y.base = st /\ y.off = 0 /\ y.n = Len(e) /\ y.pad2 = FALSE /\ x.rc = 1 /\ x.e = e
  BY <1>2, <1>3
<1>10. Makes(H, G, k, st)
  BY <1>1, <1>5, <1>7, <1>8, <1>9 DEF Makes
<1>11. RowsShare(H, G, X)
  BY <1>5, <1>7, <1>9 DEF RowsShare, Counted
<1>12. Counted(G, K, R, X) /\ SharesStay(H, G, X) /\ Shares(G, X, k)
  BY <1>10, <1>11, MakeShare
<1>13. QED
  BY <1>5, <1>7, <1>8, <1>9, <1>12 DEF NewShare

-----------------------------------------------------------------------------
(* A row gets a store of its own. *)

(* MoveTo: what is changed, and nothing else. *)
LEMMA MovedAlone ==
  ASSUME NEW H, Shape(H), FreeS(H) > 0, NEW o \in DOMAIN H.d, NEW x, NEW M, M = MoveTo(H, o, x),
         NEW k, k = NextStore(H)
  PROVE  /\ M = [d |-> M.d, s |-> M.s] /\ k \in StoreAddr \ DOMAIN H.s
         /\ DOMAIN M.d = DOMAIN H.d /\ \A q \in DOMAIN H.d \ {o} : M.d[q] = H.d[q]
         /\ M.d[o].base = k /\ M.d[o].pad2 = H.d[o].pad2
         /\ DOMAIN M.s = DOMAIN H.s \cup {k} /\ M.s[k] = x /\ \A t \in DOMAIN H.s : M.s[t] = H.s[t]
<1>1. PICK D : D = store_alloc(H, x)
  OBVIOUS
<1>2. /\ D = [d |-> D.d, s |-> D.s] /\ k \in StoreAddr \ DOMAIN H.s /\ D.d = H.d
      /\ DOMAIN D.s = DOMAIN H.s \cup {k} /\ D.s[k] = x /\ \A t \in DOMAIN H.s : D.s[t] = H.s[t]
  BY <1>1, StoreAdded
<1>3. PICK y : y = [H.d[o] EXCEPT !.base = k]
  OBVIOUS
<1>4. H.d \in [DOMAIN H.d -> Desc] /\ H.d[o] \in Desc
  BY DEF Shape
<1>5. y.base = k /\ y.pad2 = H.d[o].pad2
  BY <1>3, <1>4 DEF Desc
<1>6. M = [d |-> [H.d EXCEPT ![o] = y], s |-> D.s]
  BY <1>1, <1>2, <1>3 DEF MoveTo
<1>7. M.d = [H.d EXCEPT ![o] = y] /\ M.s = D.s
  BY <1>6
<1>8. DOMAIN M.d = DOMAIN H.d /\ M.d[o] = y /\ \A q \in DOMAIN H.d \ {o} : M.d[q] = H.d[q]
  BY <1>4, <1>7
<1>9. QED
  BY <1>2, <1>5, <1>6, <1>7, <1>8

(* The share that the row o had is given back, or the count stays with no share left. *)
LeavesShare(H, G, st) ==
  \/ G.s[st].rc = H.s[st].rc - 1
  \/ G.s[st].rc = H.s[st].rc /\ H.s[st].rc <= 1
Leaves(H, M, G, st) ==
  /\ G.d = M.d /\ SameElements(M, G) /\ LeavesShare(H, G, st)
  /\ \A t \in DOMAIN M.s \ {st} : G.s[t].rc = M.s[t].rc
(* the new store x, and its elements *)
FirstOf(H, X, x) == x.rc = 1 /\ \A i \in DOMAIN x.e : IsRow(x.e[i]) => Shares(H, X, x.e[i])

(* A row with a share moves to a new store. *)
LEMMA MoveCounted ==
  ASSUME NEW H, NEW C, NEW V, NEW O, Good(H, C, V, O), FreeS(H) > 0, NEW K, NEW R, NEW X,
         Counted(H, K, R, X), NEW o, Shares(H, X, o), NEW st, st = H.d[o].base, st \in DOMAIN H.s,
         NEW x, FirstOf(H, X, x), NEW M, M = MoveTo(H, o, x), NEW G, Leaves(H, M, G, st)
  PROVE  Counted(G, K, R, X) /\ SharesStay(H, G, X) /\ G.s[G.d[o].base].rc = 1
<1>1. Shape(H) /\ o \in DOMAIN H.d
  BY DEF Good, Shares
<1>2. PICK k : k = NextStore(H)
  OBVIOUS
<1>3. /\ k \in StoreAddr \ DOMAIN H.s
      /\ DOMAIN M.d = DOMAIN H.d /\ \A q \in DOMAIN H.d \ {o} : M.d[q] = H.d[q]
      /\ M.d[o].base = k /\ M.d[o].pad2 = H.d[o].pad2
      /\ DOMAIN M.s = DOMAIN H.s \cup {k} /\ M.s[k] = x /\ \A t \in DOMAIN H.s : M.s[t] = H.s[t]
  BY <1>1, <1>2, MovedAlone
<1>4. \A q \in DOMAIN H.d : H.d[q].base # k
  BY <1>3, NoBase
<1>5. k # st /\ G.s[k].rc = 1 /\ G.d = M.d /\ SameElements(M, G) /\ DOMAIN G.s = DOMAIN M.s
  BY <1>3 DEF SameElements, Leaves, FirstOf
<1>6. Moves(H, G, o, k)
  <2>1. /\ \A t \in DOMAIN H.s \ {st} : G.s[t].rc = H.s[t].rc
        /\ \/ G.s[st].rc = H.s[st].rc - 1
           \/ G.s[st].rc = H.s[st].rc /\ H.s[st].rc <= 1
    BY <1>3 DEF Leaves, LeavesShare
  <2>2. QED
    BY <1>3, <1>4, <1>5, <2>1 DEF Moves
<1>7. RowsShare(H, G, X)
  <2>1. ASSUME NEW t \in DOMAIN H.s, NEW i \in DOMAIN G.s[t].e, IsRow(G.s[t].e[i])
        PROVE  Shares(H, X, G.s[t].e[i])
    BY <1>3, <1>5, <2>1 DEF SameElements, Counted
  <2>2. G.s[k].e = x.e
    BY <1>3, <1>5 DEF SameElements
  <2>3. QED
    BY <1>3, <1>5, <2>1, <2>2 DEF RowsShare, FirstOf
<1>8. Counted(G, K, R, X) /\ SharesStay(H, G, X)
  BY <1>1, <1>6, <1>7, MoveShare
<1>9. QED
  BY <1>3, <1>5, <1>8

(* The elements of a store that are rows have shares. *)
LEMMA ElemShares ==
  ASSUME NEW H, NEW K, NEW R, NEW X, Counted(H, K, R, X), NEW st \in DOMAIN H.s, NEW x,
         x.rc = 1, x.e = H.s[st].e
  PROVE  FirstOf(H, X, x)
BY DEF Counted, FirstOf

(* A row with a share has a count. *)
LEMMA HasCount ==
  ASSUME NEW H, Shape(H), NEW K, NEW R, NEW X, Counted(H, K, R, X), NEW o, Shares(H, X, o),
         NEW st, st = H.d[o].base, st \in DOMAIN H.s
  PROVE  H.s[st].rc > 0 /\ H.s[st].rc \in 0 .. RcMod - 1 /\ H.s[st].rc \in Nat
<1>1. PICK S : S = Sharers(H, st)
  OBVIOUS
<1>2. PICK c : c = H.s[st].rc
  OBVIOUS
<1>3. c \in Nat /\ c \in 0 .. RcMod - 1 /\ IsFiniteSet(S) /\ Covers(c, S, X)
  BY <1>1, <1>2, RcIsNat, SharersFinite DEF Counted
<1>4. o \in S /\ o \notin X
  BY <1>1 DEF Shares, Sharers
<1>5. c > 0
  BY <1>3, <1>4, NoSharer
<1>6. QED
  BY <1>2, <1>3, <1>5

(* own_store: the row has a store that no count says is shared. *)
LEMMA OwnCounted ==
  ASSUME NEW H, NEW C, NEW V, Good(H, C, V, None), NEW o, Inside(H, H.d[o]),
         FreeS(H) >= OwnCost(H, o), NEW K, NEW R, NEW X, Counted(H, K, R, X), Shares(H, X, o),
         NEW G, G = own_store(H, o)
  PROVE  Counted(G, K, R, X) /\ SharesStay(H, G, X) /\ G.s[G.d[o].base].rc <= 1
<1>1. PICK st : st = H.d[o].base
  OBVIOUS
<1>2. Shape(H) /\ o \in DOMAIN H.d /\ st \in DOMAIN H.s /\ H.s[st] \in Store /\ H.s[st].rc \in Nat
  BY <1>1, ShapeParts, StoreParts DEF Good, Inside, Shares
<1>3. CASE ~(H.s[st].rc > 1)
  <2>1. G = H
    BY <1>1, <1>3 DEF own_store
  <2>2. QED
    BY <1>1, <1>2, <1>3, <2>1 DEF SharesStay
<1>4. CASE H.s[st].rc > 1
  <2>1. FreeS(H) > 0
    <3>1. OwnCost(H, o) = 1 /\ FreeS(H) \in Nat
      BY <1>1, <1>2, <1>4, FreeCounts DEF OwnCost
    <3>2. QED
      BY <3>1
  <2>2. PICK x : x = [H.s[st] EXCEPT !.rc = 1]
    OBVIOUS
  <2>3. x.rc = 1 /\ x.e = H.s[st].e
    BY <1>2, <2>2 DEF Store
  <2>4. PICK M : M = MoveTo(H, o, x)
    OBVIOUS
  <2>5. /\ M = [d |-> M.d, s |-> M.s] /\ st \in DOMAIN M.s /\ M.s[st] = H.s[st]
    BY <1>2, <2>1, <2>4, MovedAlone
  <2>6. PICK c : c = H.s[st].rc - 1
    OBVIOUS
  <2>7. G = [M EXCEPT !.s[st].rc = c]
    <3>1. OwnCopy(H, M, o, st, x)
      BY <1>1, <1>4, <2>2, <2>4, <2>5 DEF OwnCopy
    <3>2. QED
      BY <1>2, <2>6, <3>1, OwnMoves
  <2>8. /\ G.d = M.d /\ SameElements(M, G) /\ G.s[st].rc = c
        /\ \A t \in DOMAIN M.s \ {st} : G.s[t].rc = M.s[t].rc
    BY <1>2, <2>5, <2>7, RcSet
  <2>9. Leaves(H, M, G, st)
    BY <2>6, <2>8 DEF Leaves, LeavesShare
  <2>10. FirstOf(H, X, x)
    BY <1>2, <2>3, ElemShares
  <2>11. Counted(G, K, R, X) /\ SharesStay(H, G, X) /\ G.s[G.d[o].base].rc = 1
    BY <1>1, <1>2, <2>1, <2>4, <2>9, <2>10, MoveCounted
  <2>12. QED
    BY <2>11
<1>5. QED
  BY <1>3, <1>4

(* Widen, when no count says that the store is shared: the count stays, the share goes. *)
LEMMA WidenCounted ==
  ASSUME NEW H, NEW C, NEW V, Good(H, C, V, None), NEW o, Inside(H, H.d[o]), FreeS(H) > 0,
         H.s[H.d[o].base].rc <= 1, NEW K, NEW R, NEW X, Counted(H, K, R, X), Shares(H, X, o),
         NEW G, G = Widen(H, o)
  PROVE  Counted(G, K, R, X) /\ SharesStay(H, G, X) /\ G.s[G.d[o].base].rc = 1
<1>1. PICK st : st = H.d[o].base
  OBVIOUS
<1>2. Shape(H) /\ o \in DOMAIN H.d /\ st \in DOMAIN H.s /\ H.s[st] \in Store
  BY <1>1, ShapeParts DEF Good, Inside, Shares
<1>3. PICK x : x = [H.s[st] EXCEPT !.leaf = FALSE, !.rc = 1]
  OBVIOUS
<1>4. x.rc = 1 /\ x.e = H.s[st].e
  BY <1>2, <1>3 DEF Store
<1>5. G = MoveTo(H, o, x)
  BY <1>1, <1>3 DEF Widen, MoveTo
<1>6. G.s[st] = H.s[st]
  BY <1>2, <1>5, MovedAlone
<1>7. Leaves(H, G, G, st)
  BY <1>1, <1>6 DEF Leaves, LeavesShare, SameElements
<1>8. FirstOf(H, X, x)
  BY <1>2, <1>4, ElemShares
<1>9. QED
  BY <1>1, <1>2, <1>5, <1>7, <1>8, MoveCounted

-----------------------------------------------------------------------------
(* Scalars are written in a row that owns its store. *)

(* The row o has a share, and no count says that its store is shared. *)
Owned(H, K, R, X, o) ==
  Counted(H, K, R, X) /\ Shares(H, X, o) /\ H.s[H.d[o].base].rc <= 1

(* What a scalar needs is there still. *)
LEMMA FillCost ==
  ASSUME NEW H, NEW C, NEW V, Shape(H), NEW o, NEW G, Filled(H, G, C, V, o),
         FreeS(H) >= WideCost(H, o), NEW e, ~IsRow(e)
  PROVE  FreeS(G) >= WriteCost(G, o, e)
<1>1. FreeS(H) \in Nat /\ FreeS(G) \in Nat
  BY FreeCounts DEF Filled, Does, Good
<1>2. CASE TooWide(G, o, e)
  <2>1. H.s[H.d[o].base].leaf /\ FreeS(G) >= FreeS(H) /\ Wide # {}
    BY <1>2 DEF Filled, TooWide, leaf_accepts
  <2>2. WideCost(H, o) = 1 /\ WriteCost(G, o, e) = 1
    BY <1>2, <2>1 DEF WideCost, WriteCost
  <2>3. QED
    BY <1>1, <2>1, <2>2
<1>3. CASE ~TooWide(G, o, e)
  BY <1>1, <1>3 DEF WriteCost
<1>4. QED
  BY <1>2, <1>3

(* A slot of a store that is owned. *)
LEMMA SlotOwned ==
  ASSUME NEW H, Shape(H), NEW o, NEW st, st = H.d[o].base, st \in DOMAIN H.s,
         NEW at \in 1 .. Len(H.s[st].e), NEW e \in Value, ~IsRow(e),
         NEW K, NEW R, NEW X, Owned(H, K, R, X, o),
         NEW G, G \in {store_set(H, st, at, e), WriteSlot(H, st, at, e)}
  PROVE  Owned(G, K, R, X, o) /\ SharesStay(H, G, X)
<1>1. G = WriteSlot(H, st, at, e)
  BY ScalarSet
<1>2. Counted(H, K, R, X) /\ Shares(H, X, o) /\ H.s[st].rc <= 1
  BY DEF Owned
<1>3. Counted(G, K, R, X) /\ SharesStay(H, G, X) /\ G.d = H.d /\ G.s[st].rc = H.s[st].rc
  BY <1>1, <1>2, SlotCounted
<1>4. Shares(G, X, o)
  BY <1>2, <1>3 DEF SharesStay
<1>5. G.s[G.d[o].base].rc = H.s[st].rc
  BY <1>3
<1>6. QED
  BY <1>2, <1>3, <1>4, <1>5 DEF Owned

(* A scalar is written in a row that owns its store: it owns the one it has then. *)
LEMMA WriteCounted ==
  ASSUME NEW H, NEW C, NEW V, Good(H, C, V, None), NEW o, FlatRow(H, o),
         NEW at \in 1 .. Len(H.s[H.d[o].base].e), NEW e \in Value, ~IsRow(e),
         FreeS(H) >= WriteCost(H, o, e), NEW K, NEW R, NEW X, Owned(H, K, R, X, o),
         NEW G, G \in Writes(H, o, at, e)
  PROVE  Owned(G, K, R, X, o) /\ SharesStay(H, G, X)
<1>1. o \in DOMAIN H.d /\ Inside(H, H.d[o]) /\ Scalars(H.s[H.d[o].base]) /\ Shape(H)
  BY DEF FlatRow, Good
<1>2. PICK W : W = Widened(H, o, e)
  OBVIOUS
<1>3. PICK st : st = W.d[o].base
  OBVIOUS
<1>4. /\ Owned(W, K, R, X, o) /\ SharesStay(H, W, X) /\ Shape(W) /\ st \in DOMAIN W.s
      /\ W.s[st].e = H.s[H.d[o].base].e
  <2>1. CASE TooWide(H, o, e)
    <3>1. W = Widen(H, o)
      BY <1>2, <2>1 DEF Widened
    <3>2. FreeS(H) > 0
      <4>1. FreeS(H) \in Nat
        BY FreeCounts DEF Good
      <4>2. FreeS(H) >= 1
        BY <2>1 DEF WriteCost
      <4>3. QED
        BY <4>1, <4>2
    <3>3. /\ Moved(H, W, o) /\ Does(H, W, C, V, None, None, 0, 1)
          /\ W.s[st].e = H.s[H.d[o].base].e
      BY <1>1, <1>3, <3>1, <3>2, WidenStore
    <3>4. Counted(H, K, R, X) /\ Shares(H, X, o) /\ H.s[H.d[o].base].rc <= 1
      BY DEF Owned
    <3>5. Counted(W, K, R, X) /\ SharesStay(H, W, X) /\ W.s[W.d[o].base].rc = 1
      BY <1>1, <3>1, <3>2, <3>4, WidenCounted
    <3>6. QED
      BY <1>3, <3>3, <3>4, <3>5 DEF Owned, SharesStay, Moved, Does, Good
  <2>2. CASE ~TooWide(H, o, e)
    <3>1. W = H
      BY <1>2, <2>2 DEF Widened
    <3>2. QED
      BY <1>1, <1>3, <3>1 DEF SharesStay, Inside
  <2>3. QED
    BY <2>1, <2>2
<1>5. G \in {store_set(W, st, at, e), WriteSlot(W, st, at, e)}
  BY <1>2, <1>3 DEF Writes
<1>6. Owned(G, K, R, X, o) /\ SharesStay(W, G, X)
  BY <1>3, <1>4, <1>5, SlotOwned
<1>7. QED
  BY <1>4, <1>6 DEF SharesStay

(* Scalars were written in the row o, which owns its store. *)
FilledOwned(H, G, C, V, K, R, X, o) ==
  Filled(H, G, C, V, o) /\ Owned(G, K, R, X, o) /\ SharesStay(H, G, X)

(* An element of a row of scalars is copied to one. *)
LEMMA FillStepOwned ==
  ASSUME NEW H, NEW C, NEW V, Good(H, C, V, None), NEW o, FlatRow(H, o), NEW src, FlatRow(H, src),
         FreeS(H) >= WideCost(H, o), NEW K, NEW R, NEW X, NEW M,
         FilledOwned(H, M, C, V, K, R, X, o), NEW i \in 1 .. H.d[src].n,
         NEW at \in Nat, H.d[o].off < at, at <= H.d[o].off + H.d[o].n,
         NEW G, G = CopyElemTo(M, src, i, o, at)
  PROVE  FilledOwned(H, G, C, V, K, R, X, o)
<1>1. /\ Filled(H, M, C, V, o) /\ Owned(M, K, R, X, o) /\ SharesStay(H, M, X)
      /\ Does(H, M, C, V, None, None, 0, WideCost(H, o)) /\ Good(M, C, V, None)
  BY DEF FilledOwned, Filled, Does
<1>2. /\ FlatRow(M, o) /\ M.d[o].off = H.d[o].off /\ M.d[o].n = H.d[o].n
      /\ FlatRow(M, src) /\ M.d[src].off = H.d[src].off /\ M.d[src].n = H.d[src].n
  BY <1>1, FlatKept DEF None
<1>3. at \in 1 .. Len(M.s[M.d[o].base].e)
  <2>1. o \in DOMAIN M.d /\ Inside(M, M.d[o])
    BY <1>2 DEF FlatRow
  <2>2. QED
    BY <1>1, <1>2, <2>1, PlaceIn
<1>4. PICK e : e = rowd_get(M, src, i)
  OBVIOUS
<1>5. e \in Value /\ ~IsRow(e)
  <2>1. src \in DOMAIN M.d /\ Inside(M, M.d[src]) /\ Scalars(M.s[M.d[src].base]) /\ i \in 1 .. M.d[src].n
    BY <1>2 DEF FlatRow
  <2>2. rowd_store(M, src) = M.d[src].base /\ rowd_store(M, src) \in DOMAIN M.s
    BY <1>1, <2>1, StoreOf
  <2>3. /\ M.d[src].off + i \in 1 .. Len(M.s[rowd_store(M, src)].e)
        /\ e = M.s[rowd_store(M, src)].e[M.d[src].off + i]
    BY <1>1, <1>4, <2>1, RowElement
  <2>4. QED
    BY <1>1, <2>1, <2>2, <2>3, ElementOf
<1>6. G \in Writes(M, o, at, e)
  BY <1>4, <1>5, CopyIsWrite
<1>7. Filled(H, G, C, V, o)
  BY <1>1, FillStep
<1>8. FreeS(M) >= WriteCost(M, o, e)
  BY <1>1, <1>5, FillCost DEF Good
<1>9. Owned(G, K, R, X, o) /\ SharesStay(M, G, X)
  BY <1>1, <1>2, <1>3, <1>5, <1>6, <1>8, WriteCounted
<1>10. QED
  BY <1>1, <1>7, <1>9 DEF FilledOwned, SharesStay

(* The elements of a row of scalars are copied to one. *)
LEMMA FlatCopyOwned ==
  ASSUME NEW H, NEW C, NEW V, Good(H, C, V, None), NEW o, FlatRow(H, o), NEW src, FlatRow(H, src),
         FreeS(H) >= WideCost(H, o), NEW n \in Nat, n <= H.d[src].n, NEW off \in Nat,
         H.d[o].off <= off, off + n <= H.d[o].off + H.d[o].n,
         NEW K, NEW R, NEW X, Owned(H, K, R, X, o), NEW G, G = CopyElemsTo(H, src, n, o, off)
  PROVE  Counted(G, K, R, X) /\ SharesStay(H, G, X)
<1>1. PICK g : CopiesTo(g, H, src, n, o, off) /\ G = g[n]
  BY CopyToLoop
<1>2. H.d[o].off \in Nat /\ H.d[o].n \in Nat /\ H.d[src].n \in Nat
  BY ShapeParts, DescParts DEF Good, FlatRow
<1> DEFINE S == {i \in 0 .. n : FilledOwned(H, g[i], C, V, K, R, X, o)}
<1>3. 0 \in S
  <2>1. Filled(H, H, C, V, o) /\ SharesStay(H, H, X)
    BY FillStart DEF SharesStay
  <2>2. QED
    BY <1>1, <2>1 DEF CopiesTo, FilledOwned
<1>4. ASSUME NEW j \in 0 .. n, j \in S, j < n PROVE j + 1 \in S
  <2>1. PICK i : i = j + 1
    OBVIOUS
  <2>2. i \in 1 .. n /\ i - 1 = j /\ i \in 1 .. H.d[src].n
    BY <1>2, <1>4, <2>1
  <2>3. PICK at : at = off + i
    OBVIOUS
  <2>4. at \in Nat /\ H.d[o].off < at /\ at <= H.d[o].off + H.d[o].n
    BY <1>2, <2>2, <2>3, After
  <2>5. PICK M : M = g[j]
    OBVIOUS
  <2>6. g[i] = CopyElemTo(M, src, i, o, at) /\ FilledOwned(H, M, C, V, K, R, X, o)
    BY <1>1, <1>4, <2>2, <2>3, <2>5 DEF CopiesTo
  <2>7. FilledOwned(H, g[i], C, V, K, R, X, o)
    BY <2>2, <2>4, <2>6, FillStepOwned
  <2>8. QED
    BY <2>1, <2>2, <2>7
<1>5. n \in S
  <2> HIDE DEF S
  <2>1. \A j \in 0 .. n : j \in S /\ j < n => j + 1 \in S
    BY <1>4
  <2>2. \A j \in 0 .. n : j \in S
    BY <1>3, <2>1, Steps
  <2>3. QED
    BY <2>2
<1>6. QED
  BY <1>1, <1>5 DEF FilledOwned, Owned

(* row_copy_into: a row of scalars is copied into one that has a share. *)
LEMMA FlatIntoCounted ==
  ASSUME NEW H, NEW C, NEW V, Good(H, C, V, None), NEW dst \in DOMAIN H.d, NEW o,
         o = rowd_owner(H, dst), FlatRow(H, o), NEW src, FlatRow(H, src), same_bounds(H, dst, src),
         FreeS(H) >= OwnCost(H, o) + WideCost(H, o), NEW K, NEW R, NEW X, Counted(H, K, R, X),
         Shares(H, X, o), NEW G, G = row_copy_into(H, dst, src)
  PROVE  Counted(G, K, R, X) /\ SharesStay(H, G, X)
<1>1. PICK M : M = own_store(H, o)
  OBVIOUS
<1>2. PICK n : n = H.d[dst].n
  OBVIOUS
<1>3. PICK off : off = H.d[dst].off
  OBVIOUS
<1>4. /\ o \in DOMAIN H.d /\ Inside(H, H.d[o]) /\ off \in Nat /\ n \in Nat
      /\ H.d[o].off <= off /\ off + n <= H.d[o].off + H.d[o].n
  BY <1>2, <1>3, OwnerOf
<1>5. G = CopyElemsTo(M, src, n, o, off)
  BY <1>1, <1>2, <1>3 DEF row_copy_into
<1>6. FreeS(H) \in Nat /\ OwnCost(H, o) \in Nat /\ WideCost(H, o) \in Nat /\ FreeS(H) >= OwnCost(H, o)
  <2>1. FreeS(H) \in Nat /\ OwnCost(H, o) \in Nat /\ WideCost(H, o) \in Nat
    BY FreeCounts, CostsAreNumbers DEF Good
  <2>2. QED
    BY <2>1
<1>7. /\ Does(H, M, C, V, None, None, 0, OwnCost(H, o))
      /\ M.s[M.d[o].base].leaf = H.s[H.d[o].base].leaf
  BY <1>1, <1>4, <1>6, OwnStore DEF FlatRow
<1>8. Good(M, C, V, None) /\ Shape(M) /\ FreeS(M) >= FreeS(H) - OwnCost(H, o)
  BY <1>7 DEF Does, Good
<1>9. /\ FlatRow(M, o) /\ M.d[o].off = H.d[o].off /\ M.d[o].n = H.d[o].n
      /\ FlatRow(M, src) /\ M.d[src].n = H.d[src].n
  BY <1>7, FlatKept DEF None
<1>10. WideCost(M, o) = WideCost(H, o)
  BY <1>7 DEF WideCost
<1>11. FreeS(M) >= WideCost(M, o) /\ n <= M.d[src].n
  <2>1. FreeS(M) \in Nat
    BY <1>8, FreeCounts
  <2>2. n = M.d[src].n
    BY <1>2, <1>9 DEF same_bounds
  <2>3. QED
    BY <1>4, <1>6, <1>8, <1>10, <2>1, <2>2
<1>12. off + n <= M.d[o].off + M.d[o].n /\ M.d[o].off <= off
  BY <1>4, <1>9
<1>13. Counted(M, K, R, X) /\ SharesStay(H, M, X) /\ M.s[M.d[o].base].rc <= 1
  BY <1>1, <1>4, <1>6, OwnCounted
<1>14. Owned(M, K, R, X, o)
  BY <1>13 DEF Owned, SharesStay
<1>15. Counted(G, K, R, X) /\ SharesStay(M, G, X)
  BY <1>4, <1>5, <1>8, <1>9, <1>11, <1>12, <1>14, FlatCopyOwned
<1>16. QED
  BY <1>13, <1>15 DEF SharesStay

-----------------------------------------------------------------------------
(* row_canonical_copy: the copy's store has one share. *)

(* An element that is copied next. *)
LEMMA NextCopied ==
  ASSUME NEW H, NEW C, NEW V, Good(H, C, V, None), NEW src \in DOMAIN H.d, NEW st, NEW k, NEW M,
         NEW j \in Nat, Copied(H, M, C, V, src, st, k, j), NEW i, i = j + 1, i \in 1 .. H.d[src].n,
         FreeD(H) >= 1 + CopyCost(H, src, H.d[src].n), NEW e, e = rowd_get(M, src, i)
  PROVE  /\ e \in Value /\ Elem(M, C, {st}, e) /\ i \in 1 .. Len(M.s[st].e)
         /\ IsRow(e) => M.s[st].leaf = FALSE /\ FreeD(M) > 0
<1>1. PICK s : s = rowd_store(H, src)
  OBVIOUS
<1>2. PICK p : p = H.d[src].off + i
  OBVIOUS
<1>3. s \in DOMAIN H.s /\ p \in 1 .. Len(H.s[s].e) /\ rowd_get(H, src, i) = H.s[s].e[p]
  BY <1>1, <1>2, RowElement, StoreOf
<1>4. /\ Good(M, C, V, {st}) /\ Extends(H, M) /\ Len(M.s[st].e) = H.d[src].n
      /\ M.s[st].leaf = H.s[s].leaf /\ FreeD(M) >= FreeD(H) - (1 + CopyCost(H, src, j))
  BY <1>1 DEF Copied
<1>5. s \in DOMAIN M.s /\ M.s[s].e = H.s[s].e /\ M.s[s].leaf = H.s[s].leaf
  BY <1>3, <1>4 DEF Extends
<1>6. e = rowd_get(H, src, i) /\ e = M.s[s].e[p] /\ p \in 1 .. Len(M.s[s].e)
  BY <1>3, <1>4, <1>5, ExtendsKeeps
<1>7. e \in Value /\ Elem(M, C, {st}, e)
  BY <1>4, <1>5, <1>6, ElementOf
<1>8. ASSUME IsRow(e) PROVE M.s[st].leaf = FALSE /\ FreeD(M) > 0
  <2>1. M.s[s].leaf = FALSE
    <3>1. IsRow(M.s[s].e[p])
      BY <1>6, <1>8
    <3>2. QED
      BY <1>4, <1>5, <1>6, <3>1, RowsNoLeaf
  <2>2. ~Scalars(H.s[s])
    BY <1>3, <1>6, <1>8, ElementOf
  <2>3. CopyCost(H, src, j) = j /\ CopyCost(H, src, H.d[src].n) = H.d[src].n
    BY <1>1, <2>2 DEF CopyCost
  <2>4. FreeD(H) \in Nat /\ FreeD(M) \in Nat /\ H.d[src].n \in Nat
    BY <1>4, FreeCounts, ShapeParts, DescParts DEF Good
  <2>5. QED
    BY <1>4, <1>5, <2>1, <2>3, <2>4
<1>9. QED
  BY <1>4, <1>7, <1>8

(* A row is borrowed from an element, for a slot of the store st. *)
BorrowedFor(H, B, C, V, st, i, v) ==
  /\ Good(B, C, V, {st}) /\ v \in DescAddr \ DOMAIN H.d /\ IsRow(v)
  /\ MayHold(B, C, {st}, st, i, v)
  /\ B.s = H.s /\ DOMAIN B.d = DOMAIN H.d \cup {v}
  /\ \A q \in DOMAIN H.d : B.d[q] = H.d[q]
  /\ B.d[v].base \in DOMAIN H.s \ {st}

(* What rowd_borrow makes of an element of a row of rows may go into a slot of another store. *)
LEMMA BorrowFor ==
  ASSUME NEW H, NEW C, NEW V, NEW st \in DOMAIN H.s, Good(H, C, V, {st}), H.s[st].leaf = FALSE,
         NEW i \in 1 .. Len(H.s[st].e), NEW e, IsRow(e), Elem(H, C, {st}, e), FreeD(H) > 0,
         NEW v, v = NextDesc(H), NEW B, B = rowd_borrow(H, e)
  PROVE  BorrowedFor(H, B, C, V, st, i, v)
<1>1. /\ e \in DOMAIN H.d /\ Inside(H, H.d[e]) /\ H.d[e].base \notin {st}
      /\ Scalars(H.s[H.d[e].base]) /\ H.d[e].base \in DOMAIN H.s
  BY DEF Elem, Plain, Inside
<1>2. /\ v \in DescAddr \ DOMAIN H.d /\ DOMAIN B.d = DOMAIN H.d \cup {v}
      /\ B.d[v].base = rowd_store(H, e) /\ DOMAIN B.s = DOMAIN H.s /\ Extends(H, B)
      /\ Inside(B, B.d[v]) /\ Does(H, B, C, V, {st}, None, 1, 0)
  BY <1>1, ShareRow
<1>3. rowd_store(H, e) = H.d[e].base
  BY <1>1, StoreOf
<1>4. B.s = H.s
  BY DEF rowd_borrow, rowd_alloc
<1>5. Elem(B, C, {st}, v)
  <2>1. v \notin C
    BY <1>2 DEF Good, Plain
  <2>2. Scalars(B.s[H.d[e].base])
    BY <1>1, <1>4
  <2>3. QED
    BY <1>1, <1>2, <1>3, <2>1, <2>2 DEF Elem, Plain
<1>6. MayHold(B, C, {st}, st, i, v)
  <2>1. v \in Value
    BY <1>2 DEF Value
  <2>2. QED
    BY <1>4, <1>5, <2>1 DEF MayHold
<1>7. QED
  BY <1>1, <1>2, <1>3, <1>4, <1>6 DEF Does, IsRow, Extends, BorrowedFor

(* store_set: the count of the store that is written stays, if the value is a row of another. *)
LEMMA CountKept ==
  ASSUME NEW H, Shape(H), NEW st \in DOMAIN H.s, NEW v \in DOMAIN H.d,
         NEW b, b = H.d[v].base, b \in DOMAIN H.s, b # st,
         NEW i, NEW G, G = store_set(H, st, i, v)
  PROVE  G.s[st].rc = H.s[st].rc
<1>1. PICK B : B = IF H.s[st].leaf THEN H ELSE unborrow(H, v)
  OBVIOUS
<1>2. H = [d |-> H.d, s |-> H.s] /\ H.s \in [DOMAIN H.s -> Store]
  BY DEF Shape
<1>3. B = [d |-> B.d, s |-> B.s] /\ DOMAIN B.s = DOMAIN H.s /\ B.s[st] = H.s[st]
  <2>1. CASE B = H
    BY <1>2, <2>1
  <2>2. CASE B # H
    <3>1. B = unborrow(H, v) /\ IsRow(v) /\ H.d[v].pad2
      BY <1>1, <2>2 DEF unborrow
    <3>2. PICK c : c = (H.s[b].rc + 1) % RcMod
      OBVIOUS
    <3>3. PICK x : x = [H.s[b] EXCEPT !.rc = c]
      OBVIOUS
    <3>4. PICK f : f = [H.d EXCEPT ![v].pad2 = FALSE]
      OBVIOUS
    <3>5. B = [H EXCEPT !.d[v].pad2 = FALSE, !.s[b].rc = c]
      BY <3>1, <3>2 DEF unborrow
    <3>6. B = [d |-> f, s |-> [H.s EXCEPT ![b] = x]]
      BY <1>2, <3>3, <3>4, <3>5
    <3>7. B.d = f /\ B.s = [H.s EXCEPT ![b] = x]
      BY <3>6
    <3>8. QED
      BY <1>2, <3>6, <3>7
  <2>3. QED
    BY <2>1, <2>2
<1>4. PICK x : x = [B.s[st] EXCEPT !.e = [B.s[st].e EXCEPT ![i] = v]]
  OBVIOUS
<1>5. G = [d |-> B.d, s |-> [B.s EXCEPT ![st] = x]]
  <2>1. G = [B EXCEPT !.s[st].e[i] = v]
    BY <1>1 DEF store_set
  <2>2. QED
    BY <1>3, <1>4, <2>1
<1>6. G.s = [B.s EXCEPT ![st] = x]
  BY <1>5
<1>7. G.s[st] = x /\ x.rc = H.s[st].rc
  BY <1>2, <1>3, <1>4, <1>6 DEF Store
<1>8. QED
  BY <1>7

(* The store st has one share, the descriptor k has it, and nothing leads to k. *)
Single(H, st, k) ==
  /\ H.s[st].rc = 1 /\ Fresh(H, k)
  /\ \A q \in DOMAIN H.d : H.d[q].base = st => q = k

(* Another value is written in it. *)
LEMMA SetSingle ==
  ASSUME NEW H, NEW C, NEW V, NEW st \in DOMAIN H.s, Good(H, C, V, {st}), NEW i, NEW v,
         MayHold(H, C, {st}, st, i, v), NEW k, v # k, Single(H, st, k),
         NEW G, G = store_set(H, st, i, v), G.s[st].rc = H.s[st].rc
  PROVE  Single(G, st, k)
<1>1. SlotSet(H, G, st, i, v)
  BY SetSlot
<1>2. /\ DOMAIN G.d = DOMAIN H.d /\ DOMAIN G.s = DOMAIN H.s
      /\ \A q \in DOMAIN H.d : G.d[q].base = H.d[q].base
      /\ \A t \in DOMAIN H.s : t # st => G.s[t].e = H.s[t].e
      /\ G.s[st].e = [H.s[st].e EXCEPT ![i] = v]
  BY <1>1 DEF SlotSet, SameBounds
<1>3. H.s[st].e \in Seq(Value) /\ i \in 1 .. Len(H.s[st].e) /\ v \in Value
  BY ShapeParts, StoreParts DEF Good, MayHold
<1>4. /\ DOMAIN G.s[st].e = DOMAIN H.s[st].e /\ G.s[st].e[i] = v
      /\ \A j \in DOMAIN H.s[st].e : j # i => G.s[st].e[j] = H.s[st].e[j]
  BY <1>2, <1>3, SeqSet
<1>5. Fresh(G, k)
  <2>1. ASSUME NEW j \in DOMAIN G.s[st].e PROVE G.s[st].e[j] # k
    BY <1>4 DEF Single, Fresh
  <2>2. ASSUME NEW t \in DOMAIN G.s, t # st, NEW j \in DOMAIN G.s[t].e PROVE G.s[t].e[j] # k
    BY <1>2, <2>2 DEF Single, Fresh
  <2>3. QED
    BY <2>1, <2>2 DEF Fresh
<1>6. QED
  BY <1>2, <1>5 DEF Single

(* A row borrowed from an element is written in it. *)
LEMMA SlotBorrowed ==
  ASSUME CountsSuffice, NEW H, NEW C, NEW V, NEW st \in DOMAIN H.s, Good(H, C, V, {st}),
         H.s[st].leaf = FALSE, NEW i \in 1 .. Len(H.s[st].e), NEW e, IsRow(e),
         Elem(H, C, {st}, e), FreeD(H) > 0, NEW K, NEW R, NEW X, Counted(H, K, R, X),
         NEW k \in DOMAIN H.d, Single(H, st, k), NEW v, v = NextDesc(H),
         NEW B, B = rowd_borrow(H, e), NEW G, G = store_set(B, st, i, v)
  PROVE  Counted(G, K, R, X) /\ Single(G, st, k)
<1>1. /\ Good(B, C, V, {st}) /\ v \in DescAddr \ DOMAIN H.d /\ IsRow(v)
      /\ MayHold(B, C, {st}, st, i, v)
      /\ B.s = H.s /\ DOMAIN B.d = DOMAIN H.d \cup {v}
      /\ \A q \in DOMAIN H.d : B.d[q] = H.d[q]
      /\ B.d[v].base \in DOMAIN H.s \ {st}
  <2>1. BorrowedFor(H, B, C, V, st, i, v)
    BY BorrowFor
  <2>2. QED
    BY <2>1 DEF BorrowedFor
<1>2. Counted(B, K, R, X) /\ v \notin X
  <2>1. e \in DOMAIN H.d
    BY DEF Elem, Plain
  <2>2. QED
    BY <2>1, RowBorrowed
<1>3. st \in DOMAIN B.s
  BY <1>1
<1>4. Counted(G, K, R, X)
  BY <1>1, <1>2, <1>3, SetCounted
<1>5. G.s[st].rc = B.s[st].rc
  <2>1. Shape(B) /\ v \in DOMAIN B.d
    BY <1>1 DEF Good
  <2>2. PICK b : b = B.d[v].base
    OBVIOUS
  <2>3. b \in DOMAIN B.s /\ b # st
    BY <1>1, <2>2
  <2>4. QED
    BY <1>3, <2>1, <2>2, <2>3, CountKept
<1>6. Single(B, st, k) /\ v # k
  BY <1>1 DEF Single, Fresh
<1>7. Single(G, st, k)
  BY <1>1, <1>3, <1>5, <1>6, SetSingle
<1>8. QED
  BY <1>4, <1>7

(* One element is copied. *)
LEMMA CopyStepCounted ==
  ASSUME CountsSuffice, NEW H, NEW C, NEW V, Good(H, C, V, None), NEW src \in DOMAIN H.d, NEW st,
         NEW k, NEW M, NEW j \in Nat, Copied(H, M, C, V, src, st, k, j), NEW i, i = j + 1,
         i \in 1 .. H.d[src].n, FreeD(H) >= 1 + CopyCost(H, src, H.d[src].n),
         NEW K, NEW R, NEW X, Counted(M, K, R, X), Single(M, st, k), NEW G, G = CopyElem(M, src, i, st)
  PROVE  Counted(G, K, R, X) /\ Single(G, st, k)
<1>1. PICK e : e = rowd_get(M, src, i)
  OBVIOUS
<1>2. /\ e \in Value /\ Elem(M, C, {st}, e) /\ i \in 1 .. Len(M.s[st].e)
      /\ IsRow(e) => M.s[st].leaf = FALSE /\ FreeD(M) > 0
  BY <1>1, NextCopied
<1>3. Good(M, C, V, {st}) /\ Shape(M) /\ st \in DOMAIN M.s /\ k \in DOMAIN M.d /\ k \in DescAddr
  BY ShapeParts DEF Copied, Good
<1>4. CASE ~IsRow(e)
  <2>1. G = store_set(M, st, i, e) /\ G = WriteSlot(M, st, i, e)
    BY <1>1, <1>4, ScalarSet DEF CopyElem, copy_value
  <2>2. Counted(G, K, R, X) /\ G.s[st].rc = M.s[st].rc
    BY <1>2, <1>3, <1>4, <2>1, SlotCounted
  <2>3. MayHold(M, C, {st}, st, i, e) /\ e # k
    <3>1. M.s[st].leaf => leaf_accepts(e)
      <4>1. PICK s : s = rowd_store(H, src)
        OBVIOUS
      <4>2. PICK p : p = H.d[src].off + i
        OBVIOUS
      <4>3. s \in DOMAIN H.s /\ p \in 1 .. Len(H.s[s].e) /\ rowd_get(H, src, i) = H.s[s].e[p]
        BY <4>1, <4>2, RowElement, StoreOf
      <4>4. /\ Extends(H, M) /\ M.s[st].leaf = H.s[s].leaf
        BY <4>1 DEF Copied
      <4>5. e = H.s[s].e[p]
        BY <1>1, <4>3, <4>4, ExtendsKeeps
      <4>6. QED
        BY <4>3, <4>4, <4>5, ElementOf
    <3>2. QED
      BY <1>2, <1>3, <1>4, <3>1 DEF MayHold, IsRow
  <2>4. Single(G, st, k)
    BY <1>3, <2>1, <2>2, <2>3, SetSingle
  <2>5. QED
    BY <2>2, <2>4
<1>5. CASE IsRow(e)
  <2>1. PICK v : v = NextDesc(M)
    OBVIOUS
  <2>2. PICK B : B = rowd_borrow(M, e)
    OBVIOUS
  <2>3. G = store_set(B, st, i, v)
    BY <1>1, <1>5, <2>1, <2>2 DEF CopyElem, copy_value
  <2>4. M.s[st].leaf = FALSE /\ FreeD(M) > 0 /\ i \in 1 .. Len(M.s[st].e) /\ Elem(M, C, {st}, e)
    BY <1>2, <1>5
  <2>5. QED
    BY <1>3, <1>5, <2>1, <2>2, <2>3, <2>4, SlotBorrowed
<1>6. QED
  BY <1>4, <1>5

(* A descriptor, then a store, or the other way round. *)
LEMMA EitherOrder ==
  ASSUME NEW H, H = [d |-> H.d, s |-> H.s], NEW n, NEW e, Len(e) = n, NEW leaf
  PROVE  store_alloc(rowd_alloc(H, [base |-> NextStore(H), off |-> 0, n |-> n, pad2 |-> FALSE]),
                     [leaf |-> leaf, rc |-> 1, e |-> e])
         = NewRow(H, e, leaf)
<1>1. PICK x : x = [leaf |-> leaf, rc |-> 1, e |-> e]
  OBVIOUS
<1>2. PICK y : y = [base |-> NextStore(H), off |-> 0, n |-> n, pad2 |-> FALSE]
  OBVIOUS
<1>3. rowd_alloc(H, y) = [d |-> With(H.d, NextDesc(H), y), s |-> H.s]
  BY DEF rowd_alloc
<1>4. store_alloc(H, x) = [d |-> H.d, s |-> With(H.s, NextStore(H), x)]
  BY DEF store_alloc
<1>5. store_alloc(rowd_alloc(H, y), x)
      = [d |-> With(H.d, NextDesc(H), y), s |-> With(H.s, NextStore(H), x)]
  BY <1>3 DEF store_alloc, NextStore
<1>6. rowd_alloc(store_alloc(H, x), y)
      = [d |-> With(H.d, NextDesc(H), y), s |-> With(H.s, NextStore(H), x)]
  BY <1>4 DEF rowd_alloc, NextDesc
<1>7. QED
  BY <1>1, <1>2, <1>5, <1>6 DEF NewRow

(* The heap before the elements are copied. *)
LEMMA CopyStartCounted ==
  ASSUME NEW H, NEW C, NEW V, Good(H, C, V, None), prog \in Programs, NEW src \in DOMAIN H.d,
         FreeD(H) > 0, FreeS(H) > 0, NEW st, st = NextStore(H), NEW k, k = NextDesc(H),
         NEW K, NEW R, NEW X, Counted(H, K, R, X),
         NEW D, D = rowd_alloc(H, [base |-> st, off |-> 0, n |-> H.d[src].n, pad2 |-> FALSE]),
         NEW G, G = store_alloc(D, [leaf |-> H.s[rowd_store(H, src)].leaf, rc |-> 1,
                                    e |-> [i \in 1 .. H.d[src].n |-> Undef]])
  PROVE  Counted(G, K, R, X) /\ Single(G, st, k)
<1>1. PICK s : s = rowd_store(H, src)
  OBVIOUS
<1>2. PICK n : n = H.d[src].n
  OBVIOUS
<1>3. PICK e : e = [i \in 1 .. n |-> Undef]
  OBVIOUS
<1>4. s \in DOMAIN H.s /\ H.s[s] \in Store /\ n \in Nat /\ n \in 0 .. prog.len /\ Shape(H)
  BY <1>1, <1>2, StoreOf, ShapeParts, DescParts DEF Good
<1>5. PICK leaf : leaf = H.s[s].leaf
  OBVIOUS
<1>6. Undef \in Value /\ ~IsRow(Undef) /\ leaf_accepts(Undef)
  BY Elements, Undefined DEF Value, IsRow
<1>7. e \in Seq(Value) /\ Len(e) = n /\ DOMAIN e = 1 .. n /\ \A i \in 1 .. n : e[i] = Undef
  BY <1>3, <1>4, <1>6
<1>8. G = NewRow(H, e, leaf)
  <2>1. H = [d |-> H.d, s |-> H.s]
    BY <1>4 DEF Shape
  <2>2. G = store_alloc(rowd_alloc(H, [base |-> NextStore(H), off |-> 0, n |-> n, pad2 |-> FALSE]),
                        [leaf |-> leaf, rc |-> 1, e |-> e])
    BY <1>1, <1>2, <1>3, <1>5
  <2>3. QED
    BY <1>7, <2>1, <2>2, EitherOrder
<1>9. \A i \in DOMAIN e : ~IsRow(e[i]) /\ leaf_accepts(e[i])
  BY <1>6, <1>7
<1>10. Fresh(G, k)
  <2>1. MayMake(H, C, e, leaf)
    BY <1>4, <1>5, <1>7, <1>9, StoreParts DEF MayMake, Elem
  <2>2. MayFill(None, st, e)
    BY <1>9 DEF MayFill
  <2>3. Made(H, G, k, st, e, leaf)
    BY <1>8, <2>1, <2>2, MakeRow
  <2>4. QED
    BY <2>3 DEF Made
<1>11. Counted(G, K, R, X) /\ G.s[st].rc = 1 /\ \A q \in DOMAIN G.d : G.d[q].base = st => q = k
  <2>1. \A i \in DOMAIN e : IsRow(e[i]) => Shares(H, X, e[i])
    BY <1>9
  <2>2. NewShare(H, G, K, R, X, e, k, st)
    BY <1>8, <2>1, NewCounted
  <2>3. QED
    BY <2>2 DEF NewShare
<1>12. QED
  BY <1>10, <1>11 DEF Single

(* row_canonical_copy *)
LEMMA CanonicalCounted ==
  ASSUME CountsSuffice, NEW H, NEW C, NEW V, Good(H, C, V, None), prog \in Programs,
         NEW src \in DOMAIN H.d, FreeD(H) >= 1 + CopyCost(H, src, H.d[src].n), FreeS(H) > 0,
         NEW K, NEW R, NEW X, Counted(H, K, R, X), NEW st, st = NextStore(H),
         NEW k, k = NextDesc(H), NEW G, G = row_canonical_copy(H, src)
  PROVE  Counted(G, K, R, X) /\ Single(G, st, k)
<1>1. PICK n : n = H.d[src].n
  OBVIOUS
<1>2. n \in Nat
  BY <1>1, ShapeParts, DescParts DEF Good
<1>3. PICK D : D = rowd_alloc(H, [base |-> st, off |-> 0, n |-> H.d[src].n, pad2 |-> FALSE])
  OBVIOUS
<1>4. PICK M : M = store_alloc(D, [leaf |-> H.s[rowd_store(H, src)].leaf, rc |-> 1,
                                    e |-> [i \in 1 .. H.d[src].n |-> Undef]])
  OBVIOUS
<1>5. G = CopyElems(M, src, n, st)
  BY <1>1, <1>3, <1>4 DEF row_canonical_copy
<1>6. PICK g : /\ g[0] = M /\ \A i \in 1 .. n : g[i] = CopyElem(g[i - 1], src, i, st)
               /\ G = g[n]
  BY <1>2, <1>5, CopyLoop
<1>7. FreeD(H) > 0
  <2>1. CopyCost(H, src, n) \in Nat
    BY <1>2 DEF CopyCost
  <2>2. FreeD(H) \in Nat
    BY FreeCounts DEF Good
  <2>3. QED
    BY <1>1, <2>1, <2>2
<1> DEFINE S == {i \in 0 .. n : /\ Copied(H, g[i], C, V, src, st, k, i)
                                /\ Counted(g[i], K, R, X) /\ Single(g[i], st, k)}
<1>8. 0 \in S
  <2>1. Copied(H, M, C, V, src, st, k, 0)
    BY <1>3, <1>4, <1>7, CopyStart
  <2>2. Counted(M, K, R, X) /\ Single(M, st, k)
    BY <1>3, <1>4, <1>7, CopyStartCounted
  <2>3. QED
    BY <1>2, <1>6, <2>1, <2>2
<1>9. ASSUME NEW j \in 0 .. n, j \in S, j < n PROVE j + 1 \in S
  <2>1. PICK i : i = j + 1
    OBVIOUS
  <2>2. i \in 1 .. n /\ i - 1 = j /\ j \in Nat
    BY <1>2, <1>9, <2>1
  <2>3. PICK L : L = g[j]
    OBVIOUS
  <2>4. /\ g[i] = CopyElem(L, src, i, st) /\ Copied(H, L, C, V, src, st, k, j)
        /\ Counted(L, K, R, X) /\ Single(L, st, k)
    BY <1>6, <1>9, <2>2, <2>3
  <2>5. Copied(H, g[i], C, V, src, st, k, i)
    BY <1>1, <2>1, <2>2, <2>4, CopyStep
  <2>6. Counted(g[i], K, R, X) /\ Single(g[i], st, k)
    BY <1>1, <2>1, <2>2, <2>4, CopyStepCounted
  <2>7. QED
    BY <2>1, <2>2, <2>5, <2>6
<1>10. n \in S
  <2> HIDE DEF S
  <2>1. \A j \in 0 .. n : j \in S /\ j < n => j + 1 \in S
    BY <1>9
  <2>2. \A j \in 0 .. n : j \in S
    BY <1>2, <1>8, <2>1, Steps
  <2>3. QED
    BY <1>2, <2>2
<1>11. QED
  BY <1>6, <1>10

-----------------------------------------------------------------------------
(* row_replace: the copy's store is taken over, and the copy's descriptor is left with a share that
   no count knows of. *)

(* A row takes over the store of the descriptor k. *)
Overtakes(H, G, o, st, c, x) ==
  /\ G = [H EXCEPT !.s[H.d[o].base].rc = c, !.d[o] = x]
  /\ x.base = st /\ x.pad2 = H.d[o].pad2
LEMMA OvertakeCounted ==
  ASSUME NEW H, Shape(H), NEW K, NEW R, NEW X, Counted(H, K, R, X), NEW o, Shares(H, X, o),
         H.d[o].base \in DOMAIN H.s, NEW st \in DOMAIN H.s, st # H.d[o].base, NEW k,
         Single(H, st, k), Loose(H, K, R, k), k # o, NEW c,
         H.s[H.d[o].base].rc > 0 => c = H.s[H.d[o].base].rc - 1,
         NEW x, NEW G, Overtakes(H, G, o, st, c, x)
  PROVE  Counted(G, K, R, X \cup {k})
<1>1. PICK old : old = H.d[o].base
  OBVIOUS
<1>2. /\ old \in DOMAIN H.s /\ old # st
      /\ H.s[old].rc > 0 => c = H.s[old].rc - 1
      /\ G = [H EXCEPT !.s[old].rc = c, !.d[o] = x] /\ x.base = st /\ x.pad2 = H.d[o].pad2
  BY <1>1 DEF Overtakes
<1>3. H = [d |-> H.d, s |-> H.s] /\ H.s[old] \in Store /\ o \in DOMAIN H.d
  BY <1>2, ShapeParts DEF Shape, Shares
<1>4. PICK N : N = [H EXCEPT !.s[old].rc = c]
  OBVIOUS
<1>5. /\ N = [d |-> N.d, s |-> N.s] /\ N.d = H.d /\ SameElements(H, N) /\ N.s[old].rc = c
      /\ \A t \in DOMAIN H.s \ {old} : N.s[t].rc = H.s[t].rc
  BY <1>2, <1>3, <1>4, RcSet
<1>6. G = [N EXCEPT !.d[o] = x]
  BY <1>2, <1>3, <1>4
<1>7. G = [d |-> [H.d EXCEPT ![o] = x], s |-> N.s]
  BY <1>5, <1>6
<1>8. G.s = N.s /\ G.d = [H.d EXCEPT ![o] = x]
  BY <1>7
<1>9. DOMAIN G.d = DOMAIN H.d /\ G.d[o] = x /\ \A q \in DOMAIN H.d \ {o} : G.d[q] = H.d[q]
  BY <1>3, <1>8
<1>10. DOMAIN G.s = DOMAIN H.s /\ \A t \in DOMAIN H.s : G.s[t].e = H.s[t].e
  BY <1>5, <1>8 DEF SameElements
<1>11. Takes(H, G, o, k, st)
  <2>1. /\ G.s[st].rc = 1 /\ \A q \in DOMAIN H.d : H.d[q].base = st => q = k
    BY <1>2, <1>5, <1>8 DEF Single
  <2>2. /\ \A t \in DOMAIN H.s \ {old} : G.s[t].rc = H.s[t].rc
        /\ H.s[old].rc > 0 => G.s[old].rc = H.s[old].rc - 1
    BY <1>2, <1>5, <1>8
  <2>3. G.d[o].base = st /\ G.d[o].pad2 = H.d[o].pad2
    BY <1>2, <1>9
  <2>4. QED
    BY <1>1, <1>2, <1>9, <1>10, <2>1, <2>2, <2>3 DEF Takes
<1>12. RowsShare(H, G, X)
  BY <1>10 DEF RowsShare, Counted
<1>13. QED
  BY <1>10, <1>11, <1>12, TakeShare

(* What a row takes over: the copy's store. *)
LEMMA ReplaceCounted ==
  ASSUME CountsSuffice, NEW H, NEW C, NEW V, Good(H, C, V, None), prog \in Programs,
         NEW dst \in DOMAIN H.d, NEW src \in DOMAIN H.d, MayTake(H, C, V, dst, src),
         NEW K, NEW R, NEW X, Counted(H, K, R, X), R \subseteq DOMAIN H.d, Shares(H, X, dst),
         NEW k, k = NextDesc(H), NEW G, G = row_replace(H, dst, src)
  PROVE  Counted(G, K, R, X \cup {k})
<1>1. PICK st : st = NextStore(H)
  OBVIOUS
<1>2. PICK n : n = H.d[src].n
  OBVIOUS
<1>3. PICK M : M = row_canonical_copy(H, src)
  OBVIOUS
<1>4. /\ Inside(H, H.d[dst]) /\ FreeD(H) >= 1 + CopyCost(H, src, n) /\ FreeS(H) > 0
  BY <1>2 DEF MayTake
<1>5. Copied(H, M, C, V, src, st, k, n)
  BY <1>1, <1>2, <1>3, <1>4, CanonicalCopy
<1>6. Good(M, C, V, None) /\ Extends(H, M) /\ Shape(M)
  BY <1>2, <1>5, CopyDone DEF Good
<1>7. st \in DOMAIN M.s \ DOMAIN H.s /\ k \in DOMAIN M.d \ DOMAIN H.d
  BY <1>5 DEF Copied
<1>8. Counted(M, K, R, X) /\ Single(M, st, k)
  BY <1>1, <1>2, <1>3, <1>4, CanonicalCounted
<1>9. dst \in DOMAIN M.d /\ M.d[dst] = H.d[dst]
  BY <1>6 DEF Extends
<1>10. PICK old : old = M.d[dst].base
  OBVIOUS
<1>11. old \in DOMAIN H.s /\ old \in DOMAIN M.s /\ old # st
  BY <1>4, <1>6, <1>7, <1>9, <1>10 DEF Inside, Extends
<1>12. PICK c : c = IF M.s[old].rc > 0 THEN M.s[old].rc - 1 ELSE 0
  OBVIOUS
<1>13. PICK x : x = [M.d[dst] EXCEPT !.base = st, !.off = 0, !.n = M.d[src].n]
  OBVIOUS
<1>14. x.base = st /\ x.pad2 = M.d[dst].pad2
  <2>1. M.d[dst] \in Desc
    BY <1>6, <1>9, ShapeParts
  <2>2. QED
    BY <1>13, <2>1 DEF Desc
<1>15. G = [M EXCEPT !.s[old].rc = c, !.d[dst] = x]
  <2>1. M = [d |-> M.d, s |-> M.s]
    BY <1>6 DEF Shape
  <2>2. G = [M EXCEPT !.s[old].rc = IF @ > 0 THEN @ - 1 ELSE 0,
                      !.d[dst] = [@ EXCEPT !.base = st, !.off = 0, !.n = M.d[src].n]]
    BY <1>1, <1>3, <1>10 DEF row_replace
  <2>3. QED
    BY <1>12, <1>13, <2>1, <2>2
<1>16. Overtakes(M, G, dst, st, c, x)
  BY <1>10, <1>14, <1>15 DEF Overtakes
<1>17. Shares(M, X, dst)
  BY <1>9 DEF Shares
<1>18. Loose(M, K, R, k) /\ k # dst
  <2>1. k \notin K
    <3>1. \A r \in K : r \in DOMAIN H.d
      BY DEF Counted, Shares
    <3>2. QED
      BY <1>7, <3>1
  <2>2. k \notin R /\ k # dst
    BY <1>7
  <2>3. QED
    BY <1>7, <1>8, <2>1, <2>2 DEF Loose, Single, Fresh
<1>19. M.s[M.d[dst].base].rc > 0 => c = M.s[M.d[dst].base].rc - 1
  BY <1>10, <1>12
<1>20. QED
  <2>1. M.d[dst].base \in DOMAIN M.s /\ st # M.d[dst].base /\ st \in DOMAIN M.s
    BY <1>7, <1>10, <1>11
  <2>2. QED
    BY <1>6, <1>8, <1>16, <1>17, <1>18, <1>19, <2>1, OvertakeCounted

-----------------------------------------------------------------------------
(* Assignments: each replaced row leaves one more uncounted copy behind. *)

(* The counts cover the shares, for some uncounted copies. *)
SomeCounted(H, K, R) == \E X : Counted(H, K, R, X)

(* What is kept stays in use. *)
LEMMA StillIn ==
  ASSUME NEW H, NEW G, NEW C, NEW V, NEW O, NEW D, NEW nd, NEW ns, Does(H, G, C, V, O, D, nd, ns),
         NEW R, R \subseteq DOMAIN H.d
  PROVE  R \subseteq DOMAIN G.d
BY DEF Does, Keeps

(* A row takes over a copy of another. *)
LEMMA SomeReplaced ==
  ASSUME CountsSuffice, NEW H, NEW C, NEW V, Good(H, C, V, None), prog \in Programs,
         NEW dst \in DOMAIN H.d, NEW src \in DOMAIN H.d, MayTake(H, C, V, dst, src),
         NEW K, NEW R, NEW X, Counted(H, K, R, X), R \subseteq DOMAIN H.d, Shares(H, X, dst),
         NEW G, G = row_replace(H, dst, src)
  PROVE  SomeCounted(G, K, R)
<1>1. PICK k : k = NextDesc(H)
  OBVIOUS
<1>2. Counted(G, K, R, X \cup {k})
  BY <1>1, ReplaceCounted
<1>3. QED
  BY <1>2 DEF SomeCounted

(* An element of a row of rows is copied to one. *)
LEMMA CopyRowCounted ==
  ASSUME CountsSuffice, NEW H, NEW C, NEW V, Good(H, C, V, None), prog \in Programs,
         NEW o, DeepRow(H, o), NEW src, DeepRow(H, src), NEW i \in 1 .. H.d[src].n,
         NEW at \in Nat, H.d[o].off < at, at <= H.d[o].off + H.d[o].n,
         FreeD(H) >= 2, FreeS(H) > 0, NEW K, NEW R, SomeCounted(H, K, R), R \subseteq DOMAIN H.d,
         NEW G, G = CopyElemTo(H, src, i, o, at)
  PROVE  SomeCounted(G, K, R)
<1>1. PICK st : st = H.d[o].base
  OBVIOUS
<1>2. PICK old : old = H.s[st].e[at]
  OBVIOUS
<1>3. /\ at \in 1 .. Len(H.s[st].e) /\ IsRow(old)
      /\ \E e, k, B : RowTakes(H, G, B, C, V, old, k) /\ BorrowOf(H, B, k, e)
  BY <1>1, <1>2, RowTaken
<1>4. PICK e, k, B : RowTakes(H, G, B, C, V, old, k) /\ BorrowOf(H, B, k, e)
  BY <1>3
<1>5. PICK X : Counted(H, K, R, X)
  BY DEF SomeCounted
<1>6. Shares(H, X, old)
  <2>1. st \in DOMAIN H.s /\ H.s[st] \in Store
    BY <1>1, ShapeParts DEF DeepRow, Inside, Good
  <2>2. at \in DOMAIN H.s[st].e
    BY <1>3, <2>1, StoreParts
  <2>3. QED
    BY <1>2, <1>3, <1>5, <2>1, <2>2 DEF Counted
<1>7. Counted(B, K, R, X) /\ SharesStay(H, B, X)
  BY <1>4, <1>5, RowBorrowed DEF BorrowOf
<1>8. Shares(B, X, old)
  BY <1>6, <1>7 DEF SharesStay
<1>9. Good(B, C, V, None) /\ R \subseteq DOMAIN B.d
  BY <1>4, StillIn DEF RowTakes, Does
<1>10. /\ old \in DOMAIN B.d /\ k \in DOMAIN B.d /\ MayTake(B, C, V, old, k)
       /\ G = row_replace(B, old, k)
  BY <1>4 DEF RowTakes
<1>11. QED
  BY <1>7, <1>8, <1>9, <1>10, SomeReplaced

(* The elements of a row of rows are copied to one. *)
LEMMA DeepCopyCounted ==
  ASSUME CountsSuffice, NEW H, NEW C, NEW V, Good(H, C, V, None), prog \in Programs,
         NEW o \in C, DeepRow(H, o), NEW src \in C, DeepRow(H, src), NEW n \in Nat, n <= H.d[src].n,
         NEW off \in Nat, H.d[o].off <= off, off + n <= H.d[o].off + H.d[o].n,
         FreeD(H) >= 2 * n, FreeS(H) >= n, NEW K, NEW R, SomeCounted(H, K, R),
         R \subseteq DOMAIN H.d, NEW G, G = CopyElemsTo(H, src, n, o, off)
  PROVE  SomeCounted(G, K, R)
<1>1. PICK g : CopiesTo(g, H, src, n, o, off) /\ G = g[n]
  BY CopyToLoop
<1>2. /\ H.d[o].off \in Nat /\ H.d[o].n \in Nat /\ H.d[src].n \in Nat
      /\ FreeD(H) \in Nat /\ FreeS(H) \in Nat /\ Shape(H)
  BY ShapeParts, DescParts, FreeCounts DEF Good, DeepRow
<1>3. PICK D : D = DescAddr \ C
  OBVIOUS
<1> DEFINE S == {i \in 0 .. n : Does(H, g[i], C, V, None, D, 2 * i, i) /\ SomeCounted(g[i], K, R)}
<1>4. 0 \in S
  <2>1. None \subseteq D /\ 2 * 0 = 0
    BY DEF None
  <2>2. Does(H, H, C, V, None, None, 0, 0)
    BY DoesNothing
  <2>3. Does(H, H, C, V, None, D, 0, 0)
    BY <1>2, <2>1, <2>2, DoesLess
  <2>4. QED
    BY <1>1, <2>1, <2>3 DEF CopiesTo
<1>5. ASSUME NEW j \in 0 .. n, j \in S, j < n PROVE j + 1 \in S
  <2>1. PICK i : i = j + 1
    OBVIOUS
  <2>2. i \in 1 .. n /\ i - 1 = j /\ i \in 1 .. H.d[src].n /\ j \in Nat
    BY <1>2, <1>5, <2>1
  <2>3. PICK at : at = off + i
    OBVIOUS
  <2>4. at \in Nat /\ H.d[o].off < at /\ at <= H.d[o].off + H.d[o].n
    BY <1>2, <2>2, <2>3, After
  <2>5. PICK M : M = g[j]
    OBVIOUS
  <2>6. /\ Does(H, M, C, V, None, D, 2 * j, j) /\ Good(M, C, V, None)
        /\ SomeCounted(M, K, R)
    BY <1>5, <2>5 DEF Does
  <2>7. PICK L : L = g[i]
    OBVIOUS
  <2>8. L = CopyElemTo(M, src, i, o, at)
    BY <1>1, <2>2, <2>3, <2>5, <2>7 DEF CopiesTo
  <2>9. o \notin D /\ src \notin D
    BY <1>3
  <2>10. /\ DeepRow(M, o) /\ M.d[o].off = H.d[o].off /\ M.d[o].n = H.d[o].n
         /\ DeepRow(M, src) /\ M.d[src].n = H.d[src].n
    BY <2>6, <2>9, DeepKept
  <2>11. FreeD(M) \in Nat /\ FreeS(M) \in Nat /\ FreeD(M) >= FreeD(H) - 2 * j /\ FreeS(M) >= FreeS(H) - j
    BY <2>6, FreeCounts DEF Does, Good
  <2>12. FreeD(M) >= 2 /\ FreeS(M) > 0 /\ 2 * j + 2 = 2 * i /\ 2 * j \in Nat
    BY <1>2, <1>5, <2>1, <2>2, <2>11, OneElementMore
  <2>13. Does(M, L, C, V, None, D, 2, 1)
    BY <1>3, <2>2, <2>4, <2>6, <2>8, <2>10, <2>12, CopyRow
  <2>14. Does(H, L, C, V, None, D, 2 * j + 2, j + 1)
    BY <1>2, <2>2, <2>6, <2>12, <2>13, DoesBoth
  <2>15. SomeCounted(L, K, R)
    <3>1. R \subseteq DOMAIN M.d
      BY <2>6, StillIn
    <3>2. i \in 1 .. M.d[src].n /\ M.d[o].off < at /\ at <= M.d[o].off + M.d[o].n
      BY <2>2, <2>4, <2>10
    <3>3. QED
      BY <2>4, <2>6, <2>8, <2>10, <2>12, <3>1, <3>2, CopyRowCounted
  <2>16. QED
    BY <2>1, <2>2, <2>7, <2>12, <2>14, <2>15
<1>6. n \in S
  <2> HIDE DEF S
  <2>1. \A j \in 0 .. n : j \in S /\ j < n => j + 1 \in S
    BY <1>5
  <2>2. \A j \in 0 .. n : j \in S
    BY <1>4, <2>1, Steps
  <2>3. QED
    BY <2>2
<1>7. QED
  BY <1>1, <1>6

(* A row of rows is copied into one of as many elements: what it keeps is its own. *)
LEMMA DeepIntoCounted ==
  ASSUME CountsSuffice, NEW H, NEW C, NEW V, Good(H, C, V, None), prog \in Programs,
         NEW dst \in DOMAIN H.d, NEW o \in C, o = rowd_owner(H, dst), DeepRow(H, o),
         NEW src \in C, DeepRow(H, src), same_bounds(H, dst, src), NEW n, n = H.d[dst].n,
         FreeD(H) >= 2 * n, FreeS(H) >= OwnCost(H, o) + n, NEW K, NEW R, NEW X,
         Counted(H, K, R, X), R \subseteq DOMAIN H.d, Shares(H, X, o),
         NEW G, G = row_copy_into(H, dst, src)
  PROVE  SomeCounted(G, K, R)
<1>1. PICK M : M = own_store(H, o)
  OBVIOUS
<1>2. PICK off : off = H.d[dst].off
  OBVIOUS
<1>3. /\ o \in DOMAIN H.d /\ Inside(H, H.d[o]) /\ off \in Nat /\ n \in Nat
      /\ H.d[o].off <= off /\ off + n <= H.d[o].off + H.d[o].n
  BY <1>2, OwnerOf
<1>4. G = CopyElemsTo(M, src, n, o, off)
  BY <1>1, <1>2 DEF row_copy_into
<1>5. FreeS(H) \in Nat /\ FreeD(H) \in Nat /\ OwnCost(H, o) \in Nat /\ 2 * n \in Nat
  BY <1>3, FreeCounts DEF OwnCost, Good
<1>6. FreeS(H) >= OwnCost(H, o)
  BY <1>3, <1>5
<1>7. Does(H, M, C, V, None, None, 0, OwnCost(H, o))
  BY <1>1, <1>3, <1>6, OwnStore
<1>8. /\ Good(M, C, V, None) /\ Shape(M) /\ FreeS(M) >= FreeS(H) - OwnCost(H, o)
      /\ FreeD(M) >= FreeD(H) - 0 /\ R \subseteq DOMAIN M.d
  <2>1. R \subseteq DOMAIN M.d
    BY <1>7, StillIn
  <2>2. QED
    BY <1>7, <2>1 DEF Does, Good
<1>9. /\ DeepRow(M, o) /\ M.d[o].off = H.d[o].off /\ M.d[o].n = H.d[o].n
      /\ DeepRow(M, src) /\ M.d[src].n = H.d[src].n
  BY <1>7, DeepKept DEF None
<1>10. FreeS(M) >= n /\ FreeD(M) >= 2 * n /\ n <= M.d[src].n
  <2>1. FreeS(M) \in Nat /\ FreeD(M) \in Nat
    BY <1>8, FreeCounts
  <2>2. n = M.d[src].n
    BY <1>9 DEF same_bounds
  <2>3. QED
    BY <1>3, <1>5, <1>8, <2>1, <2>2
<1>11. M.d[o].off <= off /\ off + n <= M.d[o].off + M.d[o].n
  BY <1>3, <1>9
<1>12. SomeCounted(M, K, R)
  <2>1. Counted(M, K, R, X)
    BY <1>1, <1>3, <1>6, OwnCounted
  <2>2. QED
    BY <2>1 DEF SomeCounted
<1>13. QED
  BY <1>3, <1>4, <1>8, <1>9, <1>10, <1>11, <1>12, DeepCopyCounted

-----------------------------------------------------------------------------
(* The invariant of the counts.  A program whose rows are swept replaces none: its uncounted copies
   would be swept too, and give back a share they never had. *)

(* No row is empty, and one of a program with FLEX rows starts where its store does. *)
HasExtent(x) == x.n > 0 /\ (Flex # {} => x.off = 0)
Steadied(H) == \A r \in DOMAIN H.d : HasExtent(H.d[r])

Tallied(H, K, R) ==
  \E X : Counted(H, K, R, X) /\ ("sweep" \in Ops => X = None /\ Steadied(H))
TallyInv == Tallied(heap, Declared(cell, Cell), RowsOf(stack))

(* What a program does that is swept: no assignment to a row of rows, no assignment to a FLEX row but
   appends at its end, and no empty display. *)
Steady(p) ==
  /\ p.nested = {} \/ p.ops \cap {"assign", "slice_name"} = {}
  /\ p.flex = {} \/ p.ops \cap {"assign", "assign_elem", "slice_value", "slice_name"} = {}
  /\ <<>> \notin p.literals
SweptSteadily == \A p \in Programs : "sweep" \in p.ops => Steady(p)

(* A row has the extent it had, or another that is not empty. *)
Extents(H, G) ==
  \A r \in DOMAIN G.d : \/ HasExtent(G.d[r])
                        \/ /\ r \in DOMAIN H.d
                           /\ G.d[r].off = H.d[r].off /\ G.d[r].n = H.d[r].n
LEMMA StillSteadied ==
  ASSUME NEW H, NEW G, Steadied(H), Extents(H, G)
  PROVE  Steadied(G)
BY DEF Steadied, Extents, HasExtent

(* An operation that adds one descriptor with an extent leaves all others theirs. *)
LEMMA OneExtent ==
  ASSUME NEW H, NEW G, NEW C, NEW V, NEW O, NEW nd, NEW ns, Does(H, G, C, V, O, None, nd, ns), NEW k,
         DOMAIN G.d = DOMAIN H.d \cup {k}, HasExtent(G.d[k])
  PROVE  Extents(H, G)
BY DEF Does, Keeps, Extents, None

(* A step that takes no address of a descriptor makes none. *)
LEMMA NoneMade ==
  ASSUME NEW H, Shape(H), NEW G, NEW C, NEW V, NEW O, NEW D, NEW ns, Does(H, G, C, V, O, D, 0, ns)
  PROVE  DOMAIN G.d = DOMAIN H.d
<1>1. Shape(G) /\ DOMAIN H.d \subseteq DOMAIN G.d /\ FreeD(G) >= FreeD(H) - 0
  BY DEF Does, Good, Keeps
<1>2. /\ IsFiniteSet(DOMAIN G.d) /\ Cardinality(DOMAIN G.d) \in Nat /\ Cardinality(DOMAIN H.d) \in Nat
      /\ Cardinality(DescAddr) \in Nat
  BY <1>1, FreeCounts
<1>3. Cardinality(DOMAIN H.d) >= Cardinality(DOMAIN G.d)
  BY <1>1, <1>2 DEF FreeD
<1>4. Cardinality(DOMAIN H.d) <= Cardinality(DOMAIN G.d)
  BY <1>1, <1>2, FS_Subset
<1>5. Cardinality(DOMAIN H.d) = Cardinality(DOMAIN G.d)
  BY <1>2, <1>3, <1>4
<1>6. QED
  BY <1>1, <1>2, <1>5, FS_Subset

LEMMA SameExtents ==
  ASSUME NEW H, Shape(H), NEW G, NEW C, NEW V, NEW O, NEW ns, Does(H, G, C, V, O, None, 0, ns)
  PROVE  Extents(H, G)
<1>1. DOMAIN G.d = DOMAIN H.d
  BY NoneMade
<1>2. QED
  BY <1>1 DEF Does, Keeps, Extents, None

(* The invariant is of the program, which stays. *)
LEMMA NextTally ==
  ASSUME UNCHANGED prog, Tallied(heap', Declared(cell', Cell), RowsOf(stack'))
  PROVE  TallyInv'
BY DEF TallyInv, Tallied, Steadied, HasExtent, Counted, Covers, Sharers, Shares, IsRow, Declared,
       RowsOf, Ops, Flex, None

(* Other roots: those there were, and some that have their shares. *)
LEMMA OtherRoots ==
  ASSUME NEW H, NEW K, NEW R, NEW X, Counted(H, K, R, X), NEW L,
         \A r \in L : r \in K \/ Shares(H, X, r), NEW S, \A r \in S : r \in R \/ r \notin X
  PROVE  Counted(H, L, S, X)
BY DEF Counted, None

(* The rows of the stack as one is pushed, and as the top is dropped. *)
LEMMA RowsPushed ==
  ASSUME NEW sk \in Seq(Operand), NEW x \in Operand, NEW t, t = Append(sk, x)
  PROVE  \A r \in RowsOf(t) : r \in RowsOf(sk) \/ (r = x.p /\ x.k = "row")
<1>1. /\ Len(sk) \in Nat /\ DOMAIN sk = 1 .. Len(sk) /\ DOMAIN t = 1 .. Len(sk) + 1
      /\ t[Len(sk) + 1] = x /\ \A i \in 1 .. Len(sk) : t[i] = sk[i]
  BY OneAppended
<1>2. ASSUME NEW i \in DOMAIN t, t[i].k = "row"
      PROVE  t[i].p \in RowsOf(sk) \/ (t[i].p = x.p /\ x.k = "row")
  <2>1. CASE i = Len(sk) + 1
    BY <1>1, <1>2, <2>1
  <2>2. CASE i \in DOMAIN sk
    BY <1>1, <1>2, <2>2 DEF RowsOf
  <2>3. QED
    BY <1>1, <2>1, <2>2
<1>3. QED
  BY <1>2 DEF RowsOf

(* The rows below the top of the operand stack are on the stack. *)
LEMMA RowsBelow ==
  ASSUME NEW sk \in Seq(Operand), Len(sk) > 0
  PROVE  RowsOf(ButTop(sk)) \subseteq RowsOf(sk) /\ ButTop(sk) \in Seq(Operand)
<1>1. PICK t : t = ButTop(sk)
  OBVIOUS
<1>2. /\ t \in Seq(Operand) /\ DOMAIN t \subseteq DOMAIN sk /\ \A i \in DOMAIN t : t[i] = sk[i]
  BY <1>1 DEF ButTop
<1>3. RowsOf(t) \subseteq RowsOf(sk)
  BY <1>2 DEF RowsOf
<1>4. QED
  BY <1>1, <1>2, <1>3

(* The heap G has the counts of this heap, and the new row k is no uncounted copy. *)
CountsOn(G, k) ==
  \A X : Counted(heap, Declared(cell, Cell), RowsOf(stack), X)
           => Counted(G, Declared(cell, Cell), RowsOf(stack), X) /\ k \notin X

(* An operand x is pushed on some of the stack's. *)
LEMMA TallyPushed ==
  ASSUME TallyInv, NEW sk \in Seq(Operand), RowsOf(sk) \subseteq RowsOf(stack), NEW G, NEW x \in Operand,
         "sweep" \in Ops /\ Steadied(heap) => Extents(heap, G), CountsOn(G, x.p),
         heap' = G, stack' = Append(sk, x), UNCHANGED <<cell, prog>>
  PROVE  TallyInv'
<1>1. PICK K : K = Declared(cell, Cell)
  OBVIOUS
<1>2. PICK R : R = RowsOf(stack)
  OBVIOUS
<1>3. PICK X : Counted(heap, K, R, X) /\ ("sweep" \in Ops => X = None /\ Steadied(heap))
  BY <1>1, <1>2 DEF TallyInv, Tallied
<1>4. Counted(G, K, R, X) /\ x.p \notin X
  BY <1>1, <1>2, <1>3 DEF CountsOn
<1>5. PICK t : t = Append(sk, x)
  OBVIOUS
<1>6. PICK S : S = RowsOf(t)
  OBVIOUS
<1>7. \A r \in S : r \in R \/ r \notin X
  BY <1>2, <1>4, <1>5, <1>6, RowsPushed
<1>8. Counted(G, K, S, X)
  BY <1>4, <1>7, OtherRoots
<1>9. "sweep" \in Ops => X = None /\ Steadied(G)
  BY <1>3, StillSteadied
<1>10. Tallied(G, K, S)
  BY <1>8, <1>9 DEF Tallied
<1>11. heap' = G /\ cell' = cell /\ stack' = t /\ prog' = prog
  BY <1>5
<1>12. QED
  BY <1>1, <1>6, <1>10, <1>11, NextTally

-----------------------------------------------------------------------------
(* The actions keep the counts. *)

(* Cells and operands hold descriptors of the heap. *)
LEMMA StackRows ==
  ASSUME RowInv
  PROVE  /\ Safe(heap, cell, stack) /\ stack \in Seq(Operand) /\ RowsOf(stack) \subseteq DOMAIN heap.d
         /\ Declared(cell, Cell) \subseteq DOMAIN heap.d
         /\ Len(stack) > 0 => /\ RowsOf(Rest) \subseteq RowsOf(stack) /\ Rest \in Seq(Operand)
                              /\ Rest = ButTop(stack) /\ Top.p \in DOMAIN heap.d /\ Top.p \in DescAddr
                              /\ TopRow => Top.p \in RowsOf(stack)
<1>1. Safe(heap, cell, stack) /\ stack \in Seq(Operand)
  BY DEF RowInv, Safe, Operand
<1>2. \A r \in Held(cell, stack) : r \in DOMAIN heap.d
  BY <1>1, HeldIn DEF Good, Plain
<1>3. RowsOf(stack) \subseteq DOMAIN heap.d /\ Declared(cell, Cell) \subseteq DOMAIN heap.d
  BY <1>2 DEF Held
<1>4. ASSUME Len(stack) > 0
      PROVE  /\ RowsOf(Rest) \subseteq RowsOf(stack) /\ Rest \in Seq(Operand) /\ Rest = ButTop(stack)
             /\ Top.p \in DOMAIN heap.d /\ Top.p \in DescAddr /\ (TopRow => Top.p \in RowsOf(stack))
  <2>1. Rest = ButTop(stack)
    BY DEF Rest, ButTop
  <2>2. RowsOf(Rest) \subseteq RowsOf(stack) /\ Rest \in Seq(Operand)
    BY <1>1, <1>4, <2>1, RowsBelow
  <2>3. Len(stack) \in DOMAIN stack
    BY <1>1, <1>4
  <2>4. TopRow => Top.p \in RowsOf(stack)
    BY <2>3 DEF TopRow, Top, RowsOf
  <2>5. QED
    BY <1>4, <2>1, <2>2, <2>4, TopParts
<1>5. QED
  BY <1>1, <1>3, <1>4

(* A row is shared or borrowed, and pushed. *)
LEMMA ShareTallied ==
  ASSUME CountsSuffice, RowInv, TallyInv, NEW sk \in Seq(Operand), RowsOf(sk) \subseteq RowsOf(stack),
         NEW r \in DOMAIN heap.d, FreeD(heap) > 0,
         NEW G, G \in {rowd_share(heap, r), rowd_borrow(heap, r)},
         heap' = G, stack' = Append(sk, Row(NextDesc(heap))), UNCHANGED <<cell, prog>>
  PROVE  TallyInv'
<1>1. PICK k : k = NextDesc(heap)
  OBVIOUS
<1>2. PICK C : C = Held(cell, stack)
  OBVIOUS
<1>3. PICK V : V = Declared(cell, Var)
  OBVIOUS
<1>4. Good(heap, C, V, None)
  BY <1>2, <1>3, StackRows DEF Safe
<1>5. /\ k \in DescAddr /\ DOMAIN G.d = DOMAIN heap.d \cup {k}
      /\ G.d[k].off = heap.d[r].off /\ G.d[k].n = heap.d[r].n
      /\ Does(heap, G, C, V, None, None, 1, 0)
  BY <1>1, <1>4, ShareRow
<1>6. ASSUME Steadied(heap) PROVE Extents(heap, G)
  <2>1. HasExtent(heap.d[r])
    BY <1>6 DEF Steadied
  <2>2. HasExtent(G.d[k])
    BY <1>5, <2>1 DEF HasExtent
  <2>3. QED
    BY <1>5, <2>2, OneExtent
<1>7. CountsOn(G, k)
  <2> SUFFICES ASSUME NEW X, Counted(heap, Declared(cell, Cell), RowsOf(stack), X)
               PROVE  Counted(G, Declared(cell, Cell), RowsOf(stack), X) /\ k \notin X
    BY DEF CountsOn
  <2>1. CASE G = rowd_share(heap, r)
    <3>1. Counted(G, Declared(cell, Cell), RowsOf(stack), X) /\ Shares(G, X, k)
      BY <1>1, <1>4, <2>1, RowShared
    <3>2. QED
      BY <3>1 DEF Shares
  <2>2. CASE G = rowd_borrow(heap, r)
    BY <1>1, <1>4, <2>2, RowBorrowed
  <2>3. QED
    BY <2>1, <2>2
<1>8. PICK x : x = Row(k)
  OBVIOUS
<1>9. x \in Operand /\ x.p = k /\ stack' = Append(sk, x)
  BY <1>1, <1>5, <1>8, RowOperand
<1>10. QED
  BY <1>6, <1>7, <1>9, TallyPushed

LEMMA PushCellTallied ==
  ASSUME CountsSuffice, RowInv, TallyInv, NEW c \in Cell, push_cell(c)
  PROVE  TallyInv'
<1>1. PICK r : r = cell[c]
  OBVIOUS
<1>2. /\ r \in DOMAIN heap.d /\ FreeD(heap) > 0 /\ heap' = rowd_borrow(heap, r)
      /\ stack' = Append(stack, Row(NextDesc(heap))) /\ UNCHANGED <<cell, prog>>
  BY <1>1, OneDescFree, HeldIn, StackRows DEF push_cell, push, Plain
<1>3. stack \in Seq(Operand)
  BY StackRows
<1>4. QED
  BY <1>2, <1>3, ShareTallied

(* An element that is a row is in use. *)
LEMMA RowElemIn ==
  ASSUME RowInv, NEW r \in DOMAIN heap.d, NEW i \in 1 .. MaxLen, i <= heap.d[r].n,
         NEW e, e = rowd_get(heap, r, i), IsRow(e)
  PROVE  e \in DOMAIN heap.d
<1>1. Good(heap, Held(cell, stack), Declared(cell, Var), None)
  BY DEF RowInv, Safe
<1>2. i \in 1 .. heap.d[r].n
  <2>1. heap.d[r].n \in Nat /\ MaxLen \in Nat
    BY <1>1, ShapeParts, DescParts, Sizes DEF Good
  <2>2. QED
    BY <2>1
<1>3. PICK j : j = heap.d[r].off + i
  OBVIOUS
<1>4. PICK st : st = rowd_store(heap, r)
  OBVIOUS
<1>5. j \in 1 .. Len(heap.s[st].e) /\ e = heap.s[st].e[j] /\ st \in DOMAIN heap.s
  BY <1>1, <1>2, <1>3, <1>4, RowElement, StoreOf
<1>6. Elem(heap, Held(cell, stack), None, e)
  BY <1>1, <1>5, ElementOf
<1>7. QED
  BY <1>6 DEF Elem, Plain

LEMMA PushElemTallied ==
  ASSUME CountsSuffice, RowInv, TallyInv, NEW c \in Cell, NEW i \in 1 .. MaxLen, push_elem(c, i)
  PROVE  TallyInv'
<1>1. PICK r : r = cell[c]
  OBVIOUS
<1>2. PICK e : e = rowd_get(heap, r, i)
  OBVIOUS
<1>3. /\ r \in DOMAIN heap.d /\ FreeD(heap) > 0 /\ heap' = rowd_borrow(heap, e) /\ IsRow(e)
      /\ stack' = Append(stack, Row(NextDesc(heap))) /\ UNCHANGED <<cell, prog>>
      /\ i <= heap.d[r].n
  BY <1>1, <1>2, OneDescFree, HeldIn, StackRows DEF push_elem, push, Plain
<1>4. e \in DOMAIN heap.d /\ stack \in Seq(Operand)
  BY <1>2, <1>3, RowElemIn, StackRows
<1>5. QED
  BY <1>3, <1>4, ShareTallied

LEMMA DerefTallied ==
  ASSUME CountsSuffice, RowInv, TallyInv, deref
  PROVE  TallyInv'
<1>1. PICK p : p = Top.p
  OBVIOUS
<1>2. p \in DOMAIN heap.d /\ RowsOf(Rest) \subseteq RowsOf(stack) /\ Rest \in Seq(Operand)
  BY <1>1, StackRows DEF deref
<1>3. /\ FreeD(heap) > 0 /\ heap' = rowd_share(heap, p)
      /\ stack' = Append(Rest, Row(NextDesc(heap))) /\ UNCHANGED <<cell, prog>>
  BY <1>1, OneDescFree DEF deref, push
<1>4. QED
  BY <1>2, <1>3, ShareTallied

(* Fewer rows on the stack. *)
LEMMA TallyFewer ==
  ASSUME NEW G, NEW t, RowsOf(t) \subseteq RowsOf(stack),
         Tallied(G, Declared(cell, Cell), RowsOf(stack)), heap' = G, stack' = t, UNCHANGED <<cell, prog>>
  PROVE  TallyInv'
<1>1. PICK K : K = Declared(cell, Cell)
  OBVIOUS
<1>2. PICK R : R = RowsOf(stack)
  OBVIOUS
<1>3. PICK S : S = RowsOf(t)
  OBVIOUS
<1>4. PICK X : Counted(G, K, R, X) /\ ("sweep" \in Ops => X = None /\ Steadied(G))
  BY <1>1, <1>2 DEF Tallied
<1>5. Counted(G, K, S, X)
  BY <1>2, <1>3, <1>4, OtherRoots
<1>6. Tallied(G, K, S)
  BY <1>4, <1>5 DEF Tallied
<1>7. heap' = G /\ cell' = cell /\ stack' = t /\ prog' = prog
  OBVIOUS
<1>8. QED
  BY <1>1, <1>3, <1>6, <1>7, NextTally

LEMMA PopTallied ==
  ASSUME RowInv, TallyInv, pop
  PROVE  TallyInv'
<1>1. stack \in Seq(Operand)
  BY StackRows
<1>2. Len(stack) > 0
  BY <1>1 DEF pop
<1>3. RowsOf(Rest) \subseteq RowsOf(stack)
  BY <1>2, StackRows
<1>4. heap' = heap /\ cell' = cell /\ stack' = Rest /\ prog' = prog
  BY DEF pop
<1>5. QED
  BY <1>3, <1>4, TallyFewer DEF TallyInv

LEMMA DisplayTallied ==
  ASSUME CountsSuffice, SweptSteadily, RowInv, TallyInv, NEW v \in Literals, Display(v)
  PROVE  TallyInv'
<1>1. PICK C : C = Held(cell, stack)
  OBVIOUS
<1>2. PICK V : V = Declared(cell, Var)
  OBVIOUS
<1>3. /\ Good(heap, C, V, None) /\ Shape(heap) /\ prog \in Programs /\ stack \in Seq(Operand)
  BY <1>1, <1>2, StackRows, HeldIn DEF RowInv
<1>4. PICK k : k = NextDesc(heap)
  OBVIOUS
<1>5. PICK st : st = NextStore(heap)
  OBVIOUS
<1>6. PICK leaf : leaf = (\A i \in DOMAIN v : leaf_accepts(v[i]))
  OBVIOUS
<1>7. PICK G : G = NewRow(heap, v, leaf)
  OBVIOUS
<1>8. heap' = G /\ stack' = Append(stack, Row(k)) /\ UNCHANGED <<cell, prog>>
  BY <1>4, <1>6, <1>7 DEF Display, push
<1>9. FreeD(heap) > 0 /\ FreeS(heap) > 0
  <2>1. FreeD(heap) >= 1 /\ FreeS(heap) >= 1
    BY UsesFree DEF Display
  <2>2. FreeD(heap) \in Nat /\ FreeS(heap) \in Nat
    BY <1>3, FreeCounts
  <2>3. QED
    BY <2>1, <2>2
<1>10. v \in Seq(Scalar) /\ \A i \in DOMAIN v : ~IsRow(v[i])
  <2>1. v \in Seq(Scalar)
    BY <1>3, Elements DEF Literals
  <2>2. \A i \in DOMAIN v : v[i] \in Scalar
    BY <2>1
  <2>3. QED
    BY <2>1, <2>2, ScalarElem
<1>11. ASSUME NEW X, Counted(heap, Declared(cell, Cell), RowsOf(stack), X)
       PROVE  NewShare(heap, G, Declared(cell, Cell), RowsOf(stack), X, v, k, st)
  <2>1. \A i \in DOMAIN v : IsRow(v[i]) => Shares(heap, X, v[i])
    BY <1>10
  <2>2. QED
    BY <1>3, <1>4, <1>5, <1>7, <1>9, <1>11, <2>1, NewCounted
<1>12. CountsOn(G, k)
  BY <1>11 DEF NewShare, Shares, CountsOn
<1>13. ASSUME "sweep" \in Ops, Steadied(heap) PROVE Extents(heap, G)
  <2>1. Len(v) > 0
    <3>1. v # <<>>
      BY <1>3, <1>13 DEF SweptSteadily, Steady, Ops, Literals
    <3>2. QED
      BY <1>10, <3>1
  <2>2. PICK X : Counted(heap, Declared(cell, Cell), RowsOf(stack), X)
    BY DEF TallyInv, Tallied
  <2>3. NewShare(heap, G, Declared(cell, Cell), RowsOf(stack), X, v, k, st)
    BY <1>11, <2>2
  <2>4. HasExtent(G.d[k])
    BY <2>1, <2>3 DEF NewShare, HasExtent
  <2>5. DOMAIN G.d = DOMAIN heap.d \cup {k} /\ \A q \in DOMAIN heap.d : G.d[q] = heap.d[q]
    BY <2>3 DEF NewShare
  <2>6. QED
    BY <2>4, <2>5 DEF Extents
<1>14. k \in DescAddr
  BY <1>3, <1>4, <1>9, NextFree
<1>15. PICK x : x = Row(k)
  OBVIOUS
<1>16. x \in Operand /\ x.p = k /\ stack' = Append(stack, x)
  BY <1>8, <1>14, <1>15, RowOperand
<1>17. QED
  BY <1>3, <1>8, <1>12, <1>13, <1>16, TallyPushed

(* A slice: what it takes is not empty, and no program that is swept slices FLEX rows. *)
LEMMA SliceExtent ==
  ASSUME NoEmptySlices, SweptSteadily, prog \in Programs, "sweep" \in Ops,
         "slice_value" \in Ops \/ "slice_name" \in Ops, NEW n \in Trims, NEW x, x.n = n
  PROVE  HasExtent(x)
<1>1. n > 0
  BY Sizes DEF NoEmptySlices
<1>2. Flex = {}
  BY DEF SweptSteadily, Steady, Ops, Flex
<1>3. QED
  BY <1>1, <1>2 DEF HasExtent

LEMMA SliceValueTallied ==
  ASSUME CountsSuffice, NoEmptySlices, SweptSteadily, RowInv, TallyInv,
         NEW off \in 0 .. MaxLen, NEW n \in Trims, slice_value(off, n)
  PROVE  TallyInv'
<1>1. PICK C : C = Held(cell, stack)
  OBVIOUS
<1>2. PICK V : V = Declared(cell, Var)
  OBVIOUS
<1>3. PICK r : r = Top.p
  OBVIOUS
<1>4. /\ Good(heap, C, V, None) /\ r \in DOMAIN heap.d /\ heap.d[r] \in Desc /\ prog \in Programs
      /\ RowsOf(Rest) \subseteq RowsOf(stack) /\ Rest \in Seq(Operand)
  BY <1>1, <1>2, <1>3, StackRows, HeldIn, ShapeParts DEF slice_value, TopRow, RowInv
<1>5. off \in Nat /\ n \in Nat
  BY Sizes
<1>6. PICK o : o = heap.d[r].off + off
  OBVIOUS
<1>7. PICK x : x = [base |-> rowd_store(heap, r), off |-> o, n |-> n, pad2 |-> FALSE]
  OBVIOUS
<1>8. PICK k : k = NextDesc(heap)
  OBVIOUS
<1>9. PICK D : D = rowd_alloc(heap, x)
  OBVIOUS
<1>10. PICK G : G = OneMore(D, x.base)
  OBVIOUS
<1>11. /\ heap' = G /\ stack' = Append(Rest, Row(k)) /\ UNCHANGED <<cell, prog>>
       /\ FreeD(heap) > 0 /\ off + n <= heap.d[r].n /\ "slice_value" \in Ops
  BY <1>3, <1>6, <1>7, <1>8, <1>9, <1>10, OneDescFree DEF slice_value, push, OneMore
<1>12. /\ heap.d[r].off \in Nat /\ heap.d[r].n \in 0 .. prog.len
       /\ o \in Nat /\ n \in 0 .. prog.len /\ heap.d[r].off <= o
       /\ o + n <= heap.d[r].off + heap.d[r].n
  <2>1. heap.d[r].off \in Nat /\ heap.d[r].n \in 0 .. prog.len
    BY <1>4, DescParts
  <2>2. QED
    BY <1>4, <1>5, <1>6, <1>11, <2>1, PartBounds
<1>13. x \in Desc /\ PartOf(heap, r, x)
  <2>1. rowd_store(heap, r) \in StoreAddr
    BY <1>4, StoreOf DEF Good, Shape
  <2>2. QED
    BY <1>7, <1>12, <2>1 DEF Desc, PartOf
<1>14. x.pad2 = FALSE /\ x.n = n
  BY <1>7
<1>15. /\ k \in DescAddr /\ DOMAIN G.d = DOMAIN heap.d \cup {k} /\ G.d[k] = x
       /\ Does(heap, G, C, V, None, None, 1, 0)
  BY <1>4, <1>8, <1>9, <1>10, <1>11, <1>13, SharePart
<1>16. ASSUME "sweep" \in Ops PROVE Extents(heap, G)
  <2>1. HasExtent(G.d[k])
    BY <1>4, <1>11, <1>14, <1>15, <1>16, SliceExtent
  <2>2. QED
    BY <1>15, <2>1, OneExtent
<1>17. CountsOn(G, k)
  <2> SUFFICES ASSUME NEW X, Counted(heap, Declared(cell, Cell), RowsOf(stack), X)
               PROVE  Counted(G, Declared(cell, Cell), RowsOf(stack), X) /\ k \notin X
    BY DEF CountsOn
  <2>1. Counted(G, Declared(cell, Cell), RowsOf(stack), X) /\ Shares(G, X, k)
    BY <1>4, <1>8, <1>9, <1>10, <1>11, <1>13, <1>14, PartShared
  <2>2. QED
    BY <2>1 DEF Shares
<1>18. PICK y : y = Row(k)
  OBVIOUS
<1>19. y \in Operand /\ y.p = k /\ stack' = Append(Rest, y)
  BY <1>11, <1>15, <1>18, RowOperand
<1>20. QED
  BY <1>4, <1>11, <1>16, <1>17, <1>19, TallyPushed

(* A view has no share: it follows the row it is made on. *)
LEMMA ViewCounted ==
  ASSUME NEW H, Shape(H), NEW x, x.base \in DescAddr, NEW k, k \notin DOMAIN H.d, NEW G, G.s = H.s,
         DOMAIN G.d = DOMAIN H.d \cup {k}, G.d[k] = x, \A r \in DOMAIN H.d : G.d[r] = H.d[r],
         NEW K, NEW R, NEW X, Counted(H, K, R, X)
  PROVE  Counted(G, K, R, X) /\ k \notin X
<1>1. x.base \notin DOMAIN H.s
  BY Addresses DEF Shape
<1>2. SameShares(H, G)
  BY <1>1 DEF SameShares
<1>3. RowsShare(H, G, X)
  BY DEF RowsShare, Counted
<1>4. Counted(G, K, R, X)
  BY <1>2, <1>3, NoShare
<1>5. QED
  BY <1>4 DEF Counted

LEMMA SliceNameTallied ==
  ASSUME CountsSuffice, NoEmptySlices, SweptSteadily, RowInv, TallyInv,
         NEW c \in Var, NEW off \in 0 .. MaxLen, NEW n \in Trims, slice_name(c, off, n)
  PROVE  TallyInv'
<1>1. PICK C : C = Held(cell, stack)
  OBVIOUS
<1>2. PICK V : V = Declared(cell, Var)
  OBVIOUS
<1>3. PICK r : r = cell[c]
  OBVIOUS
<1>4. /\ Good(heap, C, V, None) /\ Shape(heap) /\ r \in DescAddr /\ prog \in Programs
      /\ stack \in Seq(Operand)
  BY <1>1, <1>2, <1>3, StackRows, HeldIn, Cells, ShapeParts DEF slice_name, RowInv, Plain
<1>5. PICK o : o = heap.d[r].off + off
  OBVIOUS
<1>6. PICK x : x = [base |-> r, off |-> o, n |-> n, pad2 |-> FALSE]
  OBVIOUS
<1>7. PICK k : k = NextDesc(heap)
  OBVIOUS
<1>8. PICK y : y = [k |-> "name", p |-> k]
  OBVIOUS
<1>9. PICK G : G = rowd_alloc(heap, x)
  OBVIOUS
<1>10. /\ heap' = G /\ stack' = Append(stack, y) /\ UNCHANGED <<cell, prog>>
       /\ FreeD(heap) > 0 /\ "slice_name" \in Ops
  BY <1>3, <1>5, <1>6, <1>7, <1>8, <1>9, OneDescFree DEF slice_name, push
<1>11. x.base = r /\ x.n = n
  BY <1>6
<1>12. k \in DescAddr \ DOMAIN heap.d /\ heap = [d |-> heap.d, s |-> heap.s]
  BY <1>4, <1>7, <1>10, NextFree DEF Shape
<1>13. /\ G.s = heap.s /\ DOMAIN G.d = DOMAIN heap.d \cup {k} /\ G.d[k] = x
       /\ \A q \in DOMAIN heap.d : G.d[q] = heap.d[q]
  BY <1>7, <1>9, <1>12, DescAdded
<1>14. ASSUME "sweep" \in Ops PROVE Extents(heap, G)
  <2>1. HasExtent(x)
    BY <1>4, <1>10, <1>11, <1>14, SliceExtent
  <2>2. QED
    BY <1>13, <2>1 DEF Extents
<1>15. CountsOn(G, k)
  <2> SUFFICES ASSUME NEW X, Counted(heap, Declared(cell, Cell), RowsOf(stack), X)
               PROVE  Counted(G, Declared(cell, Cell), RowsOf(stack), X) /\ k \notin X
    BY DEF CountsOn
  <2>1. QED
    BY <1>4, <1>11, <1>12, <1>13, ViewCounted
<1>16. y \in Operand /\ y.p = k
  BY <1>8, <1>12 DEF Operand
<1>17. QED
  BY <1>4, <1>10, <1>14, <1>15, <1>16, TallyPushed

LEMMA RowOfTallied ==
  ASSUME CountsSuffice, RowInv, TallyInv, row_of
  PROVE  TallyInv'
<1>1. PICK p : p = Top.p
  OBVIOUS
<1>2. PICK C : C = Held(cell, Rest)
  OBVIOUS
<1>3. PICK V : V = Declared(cell, Var)
  OBVIOUS
<1>4. PICK k : k = NextDesc(heap)
  OBVIOUS
<1>5. PICK st : st = NextStore(heap)
  OBVIOUS
<1>6. PICK e : e = <<Undef>>
  OBVIOUS
<1>7. PICK L : L = NewRow(heap, e, FALSE)
  OBVIOUS
<1>8. PICK O : O = {st}
  OBVIOUS
<1>9. MakesRowOf(L, C, V, O, st, k, p, e)
  BY <1>1, <1>2, <1>3, <1>4, <1>5, <1>6, <1>7, <1>8, RowOfMakes
<1>10. PICK G : G = store_set(L, st, 1, p)
  OBVIOUS
<1>11. heap' = G /\ stack' = Append(Rest, Row(k)) /\ UNCHANGED <<cell, prog>>
  BY <1>1, <1>4, <1>5, <1>6, <1>7, <1>10 DEF row_of, push
<1>12. /\ Good(heap, C, V, None) /\ FreeD(heap) > 0 /\ FreeS(heap) > 0 /\ Good(L, C, V, O)
       /\ MayHold(L, C, O, st, 1, p)
  BY <1>2, <1>3, <1>9 DEF MakesRowOf, Safe, Does
<1>13. st \in DOMAIN L.s /\ k \in DescAddr /\ st \in O /\ prog \in Programs
  BY <1>4, <1>8, <1>9, <1>12, NextFree DEF MakesRowOf, Made, Good, RowInv
<1>14. SlotSet(L, G, st, 1, p)
  BY <1>10, <1>12, <1>13, SetSlot
<1>15. p \in RowsOf(stack) /\ Len(stack) > 0 /\ RowsOf(Rest) \subseteq RowsOf(stack) /\ Rest \in Seq(Operand)
  BY <1>1, StackRows DEF row_of, TopRow
<1>16. ~IsRow(Undef) /\ DOMAIN e = {1} /\ e[1] = Undef /\ Len(e) = 1
  BY <1>6, ScalarElem
<1>17. ASSUME NEW X, Counted(heap, Declared(cell, Cell), RowsOf(stack), X)
       PROVE  /\ NewShare(heap, L, Declared(cell, Cell), RowsOf(stack), X, e, k, st)
              /\ Counted(G, Declared(cell, Cell), RowsOf(stack), X) /\ k \notin X
  <2>1. \A i \in DOMAIN e : IsRow(e[i]) => Shares(heap, X, e[i])
    BY <1>16
  <2>2. NewShare(heap, L, Declared(cell, Cell), RowsOf(stack), X, e, k, st)
    BY <1>4, <1>5, <1>7, <1>12, <1>17, <2>1, NewCounted
  <2>3. Counted(L, Declared(cell, Cell), RowsOf(stack), X) /\ k \notin X
    BY <2>2 DEF NewShare, Shares
  <2>4. p \notin X
    BY <1>15, <1>17 DEF Counted, None
  <2>5. Counted(G, Declared(cell, Cell), RowsOf(stack), X)
    BY <1>10, <1>12, <1>13, <2>3, <2>4, SetCounted
  <2>6. QED
    BY <2>2, <2>3, <2>5
<1>18. CountsOn(G, k)
  BY <1>17 DEF CountsOn
<1>19. Extents(heap, G)
  <2>1. PICK X : Counted(heap, Declared(cell, Cell), RowsOf(stack), X)
    BY DEF TallyInv, Tallied
  <2>2. NewShare(heap, L, Declared(cell, Cell), RowsOf(stack), X, e, k, st)
    BY <1>17, <2>1
  <2>3. /\ L.d[k].off = 0 /\ L.d[k].n = 1 /\ DOMAIN L.d = DOMAIN heap.d \cup {k}
        /\ \A q \in DOMAIN heap.d : L.d[q] = heap.d[q]
    BY <1>16, <2>2 DEF NewShare
  <2>4. /\ DOMAIN G.d = DOMAIN L.d
        /\ \A q \in DOMAIN L.d : G.d[q].off = L.d[q].off /\ G.d[q].n = L.d[q].n
    BY <1>14 DEF SlotSet, SameBounds
  <2>5. HasExtent(G.d[k])
    BY <2>3, <2>4 DEF HasExtent
  <2>6. QED
    BY <2>3, <2>4, <2>5 DEF Extents
<1>20. PICK x : x = Row(k)
  OBVIOUS
<1>21. x \in Operand /\ x.p = k /\ stack' = Append(Rest, x)
  BY <1>11, <1>13, <1>20, RowOperand
<1>22. QED
  BY <1>11, <1>15, <1>18, <1>19, <1>21, TallyPushed

LEMMA BindCellTallied ==
  ASSUME CountsSuffice, RowInv, TallyInv, NEW c \in Cell, bind_cell(c)
  PROVE  TallyInv'
<1>1. PICK C : C = Held(cell, stack)
  OBVIOUS
<1>2. PICK V : V = Declared(cell, Var)
  OBVIOUS
<1>3. PICK p : p = Top.p
  OBVIOUS
<1>4. /\ Good(heap, C, V, None) /\ p \in DOMAIN heap.d /\ p \in DescAddr
      /\ RowsOf(Rest) \subseteq RowsOf(stack)
  BY <1>1, <1>2, <1>3, StackRows, HeldIn DEF bind_cell, TopRow
<1>5. PICK k : k = NextDesc(heap)
  OBVIOUS
<1>6. PICK G : G = rowd_share(heap, p)
  OBVIOUS
<1>7. PICK cn : cn = [cell EXCEPT ![c] = k]
  OBVIOUS
<1>8. heap' = G /\ cell' = cn /\ stack' = Rest /\ prog' = prog /\ FreeD(heap) > 0
  <2>1. slot_put(heap, p) = [h |-> G, v |-> k]
    BY <1>4, <1>5, <1>6 DEF slot_put, IsRow
  <2>2. QED
    BY <1>3, <1>7, <2>1, OneDescFree DEF bind_cell
<1>9. /\ k \in DescAddr /\ DOMAIN G.d = DOMAIN heap.d \cup {k}
      /\ G.d[k].off = heap.d[p].off /\ G.d[k].n = heap.d[p].n
      /\ Does(heap, G, C, V, None, None, 1, 0)
  BY <1>4, <1>5, <1>6, <1>8, ShareRow
<1>10. PICK K : K = Declared(cell, Cell)
  OBVIOUS
<1>11. PICK R : R = RowsOf(stack)
  OBVIOUS
<1>12. PICK X : Counted(heap, K, R, X) /\ ("sweep" \in Ops => X = None /\ Steadied(heap))
  BY <1>10, <1>11 DEF TallyInv, Tallied
<1>13. Counted(G, K, R, X) /\ Shares(G, X, k)
  BY <1>4, <1>5, <1>6, <1>8, <1>12, RowShared
<1>14. PICK L : L = Declared(cn, Cell)
  OBVIOUS
<1>15. \A r \in L : r \in K \/ r = k
  <2>1. cell \in [Cell -> DescAddr \cup {Nil}]
    BY StackRows DEF Safe
  <2>2. \A d \in Cell : cn[d] = IF d = c THEN k ELSE cell[d]
    BY <1>7, <2>1
  <2>3. QED
    BY <1>10, <1>14, <2>2 DEF Declared
<1>16. PICK S : S = RowsOf(Rest)
  OBVIOUS
<1>17. Counted(G, L, S, X)
  BY <1>4, <1>11, <1>13, <1>15, <1>16, OtherRoots
<1>18. ASSUME "sweep" \in Ops PROVE X = None /\ Steadied(G)
  <2>1. X = None /\ Steadied(heap)
    BY <1>12, <1>18
  <2>2. HasExtent(G.d[k])
    BY <1>4, <1>9, <2>1 DEF Steadied, HasExtent
  <2>3. QED
    BY <1>9, <2>1, <2>2, OneExtent, StillSteadied
<1>19. Tallied(G, L, S)
  BY <1>17, <1>18 DEF Tallied
<1>20. QED
  BY <1>8, <1>14, <1>16, <1>19, NextTally

(* What a program that is swept does not do: assign a row of rows, or a FLEX row. *)
LEMMA SweptAssigns ==
  ASSUME SweptSteadily, prog \in Programs, "sweep" \in Ops, NEW c
  PROVE  /\ "assign" \in Ops \/ "slice_name" \in Ops => c \notin Nested
         /\ "assign" \in Ops \/ "assign_elem" \in Ops => c \notin Flex
BY DEF SweptSteadily, Steady, Ops, Nested, Flex

(* A step after which some set accounts for the counts, in a program that is not swept; and one that
   changes no extent, after which the same set does. *)
LEMMA SomeTallied ==
  ASSUME NEW G, NEW K, NEW R, SomeCounted(G, K, R), "sweep" \notin Ops
  PROVE  Tallied(G, K, R)
BY DEF SomeCounted, Tallied

(* An action that adds no descriptor and keeps the counts right is a step of the invariant. *)
LEMMA SameTallied ==
  ASSUME NEW H, Shape(H), NEW G, NEW C, NEW V, NEW O, NEW ns, Does(H, G, C, V, O, None, 0, ns),
         NEW K, NEW R, NEW X, Counted(G, K, R, X), "sweep" \in Ops => X = None /\ Steadied(H)
  PROVE  Tallied(G, K, R)
<1>1. "sweep" \in Ops => Steadied(G)
  BY SameExtents, StillSteadied
<1>2. QED
  BY <1>1 DEF Tallied

(* the set that accounts for the counts *)
LEMMA TallyIs ==
  ASSUME RowInv, TallyInv, NEW K, K = Declared(cell, Cell), NEW R, R = RowsOf(stack)
  PROVE  /\ R \subseteq DOMAIN heap.d /\ Shape(heap)
         /\ \E X : /\ Counted(heap, K, R, X) /\ \A r \in K : Shares(heap, X, r)
                   /\ "sweep" \in Ops => X = None /\ Steadied(heap)
<1>1. R \subseteq DOMAIN heap.d /\ Shape(heap)
  BY StackRows, RowHeap
<1>2. PICK X : Counted(heap, K, R, X) /\ ("sweep" \in Ops => X = None /\ Steadied(heap))
  BY DEF TallyInv, Tallied
<1>3. \A r \in K : Shares(heap, X, r)
  BY <1>2 DEF Counted
<1>4. QED
  BY <1>1, <1>2, <1>3

(* A row that an assignment replaces is not one of a program that is swept. *)
LEMMA NotReplaced ==
  ASSUME SweptSteadily, RowInv, NEW c \in Var, assign(c), NEW r, r = cell[c], r \in DOMAIN heap.d,
         NEW src, src = Top.p, c \in Flex \/ ~same_bounds(heap, r, src),
         "sweep" \in Ops => Steadied(heap)
  PROVE  "sweep" \notin Ops
<1> SUFFICES ASSUME "sweep" \in Ops PROVE FALSE
  OBVIOUS
<1>1. prog \in Programs /\ "assign" \in Ops
  BY DEF RowInv, assign, Uses
<1>2. c \notin Flex
  BY <1>1, SweptAssigns
<1>3. heap.d[r].n = 0
  BY <1>2 DEF assign, AssignOK
<1>4. heap.d[r].n > 0
  BY DEF Steadied, HasExtent
<1>5. QED
  BY <1>3, <1>4

LEMMA AssignTallied ==
  ASSUME NamesKeepBounds, CountsSuffice, SweptSteadily, RowInv, TallyInv, NEW c \in Var, assign(c)
  PROVE  TallyInv'
<1>1. /\ prog \in Programs /\ c \in Cell /\ Len(stack) > 0 /\ cell[c] # Nil /\ "assign" \in Ops
      /\ RowsOf(Rest) \subseteq RowsOf(stack)
  BY Cells, StackRows DEF RowInv, assign, TopRow, Uses
<1>2. PICK C : C = Held(cell, stack)
  OBVIOUS
<1>3. PICK V : V = Declared(cell, Var)
  OBVIOUS
<1>4. PICK r : r = cell[c]
  OBVIOUS
<1>5. PICK src : src = Top.p
  OBVIOUS
<1>6. PICK n : n = heap.d[src].n
  OBVIOUS
<1>7. PICK K : K = Declared(cell, Cell)
  OBVIOUS
<1>8. PICK R : R = RowsOf(stack)
  OBVIOUS
<1>9. r \in K
  BY <1>1, <1>4, <1>7 DEF Declared
<1>10. PICK X : /\ Counted(heap, K, R, X) /\ Shares(heap, X, r)
                /\ "sweep" \in Ops => X = None /\ Steadied(heap)
  BY <1>7, <1>8, <1>9, TallyIs
<1>11. /\ Good(heap, C, V, None) /\ Plain(heap, r) /\ r \in C /\ Plain(heap, src) /\ src \in C
       /\ Fits(heap, c, r) /\ Fits(heap, c, src)
       /\ FreeS(heap) >= OwnCost(heap, r) + WideCost(heap, r)
       /\ c \in Nested => FreeD(heap) >= 2 * n /\ FreeS(heap) >= OwnCost(heap, r) + n
  BY <1>2, <1>3, <1>4, <1>5, <1>6, AssignReady
<1>12. /\ r \in DOMAIN heap.d /\ src \in DOMAIN heap.d /\ Inside(heap, heap.d[r])
       /\ Inside(heap, heap.d[src]) /\ R \subseteq DOMAIN heap.d /\ Shape(heap)
  BY <1>7, <1>8, <1>11, TallyIs DEF Plain
<1>13. PICK G : G = AssignRow(heap, r, src, c \in Flex)
  OBVIOUS
<1>14. heap' = G /\ stack' = Rest /\ cell' = cell /\ prog' = prog
  BY <1>4, <1>5, <1>13 DEF assign
<1>15. Tallied(G, K, R)
  <2>1. CASE c \notin Flex /\ same_bounds(heap, r, src)
    <3>1. G = row_copy_into(heap, r, src)
      BY <1>13, <2>1 DEF AssignRow
    <3>2. r = rowd_owner(heap, r) /\ n = heap.d[r].n
      BY <1>6, <1>11, <1>12, <2>1, StoreOf DEF same_bounds
    <3>3. CASE c \notin Nested
      <4>1. FlatRow(heap, r) /\ FlatRow(heap, src)
        BY <1>11, <1>12, <3>3 DEF FlatRow, Fits
      <4>2. Does(heap, G, C, V, None, None, 0, OwnCost(heap, r) + WideCost(heap, r))
        BY <1>11, <1>12, <2>1, <3>1, <3>2, <4>1, FlatInto
      <4>3. Counted(G, K, R, X)
        BY <1>10, <1>11, <1>12, <2>1, <3>1, <3>2, <4>1, FlatIntoCounted
      <4>4. QED
        BY <1>10, <1>12, <4>2, <4>3, SameTallied
    <3>4. CASE c \in Nested
      <4>1. DeepRow(heap, r) /\ DeepRow(heap, src)
        BY <1>11, <1>12, <3>4 DEF DeepRow, Fits
      <4>2. SomeCounted(G, K, R)
        BY <1>1, <1>10, <1>11, <1>12, <2>1, <3>1, <3>2, <3>4, <4>1, DeepIntoCounted
      <4>3. "sweep" \notin Ops
        BY <1>1, <3>4, SweptAssigns
      <4>4. QED
        BY <4>2, <4>3, SomeTallied
    <3>5. QED
      BY <3>3, <3>4
  <2>2. CASE c \in Flex \/ ~same_bounds(heap, r, src)
    <3>1. G = row_replace(heap, r, src)
      BY <1>13, <2>2 DEF AssignRow
    <3>2. MayTake(heap, C, V, r, src)
      BY <1>2, <1>3, <1>4, <1>5, <2>2, AssignTakes
    <3>3. SomeCounted(G, K, R)
      BY <1>1, <1>10, <1>11, <1>12, <3>1, <3>2, SomeReplaced
    <3>4. "sweep" \notin Ops
      BY <1>4, <1>5, <1>10, <1>12, <2>2, NotReplaced
    <3>5. QED
      BY <3>3, <3>4, SomeTallied
  <2>3. QED
    BY <2>1, <2>2
<1>16. QED
  BY <1>1, <1>7, <1>8, <1>14, <1>15, TallyFewer

LEMMA AssignNameTallied ==
  ASSUME CountsSuffice, SweptSteadily, RowInv, TallyInv, assign_name
  PROVE  TallyInv'
<1>1. /\ Safe(heap, cell, stack) /\ prog \in Programs /\ stack \in Seq(Operand)
      /\ "slice_name" \in Ops
  BY DEF RowInv, Safe, Operand, assign_name, Uses
<1>2. PICK C : C = Held(cell, stack)
  OBVIOUS
<1>3. PICK V : V = Declared(cell, Var)
  OBVIOUS
<1>4. PICK dst : dst = stack[Len(stack) - 1].p
  OBVIOUS
<1>5. PICK src : src = Top.p
  OBVIOUS
<1>6. PICK o : o = rowd_owner(heap, dst)
  OBVIOUS
<1>7. PICK n : n = heap.d[dst].n
  OBVIOUS
<1>8. PICK s : s = SubSeq(stack, 1, Len(stack) - 2)
  OBVIOUS
<1>9. PICK G : G = row_copy_into(heap, dst, src)
  OBVIOUS
<1>10. heap' = G /\ stack' = s /\ cell' = cell /\ prog' = prog /\ Len(stack) > 1
  BY <1>4, <1>5, <1>8, <1>9 DEF assign_name
<1>11. RowsOf(s) \subseteq RowsOf(stack)
  <2>1. s = ButTop(ButTop(stack)) /\ Len(stack) > 0 /\ Len(ButTop(stack)) > 0
    BY <1>1, <1>8, <1>10, TwoBelow
  <2>2. RowsOf(ButTop(stack)) \subseteq RowsOf(stack) /\ ButTop(stack) \in Seq(Operand)
    BY <1>1, <2>1, RowsBelow
  <2>3. QED
    BY <2>1, <2>2, RowsBelow
<1>12. NameReady(C, V, dst, src, o, n)
  BY <1>2, <1>3, <1>4, <1>5, <1>6, <1>7, AssignNameReady
<1>13. PICK K : K = Declared(cell, Cell)
  OBVIOUS
<1>14. PICK R : R = RowsOf(stack)
  OBVIOUS
<1>15. o \in K
  BY <1>3, <1>12, <1>13, Cells DEF NameReady, Declared
<1>16. PICK X : /\ Counted(heap, K, R, X) /\ Shares(heap, X, o)
                /\ "sweep" \in Ops => X = None /\ Steadied(heap)
  BY <1>13, <1>14, <1>15, TallyIs
<1>17. R \subseteq DOMAIN heap.d /\ Shape(heap)
  BY <1>13, <1>14, TallyIs
<1>18. Tallied(G, K, R)
  <2>1. CASE FlatRow(heap, o) /\ FlatRow(heap, src)
    <3>1. Does(heap, G, C, V, None, None, 0, OwnCost(heap, o) + WideCost(heap, o))
      BY <1>6, <1>9, <1>12, <2>1, FlatInto DEF NameReady
    <3>2. Counted(G, K, R, X)
      BY <1>6, <1>9, <1>12, <1>16, <2>1, FlatIntoCounted DEF NameReady
    <3>3. QED
      BY <1>16, <1>17, <3>1, <3>2, SameTallied
  <2>2. CASE ~(FlatRow(heap, o) /\ FlatRow(heap, src))
    <3>1. SomeCounted(G, K, R)
      BY <1>1, <1>6, <1>7, <1>9, <1>12, <1>16, <1>17, <2>2, DeepIntoCounted DEF NameReady
    <3>2. "sweep" \notin Ops
      <4>1. Nested # {}
        BY <1>12, <2>2 DEF NameReady
      <4>2. QED
        BY <1>1, <4>1, SweptAssigns
    <3>3. QED
      BY <3>1, <3>2, SomeTallied
  <2>3. QED
    BY <2>1, <2>2
<1>19. QED
  BY <1>10, <1>11, <1>13, <1>14, <1>18, TallyFewer

LEMMA SetElemTallied ==
  ASSUME RowInv, TallyInv, NEW c \in Var, NEW i \in 1 .. MaxLen, NEW x \in Scalar, set_elem(c, i, x)
  PROVE  TallyInv'
<1>1. UNCHANGED <<cell, stack, prog>> /\ cell[c] # Nil /\ c \in Cell
  BY Cells DEF set_elem
<1>2. PICK C : C = Held(cell, stack)
  OBVIOUS
<1>3. PICK V : V = Declared(cell, Var)
  OBVIOUS
<1>4. PICK r : r = cell[c]
  OBVIOUS
<1>5. PICK J : J = own_store(heap, r)
  OBVIOUS
<1>6. PICK at : at = heap.d[r].off + i
  OBVIOUS
<1>7. PICK G : G = heap'
  OBVIOUS
<1>8. PICK K : K = Declared(cell, Cell)
  OBVIOUS
<1>9. PICK R : R = RowsOf(stack)
  OBVIOUS
<1>10. r \in K
  BY <1>1, <1>4, <1>8 DEF Declared
<1>11. PICK X : /\ Counted(heap, K, R, X) /\ Shares(heap, X, r)
                /\ "sweep" \in Ops => X = None /\ Steadied(heap)
  BY <1>8, <1>9, <1>10, TallyIs
<1>12. SetReady(C, V, r, J, at, x, G)
  BY <1>2, <1>3, <1>4, <1>5, <1>6, <1>7, SetElemReady
<1>13. Good(heap, C, V, None) /\ Inside(heap, heap.d[r]) /\ FreeS(heap) >= OwnCost(heap, r)
  BY <1>12 DEF SetReady, FlatRow
<1>14. Counted(J, K, R, X) /\ SharesStay(heap, J, X) /\ J.s[J.d[r].base].rc <= 1
  BY <1>5, <1>11, <1>13, OwnCounted
<1>15. Owned(J, K, R, X, r)
  BY <1>11, <1>14 DEF Owned, SharesStay
<1>16. /\ Good(J, C, V, None) /\ FlatRow(J, r) /\ FreeS(J) >= WriteCost(J, r, x)
       /\ G \in Writes(J, r, at, x) /\ at \in 1 .. Len(J.s[J.d[r].base].e)
       /\ Does(heap, J, C, V, None, None, 0, OwnCost(heap, r)) /\ WriteCost(J, r, x) \in Nat
  BY <1>12 DEF SetReady, Does
<1>17. x \in Value /\ ~IsRow(x)
  BY ScalarElem
<1>18. Counted(G, K, R, X)
  BY <1>15, <1>16, <1>17, WriteCounted DEF Owned
<1>19. Does(J, G, C, V, None, None, 0, WriteCost(J, r, x))
  BY <1>16, <1>17, ScalarTo DEF FlatRow
<1>20. OwnCost(heap, r) \in Nat /\ Shape(heap)
  BY <1>13, CostsAreNumbers DEF Good
<1>21. Does(heap, G, C, V, None, None, 0 + 0, OwnCost(heap, r) + WriteCost(J, r, x))
  BY <1>16, <1>19, <1>20, DoesBoth
<1>22. Tallied(G, K, R)
  BY <1>11, <1>18, <1>20, <1>21, SameTallied
<1>23. heap' = G /\ cell' = cell /\ stack' = stack /\ prog' = prog
  BY <1>1, <1>7
<1>24. QED
  BY <1>8, <1>9, <1>22, <1>23, TallyFewer

(* AssignRow on a row of scalars in a row. *)
LEMMA AssignFlatCounted ==
  ASSUME CountsSuffice, NEW H, NEW C, NEW V, Good(H, C, V, None), prog \in Programs, NEW e, e \notin C,
         FlatRow(H, e), NEW src, FlatRow(H, src), NEW flex \in BOOLEAN,
         NEW x, x = (IF flex \/ ~same_bounds(H, e, src) THEN 1 ELSE 0),
         FreeS(H) >= OwnCost(H, e) + WideCost(H, e), x = 1 => FreeS(H) > 0 /\ FreeD(H) >= 1,
         NEW K, NEW R, NEW X, Counted(H, K, R, X), R \subseteq DOMAIN H.d, Shares(H, X, e),
         NEW G, G = AssignRow(H, e, src, flex)
  PROVE  IF x = 1 THEN SomeCounted(G, K, R)
         ELSE Counted(G, K, R, X) /\ \E ns \in Nat : Does(H, G, C, V, None, None, 0, ns)
<1>1. e \in DOMAIN H.d /\ src \in DOMAIN H.d /\ Inside(H, H.d[e]) /\ Inside(H, H.d[src])
  BY DEF FlatRow
<1>2. rowd_store(H, src) = H.d[src].base /\ rowd_owner(H, e) = e
  BY <1>1, StoreOf
<1>3. CASE ~flex /\ same_bounds(H, e, src)
  <2>1. G = row_copy_into(H, e, src) /\ x # 1
    BY <1>3 DEF AssignRow
  <2>2. PICK ns : ns = OwnCost(H, e) + WideCost(H, e)
    OBVIOUS
  <2>3. Does(H, G, C, V, None, None, 0, ns)
    BY <1>1, <1>2, <1>3, <2>1, <2>2, FlatInto
  <2>4. ns \in Nat
    BY <2>2, CostsAreNumbers
  <2>5. Counted(G, K, R, X)
    BY <1>1, <1>2, <1>3, <2>1, FlatIntoCounted
  <2>6. QED
    BY <2>1, <2>3, <2>4, <2>5
<1>4. CASE flex \/ ~same_bounds(H, e, src)
  <2>1. G = row_replace(H, e, src) /\ x = 1
    BY <1>4 DEF AssignRow
  <2>2. PICK n : n = H.d[src].n
    OBVIOUS
  <2>3. CopyCost(H, src, n) = 0
    BY <1>2 DEF CopyCost, FlatRow
  <2>4. e \notin V
    BY DEF Good
  <2>5. FreeD(H) >= 1 + CopyCost(H, src, H.d[src].n) /\ FreeS(H) > 0
    BY <2>1, <2>2, <2>3
  <2>6. MayTake(H, C, V, e, src)
    BY <1>1, <1>2, <2>4, <2>5 DEF MayTake, FlatRow
  <2>7. SomeCounted(G, K, R)
    BY <1>1, <2>1, <2>6, SomeReplaced
  <2>8. QED
    BY <2>1, <2>7
<1>5. QED
  BY <1>3, <1>4

(* A row in a row has its share; in a program that is swept it is not replaced. *)
LEMMA ElemShared ==
  ASSUME NEW H, NEW K, NEW R, NEW X, Counted(H, K, R, X), NEW e, IsElem(H, e)
  PROVE  Shares(H, X, e)
BY DEF IsElem, Counted

(* A program that sweeps never replaces the row of an element. *)
LEMMA ElemNotReplaced ==
  ASSUME SweptSteadily, prog \in Programs, "assign_elem" \in Ops, NEW c, NEW flex, flex => c \in Flex,
         NEW H, NEW e \in DOMAIN H.d, NEW src, AssignOK(H, e, src, flex),
         flex \/ ~same_bounds(H, e, src), "sweep" \in Ops => Steadied(H)
  PROVE  "sweep" \notin Ops
<1> SUFFICES ASSUME "sweep" \in Ops PROVE FALSE
  OBVIOUS
<1>1. ~flex
  BY SweptAssigns
<1>2. H.d[e].n = 0
  BY <1>1 DEF AssignOK
<1>3. H.d[e].n > 0
  BY DEF Steadied, HasExtent
<1>4. QED
  BY <1>2, <1>3

LEMMA AssignElemTallied ==
  ASSUME CountsSuffice, SweptSteadily, RowInv, TallyInv, NEW c \in Var, NEW i \in 1 .. MaxLen,
         assign_elem(c, i)
  PROVE  TallyInv'
<1>1. /\ stack' = Rest /\ UNCHANGED <<cell, prog>> /\ cell[c] # Nil /\ c \in Cell
      /\ "assign_elem" \in Ops /\ prog \in Programs /\ RowsOf(Rest) \subseteq RowsOf(stack)
  BY Cells, StackRows DEF assign_elem, Uses, RowInv, TopRow
<1>2. PICK C : C = Held(cell, stack)
  OBVIOUS
<1>3. PICK V : V = Declared(cell, Var)
  OBVIOUS
<1>4. PICK r : r = cell[c]
  OBVIOUS
<1>5. PICK J : J = own_store(heap, r)
  OBVIOUS
<1>6. PICK e : e = rowd_get(heap, r, i)
  OBVIOUS
<1>7. PICK src : src = Top.p
  OBVIOUS
<1>8. PICK flex : flex = (c \in Flex)
  OBVIOUS
<1>9. PICK x : x = (IF flex \/ ~same_bounds(heap, e, src) THEN 1 ELSE 0)
  OBVIOUS
<1>10. PICK G : G = heap'
  OBVIOUS
<1>11. ElemReady(C, V, r, J, e, src, flex, x, G)
  BY <1>2, <1>3, <1>4, <1>5, <1>6, <1>7, <1>8, <1>9, <1>10, AssignElemReady
<1>12. PICK K : K = Declared(cell, Cell)
  OBVIOUS
<1>13. PICK R : R = RowsOf(stack)
  OBVIOUS
<1>14. r \in K
  BY <1>1, <1>4, <1>12 DEF Declared
<1>15. PICK X : /\ Counted(heap, K, R, X) /\ Shares(heap, X, r)
                /\ "sweep" \in Ops => X = None /\ Steadied(heap)
  BY <1>12, <1>13, <1>14, TallyIs
<1>16. R \subseteq DOMAIN heap.d /\ Shape(heap)
  BY <1>12, <1>13, TallyIs
<1>17. /\ Good(heap, C, V, None) /\ Inside(heap, heap.d[r]) /\ FreeS(heap) >= OwnCost(heap, r)
       /\ Does(heap, J, C, V, None, None, 0, OwnCost(heap, r)) /\ Good(J, C, V, None)
       /\ e \notin C /\ flex \in BOOLEAN /\ FlatRow(J, e) /\ IsElem(J, e)
  BY <1>8, <1>11 DEF ElemReady, Does
<1>18. Counted(J, K, R, X)
  BY <1>5, <1>15, <1>17, OwnCounted
<1>19. Shares(J, X, e) /\ R \subseteq DOMAIN J.d /\ e \in DOMAIN J.d
  BY <1>16, <1>17, <1>18, ElemShared, StillIn DEF FlatRow
<1>20. "sweep" \in Ops => X = None /\ Steadied(J)
  BY <1>15, <1>16, <1>17, SameExtents, StillSteadied
<1>21. IF x = 1 THEN SomeCounted(G, K, R)
       ELSE Counted(G, K, R, X) /\ \E ns \in Nat : Does(J, G, C, V, None, None, 0, ns)
  BY <1>1, <1>11, <1>17, <1>18, <1>19, AssignFlatCounted DEF ElemReady
<1>22. Tallied(G, K, R)
  <2>1. CASE x = 1
    <3>1. "sweep" \notin Ops
      <4>1. (flex \/ ~same_bounds(J, e, src)) /\ AssignOK(J, e, src, flex)
        BY <1>11, <2>1 DEF ElemReady
      <4>2. QED
        BY <1>1, <1>8, <1>19, <1>20, <2>1, <4>1, ElemNotReplaced
    <3>2. SomeCounted(G, K, R)
      BY <1>21, <2>1
    <3>3. QED
      BY <3>1, <3>2, SomeTallied
  <2>2. CASE x # 1
    <3>1. Counted(G, K, R, X) /\ \E ns \in Nat : Does(J, G, C, V, None, None, 0, ns)
      BY <1>21, <2>2
    <3>2. Shape(J)
      BY <1>17 DEF Good
    <3>3. QED
      BY <1>20, <3>1, <3>2, SameTallied
  <2>3. QED
    BY <2>1, <2>2
<1>23. heap' = G /\ cell' = cell /\ stack' = Rest /\ prog' = prog
  BY <1>1, <1>10
<1>24. QED
  BY <1>1, <1>12, <1>13, <1>22, <1>23, TallyFewer

-----------------------------------------------------------------------------
(* append_in_place gives back a share of the store it leaves. *)

(* A count that is taken down before it wraps. *)
LEMMA OneTurn ==
  ASSUME NEW d \in 0 .. RcMod - 1
  PROVE  (d + RcMod) % RcMod = d
<1>1. PICK q : q = (d + RcMod) \div RcMod
  OBVIOUS
<1>2. PICK m : m = (d + RcMod) % RcMod
  OBVIOUS
<1>3. q \in Int /\ m \in 0 .. RcMod - 1
  BY <1>1, <1>2, Sizes
<1>4. d + RcMod = RcMod * q + m
  BY <1>1, <1>2, Sizes
<1>5. q = 1
  <2>1. CASE q <= 0
    <3>1. RcMod * q <= 0
      BY <1>3, <2>1, Sizes
    <3>2. QED
      BY <1>3, <1>4, <3>1, Sizes
  <2>2. CASE q >= 2
    <3>1. RcMod * q >= RcMod * 2
      BY <1>3, <2>2, Sizes
    <3>2. QED
      BY <1>3, <1>4, <3>1, Sizes
  <2>3. QED
    BY <1>3, <2>1, <2>2
<1>6. QED
  BY <1>2, <1>3, <1>4, <1>5, Sizes

(* A count that is not zero does not wrap when a share is taken back. *)
LEMMA OneDown ==
  ASSUME NEW c \in Nat, c > 0, c < RcMod
  PROVE  (c + RcMod - 1) % RcMod = c - 1
<1>1. PICK d : d = c - 1
  OBVIOUS
<1>2. d \in 0 .. RcMod - 1 /\ c + RcMod - 1 = d + RcMod
  BY <1>1, Sizes
<1>3. QED
  BY <1>1, <1>2, OneTurn

(* A row moves to a new store, and its share of the old one is given back. *)
LEMMA GoneCounted ==
  ASSUME NEW H, NEW C, NEW V, NEW O, Good(H, C, V, O), FreeS(H) > 0, NEW K, NEW R, NEW X,
         Counted(H, K, R, X), NEW o, Shares(H, X, o), NEW st, st = H.d[o].base, st \in DOMAIN H.s,
         NEW x, FirstOf(H, X, x), NEW M, M = MoveTo(H, o, x), NEW G, G = OneGone(M, st)
  PROVE  Counted(G, K, R, X) /\ SharesStay(H, G, X) /\ G.s[G.d[o].base].rc = 1
<1>1. Shape(H) /\ o \in DOMAIN H.d /\ H.s[st] \in Store
  BY ShapeParts DEF Good, Shares
<1>2. M = [d |-> M.d, s |-> M.s] /\ st \in DOMAIN M.s /\ M.s[st] = H.s[st]
  BY <1>1, MovedAlone
<1>3. PICK b : b = H.s[st].rc
  OBVIOUS
<1>4. b \in Nat /\ b > 0 /\ b < RcMod
  <2>1. b \in Nat /\ b > 0 /\ b \in 0 .. RcMod - 1
    BY <1>1, <1>3, HasCount
  <2>2. QED
    BY <2>1, Sizes
<1>5. PICK c : c = (b + RcMod - 1) % RcMod
  OBVIOUS
<1>6. c = b - 1
  BY <1>4, <1>5, OneDown
<1>7. G = [M EXCEPT !.s[st].rc = c]
  BY <1>2, <1>3, <1>5 DEF OneGone
<1>8. PICK N : N = M
  OBVIOUS
<1>9. PICK F : F = G
  OBVIOUS
<1>10. PICK old : old = st
  OBVIOUS
<1>11. /\ N = [d |-> N.d, s |-> N.s] /\ old \in DOMAIN N.s /\ N.s[old] \in Store
       /\ F = [N EXCEPT !.s[old].rc = c] /\ N.s[old] = H.s[old]
  BY <1>1, <1>2, <1>7, <1>8, <1>9, <1>10
<1>12. /\ F.d = N.d /\ SameElements(N, F) /\ F.s[old].rc = c
       /\ \A t \in DOMAIN N.s \ {old} : F.s[t].rc = N.s[t].rc
  BY <1>11, RcSet
<1>13. Leaves(H, N, F, old)
  <2>1. F.s[old].rc = H.s[old].rc - 1
    BY <1>3, <1>6, <1>10, <1>12
  <2>2. QED
    BY <1>12, <2>1 DEF Leaves, LeavesShare
<1>14. Counted(F, K, R, X) /\ SharesStay(H, F, X) /\ F.s[F.d[o].base].rc = 1
  <2>1. N = MoveTo(H, o, x) /\ Leaves(H, N, F, st)
    BY <1>8, <1>10, <1>13
  <2>2. QED
    BY <2>1, MoveCounted
<1>15. QED
  BY <1>9, <1>14

(* Grow *)
LEMMA GrowCounted ==
  ASSUME NEW H, NEW C, NEW V, Good(H, C, V, None), prog \in Programs, NEW o, FlatRow(H, o),
         H.d[o].n < prog.len, FreeS(H) > 0, NEW K, NEW R, NEW X, Counted(H, K, R, X),
         Shares(H, X, o), NEW G, G = Grow(H, o)
  PROVE  Counted(G, K, R, X) /\ SharesStay(H, G, X)
<1>1. PICK st : st = H.d[o].base
  OBVIOUS
<1>2. PICK n : n = H.d[o].n
  OBVIOUS
<1>3. PICK y : y = H.s[st]
  OBVIOUS
<1>4. /\ H = [d |-> H.d, s |-> H.s] /\ Shape(H) /\ st \in DOMAIN H.s /\ y \in Store /\ Scalars(y)
      /\ Sound(H, C, None, y) /\ n \in Nat /\ H.d[o].off \in Nat
  BY <1>1, <1>2, <1>3, ShapeParts, DescParts DEF Good, Inside, FlatRow, Shape
<1>5. n <= Len(y.e)
  <2>1. Len(y.e) \in Nat /\ H.d[o].off + n <= Len(y.e)
    BY <1>1, <1>2, <1>3, <1>4, StoreParts DEF FlatRow, Inside
  <2>2. QED
    BY <1>4, <2>1
<1>6. CASE n + 1 <= Len(y.e)
  <2>1. G = H
    BY <1>1, <1>2, <1>3, <1>6 DEF Grow
  <2>2. QED
    BY <2>1 DEF SharesStay
<1>7. CASE ~(n + 1 <= Len(y.e))
  <2>1. PICK x : x = Longer(y, n)
    OBVIOUS
  <2>2. Scalars(x)
    BY <1>2, <1>4, <1>5, <1>7, <2>1, LongerStore
  <2>3. FirstOf(H, X, x)
    BY <2>1, <2>2 DEF FirstOf, Scalars, Longer
  <2>4. PICK M : M = MoveTo(H, o, x)
    OBVIOUS
  <2>5. G = OneGone(M, st)
    BY <1>1, <1>2, <1>3, <1>4, <1>7, <2>1, <2>4, GrowMoves
  <2>6. QED
    BY <1>1, <1>4, <2>3, <2>4, <2>5, GoneCounted
<1>8. QED
  BY <1>6, <1>7

(* the leaf made slots *)
LEMMA SlotsCounted ==
  ASSUME NEW H, NEW C, NEW V, Good(H, C, V, None), NEW o, FlatRow(H, o), NEW x \in Scalar,
         FreeS(H) >= WideCost(H, o), NEW K, NEW R, NEW X, Counted(H, K, R, X), Shares(H, X, o),
         NEW G, G = Slots(H, o, x)
  PROVE  Counted(G, K, R, X) /\ SharesStay(H, G, X)
<1>1. PICK st : st = H.d[o].base
  OBVIOUS
<1>2. Shape(H) /\ st \in DOMAIN H.s /\ H.s[st] \in Store /\ ~IsRow(x) /\ FreeS(H) \in Nat
  BY <1>1, ShapeParts, ScalarElem, FreeCounts DEF FlatRow, Good, Inside
<1>3. CASE ~TooWide(H, o, x)
  <2>1. G = H
    BY <1>3 DEF Slots
  <2>2. QED
    BY <2>1 DEF SharesStay
<1>4. CASE TooWide(H, o, x)
  <2>1. WideCost(H, o) = 1
    BY <1>2, <1>4 DEF TooWide, leaf_accepts, WideCost
  <2>2. FreeS(H) > 0
    BY <1>2, <2>1
  <2>3. PICK y : y = [H.s[st] EXCEPT !.leaf = FALSE, !.rc = 1]
    OBVIOUS
  <2>4. y.rc = 1 /\ y.e = H.s[st].e
    BY <1>2, <2>3 DEF Store
  <2>5. PICK W : W = MoveTo(H, o, y)
    OBVIOUS
  <2>6. G = OneGone(W, st)
    BY <1>1, <1>4, <2>3, <2>5 DEF Slots, Widen, MoveTo
  <2>7. FirstOf(H, X, y)
    BY <1>2, <2>4, ElemShares
  <2>8. QED
    BY <1>1, <1>2, <2>2, <2>5, <2>6, <2>7, GoneCounted
<1>5. QED
  BY <1>3, <1>4

(* the row's bound moved *)
LEMMA BoundAlone ==
  ASSUME NEW H, Shape(H), NEW o \in DOMAIN H.d, NEW m, NEW G, G = [H EXCEPT !.d[o].n = m]
  PROVE  /\ G.s = H.s /\ DOMAIN G.d = DOMAIN H.d /\ \A q \in DOMAIN H.d \ {o} : G.d[q] = H.d[q]
         /\ G.d[o].base = H.d[o].base /\ G.d[o].pad2 = H.d[o].pad2 /\ G.d[o].off = H.d[o].off
         /\ G.d[o].n = m
<1>1. H = [d |-> H.d, s |-> H.s] /\ H.d[o] \in Desc
  BY ShapeParts DEF Shape
<1>2. PICK x : x = [H.d[o] EXCEPT !.n = m]
  OBVIOUS
<1>3. x.base = H.d[o].base /\ x.pad2 = H.d[o].pad2 /\ x.off = H.d[o].off /\ x.n = m
  BY <1>1, <1>2 DEF Desc
<1>4. G = [d |-> [H.d EXCEPT ![o] = x], s |-> H.s]
  BY <1>1, <1>2
<1>5. G.d = [H.d EXCEPT ![o] = x] /\ G.s = H.s
  BY <1>4
<1>6. DOMAIN G.d = DOMAIN H.d /\ G.d[o] = x /\ \A q \in DOMAIN H.d \ {o} : G.d[q] = H.d[q]
  BY <1>5
<1>7. QED
  BY <1>3, <1>5, <1>6

(* A new bound is no matter of counts. *)
LEMMA BoundCounted ==
  ASSUME NEW H, Shape(H), NEW o \in DOMAIN H.d, NEW m, NEW G, G = [H EXCEPT !.d[o].n = m],
         NEW K, NEW R, NEW X, Counted(H, K, R, X)
  PROVE  Counted(G, K, R, X)
<1>1. PICK F : F = G
  OBVIOUS
<1>2. /\ F.s = H.s /\ DOMAIN F.d = DOMAIN H.d
      /\ \A q \in DOMAIN H.d : F.d[q].base = H.d[q].base /\ F.d[q].pad2 = H.d[q].pad2
  BY <1>1, BoundAlone
<1>3. SameShares(H, F)
  BY <1>2 DEF SameShares
<1>4. RowsShare(H, F, X)
  BY <1>2 DEF RowsShare, Counted
<1>5. Counted(F, K, R, X)
  BY <1>3, <1>4, NoShare
<1>6. QED
  BY <1>1, <1>5

(* a scalar put in a row of scalars *)
LEMMA PutCounted ==
  ASSUME NEW H, Shape(H), NEW o, FlatRow(H, o), NEW x \in Scalar, NEW at, NEW G,
         PutIn(H, G, o, at, x), NEW K, NEW R, NEW X, Counted(H, K, R, X)
  PROVE  Counted(G, K, R, X)
<1>1. PICK st : st = H.d[o].base
  OBVIOUS
<1>2. st \in DOMAIN H.s /\ at \in 1 .. Len(H.s[st].e) /\ G = store_set(H, st, at, x)
  BY <1>1 DEF FlatRow, Inside, PutIn
<1>3. x \in Value /\ ~IsRow(x)
  BY ScalarElem
<1>4. G = WriteSlot(H, st, at, x)
  BY <1>2, <1>3, ScalarSet
<1>5. QED
  BY <1>2, <1>3, <1>4, SlotCounted

(* append_in_place *)
LEMMA AppendCounted ==
  ASSUME NEW H, NEW C, NEW V, Good(H, C, V, None), prog \in Programs, NEW o, FlatRow(H, o), o \in C,
         o \in V => "slice_name" \notin Ops, H.d[o].off = 0, H.d[o].n < prog.len, NEW x \in Scalar,
         FreeS(H) >= OwnCost(H, o) + WideCost(H, o) + 1, NEW D, o \in D,
         NEW G, G = append_in_place(H, o, x), NEW K, NEW R, NEW X, Counted(H, K, R, X),
         Shares(H, X, o)
  PROVE  Counted(G, K, R, X) /\ HasExtent(G.d[o])
<1>1. PICK n : n = H.d[o].n
  OBVIOUS
<1>2. PICK J, M, W, S : Grows(H, J, M, C, V, D, o, n) /\ Puts(M, W, S, G, C, V, D, o, n, x)
  BY <1>1, AppendSteps
<1>3. n \in Nat
  BY <1>1, AppendSteps
<1>4. /\ J = own_store(H, o) /\ FreeS(H) >= OwnCost(H, o) /\ Good(J, C, V, None) /\ FlatRow(J, o)
      /\ FreeS(J) > 0 /\ J.d[o].n < prog.len /\ M = Grow(J, o) /\ Good(M, C, V, None)
  BY <1>1, <1>2 DEF Grows, Does
<1>5. Inside(H, H.d[o])
  BY DEF FlatRow
<1>6. Counted(J, K, R, X) /\ Shares(J, X, o)
  BY <1>4, <1>5, OwnCounted DEF SharesStay
<1>7. Counted(M, K, R, X) /\ Shares(M, X, o)
  BY <1>4, <1>6, GrowCounted DEF SharesStay
<1>8. /\ FlatRow(M, o) /\ FreeS(M) >= WideCost(M, o) /\ W = Slots(M, o, x) /\ FlatRow(W, o)
      /\ Shape(W) /\ PutIn(W, S, o, n + 1, x) /\ Shape(S) /\ o \in DOMAIN S.d /\ S.d[o].off = 0
      /\ G = [S EXCEPT !.d[o].n = n + 1]
  BY <1>2 DEF Puts, Does, Good, FlatRow
<1>9. Counted(W, K, R, X)
  BY <1>4, <1>7, <1>8, SlotsCounted
<1>10. Counted(S, K, R, X)
  BY <1>8, <1>9, PutCounted
<1>11. PICK F : F = G
  OBVIOUS
<1>12. PICK m : m = n + 1
  OBVIOUS
<1>13. F = [S EXCEPT !.d[o].n = m]
  BY <1>8, <1>11, <1>12
<1>14. Counted(F, K, R, X) /\ F.d[o].off = 0 /\ F.d[o].n = m
  <2>1. Shape(S) /\ o \in DOMAIN S.d /\ S.d[o].off = 0
    BY <1>8
  <2>2. Counted(F, K, R, X)
    BY <1>10, <1>13, <2>1, BoundCounted
  <2>3. F.d[o].off = S.d[o].off /\ F.d[o].n = m
    BY <1>13, <2>1, BoundAlone
  <2>4. QED
    BY <2>1, <2>2, <2>3
<1>15. HasExtent(F.d[o])
  BY <1>3, <1>12, <1>14 DEF HasExtent
<1>16. QED
  BY <1>11, <1>14, <1>15

LEMMA ExtentMoved ==
  ASSUME NEW H, Shape(H), NEW G, NEW C, NEW V, NEW O, NEW o, NEW ns,
         Does(H, G, C, V, O, {o}, 0, ns), HasExtent(G.d[o])
  PROVE  Extents(H, G)
<1>1. DOMAIN G.d = DOMAIN H.d
  BY NoneMade
<1>2. QED
  BY <1>1 DEF Does, Keeps, Extents

(* append_fallback *)
LEMMA FallbackCounted ==
  ASSUME CountsSuffice, NEW H, NEW C, NEW V, Good(H, C, V, None), prog \in Programs, FreeD(H) > 0,
         FreeS(H) > 0, NEW J, NEW G, NEW o, NEW k, NEW v, NEW leaf,
         Concats(H, J, G, C, V, o, k, v, leaf), NEW K, NEW R, NEW X, Counted(H, K, R, X),
         R \subseteq DOMAIN H.d, Shares(H, X, o)
  PROVE  SomeCounted(G, K, R)
<1>1. PICK st : st = NextStore(H)
  OBVIOUS
<1>2. /\ J = NewRow(H, v, leaf) /\ k = NextDesc(H) /\ Does(H, J, C, V, None, None, 1, 1)
      /\ Good(J, C, V, None) /\ k \in DOMAIN J.d /\ o \in DOMAIN J.d /\ MayTake(J, C, V, o, k)
      /\ G = row_replace(J, o, k)
  BY DEF Concats, Does
<1>3. \A i \in DOMAIN v : IsRow(v[i]) => Shares(H, X, v[i])
  BY DEF Concats
<1>4. NewShare(H, J, K, R, X, v, k, st)
  BY <1>1, <1>2, <1>3, NewCounted
<1>5. Counted(J, K, R, X) /\ Shares(J, X, o)
  BY <1>4 DEF NewShare, SharesStay
<1>6. R \subseteq DOMAIN J.d
  BY <1>2, StillIn
<1>7. QED
  BY <1>2, <1>5, <1>6, SomeReplaced

LEMMA AppendTallied ==
  ASSUME NamesKeepBounds, CountsSuffice, SweptSteadily, RowInv, TallyInv, NEW c \in Var,
         NEW x \in Scalar, append(c, x)
  PROVE  TallyInv'
<1>1. Safe(heap, cell, stack) /\ prog \in Programs /\ c \in Cell /\ cell[c] # Nil /\ c \in Flex
      /\ c \notin Nested
  BY Cells DEF RowInv, append
<1>2. PICK C : C = Held(cell, stack)
  OBVIOUS
<1>3. PICK V : V = Declared(cell, Var)
  OBVIOUS
<1>4. PICK r : r = cell[c]
  OBVIOUS
<1>5. PICK off : off = heap.d[r].off
  OBVIOUS
<1>6. PICK G : G = heap'
  OBVIOUS
<1>7. /\ G = (IF off = 0 THEN append_in_place(heap, r, x) ELSE append_fallback(heap, r, x))
      /\ UNCHANGED <<cell, stack, prog>> /\ heap.d[r].n < prog.len
      /\ IF off = 0 THEN Uses("append", 0, OwnNeeds(r) + 1) ELSE Uses("append", 2, 2)
  BY <1>4, <1>5, <1>6 DEF append
<1>8. /\ Good(heap, C, V, None) /\ Shape(heap) /\ r \in C /\ FlatRow(heap, r)
  BY <1>1, <1>2, <1>3, <1>4, HeldIn DEF Plain, FlatRow, Fits
<1>9. "slice_name" \notin Ops
  BY <1>1 DEF NamesKeepBounds, Ops, Flex
<1>10. PICK K : K = Declared(cell, Cell)
  OBVIOUS
<1>11. PICK R : R = RowsOf(stack)
  OBVIOUS
<1>12. r \in K
  BY <1>1, <1>4, <1>10 DEF Declared
<1>13. PICK X : /\ Counted(heap, K, R, X) /\ Shares(heap, X, r)
                /\ "sweep" \in Ops => X = None /\ Steadied(heap)
  BY <1>10, <1>11, <1>12, TallyIs
<1>14. R \subseteq DOMAIN heap.d
  BY <1>10, <1>11, TallyIs
<1>15. Tallied(G, K, R)
  <2>1. CASE off = 0
    <3>1. G = append_in_place(heap, r, x)
      BY <1>7, <2>1
    <3>2. rowd_owner(heap, r) = r
      BY <1>8, StoreOf DEF FlatRow
    <3>3. OwnNeeds(r) = OwnCost(heap, r) + WideCost(heap, r)
      BY <3>2, OwnNeedsIs
    <3>4. OwnNeeds(r) + 1 \in Nat
      BY <3>3, CostsAreNumbers
    <3>5. FreeS(heap) >= OwnNeeds(r) + 1
      BY <1>7, <2>1, <3>4, UsesFree
    <3>6. FreeS(heap) >= OwnCost(heap, r) + WideCost(heap, r) + 1
      BY <3>3, <3>5
    <3>7. PICK D : D = {r}
      OBVIOUS
    <3>8. r \in D
      BY <3>7
    <3>9. PICK ns \in Nat : Does(heap, G, C, V, None, D, 0, ns)
      BY <1>1, <1>5, <1>7, <1>8, <1>9, <2>1, <3>1, <3>6, <3>8, AppendInPlace
    <3>10. Counted(G, K, R, X) /\ HasExtent(G.d[r])
      BY <1>1, <1>5, <1>7, <1>8, <1>9, <1>13, <2>1, <3>1, <3>6, <3>8, AppendCounted
    <3>11. Extents(heap, G)
      BY <1>8, <3>7, <3>9, <3>10, ExtentMoved
    <3>12. "sweep" \in Ops => X = None /\ Steadied(G)
      BY <1>13, <3>11, StillSteadied
    <3>13. QED
      BY <3>10, <3>12 DEF Tallied
  <2>2. CASE off # 0
    <3>1. G = append_fallback(heap, r, x)
      BY <1>7, <2>2
    <3>2. FreeD(heap) >= 2 /\ FreeS(heap) >= 2
      BY <1>7, <2>2, UsesFree
    <3>3. PICK J, k, v, leaf : Concats(heap, J, G, C, V, r, k, v, leaf)
      BY <1>1, <1>7, <1>8, <1>9, <3>1, <3>2, FallbackSteps
    <3>4. FreeD(heap) > 0 /\ FreeS(heap) > 0
      BY <1>8, <3>2, FreeCounts
    <3>5. SomeCounted(G, K, R)
      BY <1>1, <1>8, <1>13, <1>14, <3>3, <3>4, FallbackCounted
    <3>6. "sweep" \notin Ops
      <4>1. Flex # {}
        BY <1>1
      <4>2. "sweep" \in Ops => off = 0
        BY <1>5, <1>8, <1>13, <4>1 DEF Steadied, HasExtent, FlatRow
      <4>3. QED
        BY <2>2, <4>2
    <3>7. QED
      BY <3>5, <3>6, SomeTallied
  <2>3. QED
    BY <2>1, <2>2
<1>16. RowsOf(stack) \subseteq RowsOf(stack)
  OBVIOUS
<1>17. heap' = G /\ cell' = cell /\ stack' = stack /\ prog' = prog
  BY <1>6, <1>7
<1>18. QED
  BY <1>10, <1>11, <1>15, <1>16, <1>17, TallyFewer

-----------------------------------------------------------------------------
(* A collection. *)

(* Some sharers are gone and their shares given back. *)
LEMMA SomeGone ==
  ASSUME NEW S, IsFiniteSet(S), NEW D, D \subseteq S, NEW c \in Nat, Covers(c, S, None),
         NEW g, g = Cardinality(D), NEW b, b = (IF c > g THEN c - g ELSE 0)
  PROVE  Covers(b, S \ D, None)
<1>1. S \ None = S /\ (S \ D) \ None = S \ D /\ S \cap D = D
  BY DEF None
<1>2. PICK n : n = Cardinality(S)
  OBVIOUS
<1>3. PICK m : m = Cardinality(S \ D)
  OBVIOUS
<1>4. n \in Nat /\ g \in Nat /\ m = n - g /\ g <= n
  <2>1. IsFiniteSet(D) /\ Cardinality(D) <= Cardinality(S)
    BY FS_Subset
  <2>2. Cardinality(S \ D) = Cardinality(S) - Cardinality(S \cap D)
    BY FS_Difference
  <2>3. n \in Nat /\ g \in Nat
    BY <1>2, <2>1, FS_CardinalityType
  <2>4. QED
    BY <1>1, <1>2, <1>3, <2>1, <2>2, <2>3
<1>5. n <= c /\ c <= n + 1
  BY <1>1, <1>2 DEF Covers
<1>6. m <= b /\ b <= m + 1
  BY <1>4, <1>5
<1>7. QED
  BY <1>1, <1>3, <1>6 DEF Covers

(* A sweep gives back the shares of the descriptors it frees. *)
LEMMA SweptCounted ==
  ASSUME NEW H, NEW C, NEW V, Good(H, C, V, None), NEW M, NEW S, Closed(H, C, M, S), NEW G,
         Swept(H, G, M, S), NEW k, CountsLess(H, G, S, k),
         \A st \in S : k[st] = Cardinality(Sharers(H, st) \ M),
         NEW K, K \subseteq M, NEW R, Counted(H, K, R, None)
  PROVE  Counted(G, K, R, None)
<1>1. /\ M \subseteq DOMAIN H.d /\ S \subseteq DOMAIN H.s /\ DOMAIN G.d = M /\ DOMAIN G.s = S
      /\ \A r \in M : G.d[r] = H.d[r]
      /\ \A st \in S : G.s[st].e = H.s[st].e
  BY DEF Closed, Swept
<1>2. ASSUME NEW st \in S PROVE Covers(G.s[st].rc, Sharers(G, st), None)
  <2>1. PICK T : T = Sharers(H, st)
    OBVIOUS
  <2>2. PICK D : D = T \ M
    OBVIOUS
  <2>3. Sharers(G, st) = T \ D
    BY <1>1, <2>1, <2>2 DEF Sharers
  <2>4. PICK c : c = H.s[st].rc
    OBVIOUS
  <2>5. IsFiniteSet(T) /\ c \in Nat /\ Covers(c, T, None)
    BY <1>1, <2>1, <2>4, SharersFinite, RcIsNat DEF Good, Counted
  <2>6. PICK g : g = Cardinality(D)
    OBVIOUS
  <2>7. G.s[st].rc = (IF c > g THEN c - g ELSE 0)
    BY <2>1, <2>2, <2>4, <2>6 DEF CountsLess
  <2>8. Covers(G.s[st].rc, T \ D, None)
    BY <2>2, <2>5, <2>6, <2>7, SomeGone
  <2>9. QED
    BY <2>3, <2>8
<1>3. \A r \in M : Shares(H, None, r) => Shares(G, None, r)
  BY <1>1 DEF Shares
<1>4. \A r \in K : Shares(G, None, r)
  BY <1>3 DEF Counted
<1>5. \A st \in S : \A i \in DOMAIN G.s[st].e : IsRow(G.s[st].e[i]) => Shares(G, None, G.s[st].e[i])
  <2>1. SUFFICES ASSUME NEW st \in S, NEW i \in DOMAIN G.s[st].e, IsRow(G.s[st].e[i])
                 PROVE  Shares(G, None, G.s[st].e[i])
    OBVIOUS
  <2>2. PICK v : v = H.s[st].e[i]
    OBVIOUS
  <2>3. v = G.s[st].e[i] /\ i \in DOMAIN H.s[st].e /\ IsRow(v) /\ st \in DOMAIN H.s
    BY <1>1, <2>1, <2>2
  <2>4. v \in M
    BY <2>2, <2>3 DEF Closed
  <2>5. Shares(H, None, v)
    BY <2>2, <2>3 DEF Counted
  <2>6. QED
    BY <1>3, <2>3, <2>4, <2>5
<1>6. None \subseteq DOMAIN G.d /\ R \cap None = None
  BY DEF None
<1>7. QED
  BY <1>1, <1>2, <1>4, <1>5, <1>6 DEF Counted

LEMMA SweepTallied ==
  ASSUME RowInv, TallyInv, gc_sweep
  PROVE  TallyInv'
<1>1. PICK C : C = Held(cell, stack)
  OBVIOUS
<1>2. PICK V : V = Declared(cell, Var)
  OBVIOUS
<1>3. PICK M : M = Marked
  OBVIOUS
<1>4. PICK S : S = MarkedStores
  OBVIOUS
<1>5. PICK k : k = [st \in S |-> Cardinality(GivesBack(st))]
  OBVIOUS
<1>6. PICK K : K = Declared(cell, Cell)
  OBVIOUS
<1>7. PICK R : R = RowsOf(stack)
  OBVIOUS
<1>8. Good(heap, C, V, None)
  BY <1>1, <1>2, RowHeap
<1>9. Closed(heap, C, M, S)
  BY <1>1, <1>3, <1>4, MarkedClosed
<1>10. PICK G : heap' = G /\ Swept(heap, G, M, S) /\ CountsLess(heap, G, S, k)
  BY <1>3, <1>4, <1>5, <1>8, <1>9, SweepHeap
<1>11. "sweep" \in Ops /\ UNCHANGED <<cell, stack, prog>>
  BY DEF gc_sweep
<1>12. Counted(heap, K, R, None) /\ Steadied(heap)
  BY <1>6, <1>7, <1>11 DEF TallyInv, Tallied
<1>13. \A st \in S : k[st] = Cardinality(Sharers(heap, st) \ M)
  <2>1. SUFFICES ASSUME NEW st \in S
                 PROVE  k[st] = Cardinality(Sharers(heap, st) \ M)
    OBVIOUS
  <2>2. GivesBack(st) = Sharers(heap, st) \ M
    BY <1>3 DEF GivesBack, Sharers
  <2>3. QED
    BY <1>5, <2>2
<1>14. K \subseteq M
  BY <1>1, <1>6, <1>9 DEF Closed, Held
<1>15. Counted(G, K, R, None)
  BY <1>8, <1>9, <1>10, <1>12, <1>13, <1>14, SweptCounted
<1>16. Steadied(G)
  BY <1>9, <1>10, <1>12 DEF Steadied, Swept, Closed
<1>17. Tallied(G, K, R)
  BY <1>15, <1>16 DEF Tallied
<1>18. heap' = G /\ cell' = cell /\ stack' = stack /\ prog' = prog
  BY <1>10, <1>11
<1>19. RowsOf(stack) \subseteq RowsOf(stack)
  OBVIOUS
<1>20. QED
  BY <1>6, <1>7, <1>17, <1>18, <1>19, TallyFewer

-----------------------------------------------------------------------------
(* The theorem. *)

LEMMA InitTally ==
  ASSUME Init
  PROVE  TallyInv
<1>1. /\ heap = [d |-> <<>>, s |-> <<>>] /\ cell = [c \in Cell |-> Nil] /\ stack = <<>>
  BY DEF Init
<1>2. DOMAIN heap.d = {} /\ DOMAIN heap.s = {}
  BY <1>1
<1>3. DOMAIN stack = {} /\ \A c \in Cell : cell[c] = Nil
  BY <1>1
<1>4. Declared(cell, Cell) = {} /\ RowsOf(stack) = {}
  BY <1>3 DEF Declared, RowsOf
<1>5. Counted(heap, {}, {}, None)
  BY <1>2 DEF Counted, None
<1>6. Steadied(heap)
  BY <1>2 DEF Steadied
<1>7. QED
  BY <1>4, <1>5, <1>6 DEF TallyInv, Tallied

LEMMA StepTally ==
  ASSUME NamesKeepBounds, NoEmptySlices, CountsSuffice, SweptSteadily, RowInv, TallyInv, [Next]_vars
  PROVE  TallyInv'
<1>1. CASE \E v \in Literals : Display(v)
  BY <1>1, DisplayTallied
<1>2. CASE row_of
  BY <1>2, RowOfTallied
<1>3. CASE deref
  BY <1>3, DerefTallied
<1>4. CASE pop
  BY <1>4, PopTallied
<1>5. CASE assign_name
  BY <1>5, AssignNameTallied
<1>6. CASE gc_sweep
  BY <1>6, SweepTallied
<1>7. CASE \E c \in Cell : push_cell(c)
  BY <1>7, PushCellTallied
<1>8. CASE \E c \in Cell : bind_cell(c)
  BY <1>8, BindCellTallied
<1>9. CASE \E c \in Var : assign(c)
  BY <1>9, AssignTallied
<1>10. CASE \E c \in Cell, i \in 1 .. MaxLen : push_elem(c, i)
  BY <1>10, PushElemTallied
<1>11. CASE \E c \in Var, i \in 1 .. MaxLen : assign_elem(c, i)
  BY <1>11, AssignElemTallied
<1>12. CASE \E c \in Var, i \in 1 .. MaxLen, x \in Scalar : set_elem(c, i, x)
  BY <1>12, SetElemTallied
<1>13. CASE \E c \in Var, x \in Scalar : append(c, x)
  BY <1>13, AppendTallied
<1>14. CASE \E off \in 0 .. MaxLen, n \in Trims : slice_value(off, n)
  BY <1>14, SliceValueTallied
<1>15. CASE \E c \in Var, off \in 0 .. MaxLen, n \in Trims : slice_name(c, off, n)
  BY <1>15, SliceNameTallied
<1>16. CASE UNCHANGED vars
  <2>1. UNCHANGED prog /\ heap' = heap /\ cell' = cell /\ stack' = stack
    BY <1>16 DEF vars
  <2>2. Tallied(heap', Declared(cell', Cell), RowsOf(stack'))
    <3>1. Tallied(heap, Declared(cell, Cell), RowsOf(stack))
      BY DEF TallyInv
    <3>2. RowsOf(stack) \subseteq RowsOf(stack)
      OBVIOUS
    <3>3. TallyInv'
      BY <2>1, <3>1, <3>2, TallyFewer
    <3>4. QED
      BY <2>1, <3>1
  <2>3. QED
    BY <2>1, <2>2, NextTally
<1>17. QED
  BY <1>1, <1>2, <1>3, <1>4, <1>5, <1>6, <1>7, <1>8, <1>9, <1>10, <1>11, <1>12, <1>13, <1>14,
     <1>15, <1>16 DEF Next

(* What is kept has shares, and the counts cover them. *)
LEMMA TallyCovers ==
  ASSUME RowInv, TallyInv
  PROVE  SharesCovered
<1>1. PICK C : C = Held(cell, stack)
  OBVIOUS
<1>2. PICK M : M = Marked
  OBVIOUS
<1>3. PICK S : S = MarkedStores
  OBVIOUS
<1>4. Closed(heap, C, M, S)
  BY <1>1, <1>2, <1>3, MarkedClosed
<1>5. PICK K : K = Declared(cell, Cell)
  OBVIOUS
<1>6. PICK R : R = RowsOf(stack)
  OBVIOUS
<1>7. PICK X : Counted(heap, K, R, X) /\ \A r \in K : Shares(heap, X, r)
  BY <1>5, <1>6, TallyIs
<1>8. PICK E : E = ElemDescs(RootDescs)
  OBVIOUS
<1>9. \A r \in E : Shares(heap, X, r)
  <2>1. SUFFICES ASSUME NEW r \in E PROVE Shares(heap, X, r)
    OBVIOUS
  <2>2. PICK d \in RootDescs : r \in DescAddr /\ r \in ToSet(heap.s[rowd_store(heap, d)].e)
    BY <1>8 DEF ElemDescs
  <2>3. PICK st : st = rowd_store(heap, d)
    OBVIOUS
  <2>4. d \in DOMAIN heap.d
    BY <1>2, <1>4 DEF Closed, Marked
  <2>5. st \in DOMAIN heap.s
    BY <2>3, <2>4, RowHeap
  <2>6. PICK i \in DOMAIN heap.s[st].e : r = heap.s[st].e[i]
    BY <2>2, <2>3 DEF ToSet
  <2>7. QED
    BY <1>7, <2>2, <2>5, <2>6 DEF Counted, IsRow
<1>10. PICK Q : Q = Kept
  OBVIOUS
<1>11. \A r \in Q : Shares(heap, X, r)
  BY <1>5, <1>7, <1>8, <1>9, <1>10 DEF Kept, Declared
<1>12. ASSUME NEW st \in S
       PROVE  heap.s[st].rc >= Cardinality({d \in Q : heap.d[d].base = st})
  <2>1. PICK T : T = Sharers(heap, st) \ X
    OBVIOUS
  <2>2. PICK D : D = {d \in Q : heap.d[d].base = st}
    OBVIOUS
  <2>3. st \in DOMAIN heap.s /\ Shape(heap)
    BY <1>4, RowHeap DEF Closed
  <2>4. D \subseteq T
    BY <1>11, <2>1, <2>2 DEF Shares, Sharers
  <2>5. IsFiniteSet(T) /\ Cardinality(D) <= Cardinality(T)
    <3>1. IsFiniteSet(T)
      BY <2>1, <2>3, SharersFinite, FS_Difference
    <3>2. QED
      BY <2>4, <3>1, FS_Subset
  <2>6. Cardinality(D) \in Nat /\ Cardinality(T) \in Nat
    BY <2>4, <2>5, FS_Subset, FS_CardinalityType
  <2>7. PICK c : c = heap.s[st].rc
    OBVIOUS
  <2>8. c \in Nat /\ Cardinality(T) <= c
    BY <1>7, <2>1, <2>3, <2>7, RcIsNat DEF Counted, Covers
  <2>9. c >= Cardinality(D)
    BY <2>5, <2>6, <2>8
  <2>10. QED
    BY <2>2, <2>7, <2>9
<1>13. QED
  BY <1>3, <1>10, <1>12 DEF SharesCovered

(* The share count of a store covers the shares kept in cells and in the rows that cells and operands
   hold, for every program that assigns no row before a sweep frees what the assignment leaves behind:
   own_store never takes a store for a row's own that a kept value has a share of. *)
THEOREM RowShares ==
  ASSUME NamesKeepBounds, NoEmptySlices, CountsSuffice, SweptSteadily
  PROVE  Spec => []SharesCovered
<1>1. Init => RowInv /\ TallyInv
  BY InitRow, InitTally
<1>2. (RowInv /\ TallyInv) /\ [Next]_vars => (RowInv /\ TallyInv)'
  <2>1. RowInv /\ [Next]_vars => RowInv'
    BY StepRow
  <2>2. RowInv /\ TallyInv /\ [Next]_vars => TallyInv'
    BY StepTally
  <2>3. QED
    BY <2>1, <2>2
<1>3. RowInv /\ TallyInv => SharesCovered
  BY TallyCovers
<1>4. QED
  BY <1>1, <1>2, <1>3, PTL DEF Spec

-----------------------------------------------------------------------------
(* What a step leaves of the rows Y: their descriptors, and the elements of their stores. *)

Stored(H, Y) == \A r \in Y : r \in DOMAIN H.d /\ H.d[r].base \in DOMAIN H.s

Still(H, G, Y) ==
  \A r \in Y :
    /\ r \in DOMAIN G.d /\ G.d[r] = H.d[r]
    /\ H.d[r].base \in DOMAIN G.s /\ G.s[H.d[r].base].e = H.s[H.d[r].base].e

(* The row o is none of the rows Y, and has a store that none of them is over. *)
Alone(H, o, Y) == o \notin Y /\ Stored(H, Y) /\ \A r \in Y : H.d[r].base # H.d[o].base

(* What two operations leave as it is, both leave as it is. *)
LEMMA StillBoth ==
  ASSUME NEW H, NEW G, NEW K, NEW Y, Still(H, G, Y), Still(G, K, Y)
  PROVE  Still(H, K, Y)
BY DEF Still

(* Rows that are left as they are still have their stores. *)
LEMMA StillStored ==
  ASSUME NEW H, NEW G, NEW Y, Still(H, G, Y)
  PROVE  Stored(G, Y)
BY DEF Still, Stored

(* An operation that does nothing changes no row. *)
LEMMA SameStill ==
  ASSUME NEW H, NEW Y, Stored(H, Y)
  PROVE  Still(H, H, Y)
BY DEF Still, Stored

(* Reads only add to the heap. *)
LEMMA ExtendsStill ==
  ASSUME NEW H, NEW G, NEW Y, Stored(H, Y), Extends(H, G)
  PROVE  Still(H, G, Y)
BY DEF Stored, Extends, Still

(* A row that gets another store leaves the old one as it is. *)
LEMMA MovedStill ==
  ASSUME NEW H, NEW G, NEW o, NEW Y, Stored(H, Y), o \notin Y, Moved(H, G, o)
  PROVE  Still(H, G, Y)
BY DEF Stored, Moved, Still

(* A row that takes over the store of another leaves all others as they are. *)
LEMMA TakenStill ==
  ASSUME NEW H, NEW G, NEW o, NEW src, NEW Y, Stored(H, Y), o \notin Y, Taken(H, G, o, src)
  PROVE  Still(H, G, Y)
BY DEF Stored, Taken, Still

(* A new store is the row's alone. *)
LEMMA NewAlone ==
  ASSUME NEW H, Shape(H), FreeS(H) > 0, NEW o \in DOMAIN H.d, NEW Y, Stored(H, Y), o \notin Y,
         NEW x, NEW M, M = MoveTo(H, o, x)
  PROVE  Still(H, M, Y) /\ Alone(M, o, Y)
<1>1. PICK k : k = NextStore(H)
  OBVIOUS
<1>2. /\ k \notin DOMAIN H.s /\ DOMAIN M.d = DOMAIN H.d
      /\ \A q \in DOMAIN H.d \ {o} : M.d[q] = H.d[q]
      /\ M.d[o].base = k /\ DOMAIN M.s = DOMAIN H.s \cup {k} /\ \A t \in DOMAIN H.s : M.s[t] = H.s[t]
  BY <1>1, MovedAlone
<1>3. Still(H, M, Y)
  BY <1>2 DEF Stored, Still
<1>4. \A r \in Y : M.d[r].base # M.d[o].base
  BY <1>2 DEF Stored
<1>5. Stored(M, Y)
  BY <1>3, StillStored
<1>6. QED
  BY <1>3, <1>4, <1>5 DEF Alone

(* A count changes no element. *)
LEMMA CountsAlone ==
  ASSUME NEW H, NEW G, NEW o, NEW Y, Alone(H, o, Y), G.d = H.d, SameElements(H, G)
  PROVE  Still(H, G, Y) /\ Alone(G, o, Y)
BY DEF Alone, Stored, Still, SameElements

(* The row's own store changes, or one of its slots. *)
LEMMA StoreStill ==
  ASSUME NEW H, NEW G, NEW o, NEW Y, Alone(H, o, Y), G.d = H.d, DOMAIN G.s = DOMAIN H.s,
         \A t \in DOMAIN H.s \ {H.d[o].base} : G.s[t] = H.s[t]
  PROVE  Still(H, G, Y) /\ Alone(G, o, Y)
<1>1. \A r \in Y : H.d[r].base \in DOMAIN H.s \ {H.d[o].base} /\ r \in DOMAIN H.d
  BY DEF Alone, Stored
<1>2. Still(H, G, Y)
  BY <1>1 DEF Still
<1>3. QED
  BY <1>1, <1>2 DEF Alone, Stored

(* A write to a slot of a row's own store changes no other row. *)
LEMMA SlotStill ==
  ASSUME NEW H, Shape(H), NEW o, NEW Y, Alone(H, o, Y), NEW st \in DOMAIN H.s, st = H.d[o].base,
         NEW i \in 1 .. Len(H.s[st].e), NEW v \in Value, NEW G, G = WriteSlot(H, st, i, v)
  PROVE  Still(H, G, Y) /\ Alone(G, o, Y)
<1>1. /\ G.d = H.d /\ DOMAIN G.s = DOMAIN H.s /\ \A t \in DOMAIN H.s : G.s[t].rc = H.s[t].rc
      /\ \A t \in DOMAIN H.s \ {st} : G.s[t] = H.s[t]
      /\ G.s[st].e = [H.s[st].e EXCEPT ![i] = v]
  BY SlotAlone
<1>2. QED
  BY <1>1, StoreStill, Zenon

(* Two rows that share a store are counted twice. *)
LEMMA TwoShares ==
  ASSUME NEW H, Shape(H), NEW K, NEW R, NEW X, Counted(H, K, R, X), NEW o, Shares(H, X, o), NEW r,
         Shares(H, X, r), r # o, NEW st \in DOMAIN H.s, H.d[o].base = st, H.d[r].base = st
  PROVE  H.s[st].rc > 1
<1>1. PICK S : S = Sharers(H, st) \ X
  OBVIOUS
<1>2. IsFiniteSet(S)
  BY <1>1, SharersFinite, FS_Difference
<1>3. PICK D : D = S \ {o}
  OBVIOUS
<1>4. o \in S /\ r \in D /\ IsFiniteSet(D)
  BY <1>1, <1>2, <1>3, FS_Difference DEF Shares, Sharers
<1>5. Cardinality(D) = Cardinality(S) - 1 /\ Cardinality(S) \in Nat /\ Cardinality(D) \in Nat
  BY <1>2, <1>3, <1>4, FS_RemoveElement, FS_CardinalityType
<1>6. Cardinality(D) # 0
  BY <1>4, FS_EmptySet
<1>7. Cardinality(S) <= H.s[st].rc /\ H.s[st].rc \in Nat
  BY <1>1, RcIsNat DEF Counted, Covers
<1>8. PICK a : a = Cardinality(S)
  OBVIOUS
<1>9. PICK c : c = H.s[st].rc
  OBVIOUS
<1>10. a \in Nat /\ c \in Nat /\ a > 1 /\ a <= c
  BY <1>5, <1>6, <1>7, <1>8, <1>9
<1>11. c > 1
  BY <1>10
<1>12. QED
  BY <1>9, <1>11

-----------------------------------------------------------------------------
(* A row that is written: it has a store that is its own by then. *)

(* own_store: the counts say whether another row is over the store. *)
LEMMA OwnStill ==
  ASSUME NEW H, NEW C, NEW V, Good(H, C, V, None), NEW o, Inside(H, H.d[o]),
         FreeS(H) >= OwnCost(H, o), NEW K, NEW R, NEW X, Counted(H, K, R, X), Shares(H, X, o),
         NEW Y, Stored(H, Y), o \notin Y, \A r \in Y : Shares(H, X, r), NEW G, G = own_store(H, o)
  PROVE  Still(H, G, Y) /\ Alone(G, o, Y)
<1>1. PICK st : st = H.d[o].base
  OBVIOUS
<1>2. Shape(H) /\ o \in DOMAIN H.d /\ st \in DOMAIN H.s /\ H.s[st] \in Store /\ H.s[st].rc \in Nat
  BY <1>1, ShapeParts, StoreParts DEF Good, Inside, Shares
<1>3. CASE ~(H.s[st].rc > 1)
  <2>1. G = H
    BY <1>1, <1>3 DEF own_store
  <2>2. ASSUME NEW r \in Y PROVE H.d[r].base # st
    <3>1. Shares(H, X, r) /\ r # o
      OBVIOUS
    <3>2. QED
      BY <1>1, <1>2, <1>3, <3>1, TwoShares
  <2>3. Alone(H, o, Y)
    BY <1>1, <2>2 DEF Alone
  <2>4. QED
    BY <2>1, <2>3, SameStill
<1>4. CASE H.s[st].rc > 1
  <2>1. FreeS(H) > 0
    <3>1. OwnCost(H, o) = 1 /\ FreeS(H) \in Nat
      BY <1>1, <1>2, <1>4, FreeCounts DEF OwnCost
    <3>2. QED
      BY <3>1
  <2>2. PICK x : x = [H.s[st] EXCEPT !.rc = 1]
    OBVIOUS
  <2>3. PICK M : M = MoveTo(H, o, x)
    OBVIOUS
  <2>4. M = [d |-> M.d, s |-> M.s] /\ st \in DOMAIN M.s /\ M.s[st] = H.s[st]
    BY <1>2, <2>1, <2>3, MovedAlone
  <2>5. PICK c : c = H.s[st].rc - 1
    OBVIOUS
  <2>6. G = [M EXCEPT !.s[st].rc = c]
    <3>1. OwnCopy(H, M, o, st, x)
      BY <1>1, <1>4, <2>2, <2>3, <2>4 DEF OwnCopy
    <3>2. QED
      BY <1>2, <2>5, <3>1, OwnMoves
  <2>7. G.d = M.d /\ SameElements(M, G)
    BY <1>2, <2>4, <2>6, RcSet
  <2>8. Still(H, M, Y) /\ Alone(M, o, Y)
    BY <1>2, <2>1, <2>3, NewAlone
  <2>9. Still(M, G, Y) /\ Alone(G, o, Y)
    BY <2>7, <2>8, CountsAlone
  <2>10. QED
    BY <2>8, <2>9, StillBoth
<1>5. QED
  BY <1>3, <1>4

(* A scalar is written in a row that has its store alone: it has the one it gets alone. *)
LEMMA WriteStill ==
  ASSUME NEW H, NEW C, NEW V, Good(H, C, V, None), NEW o, FlatRow(H, o),
         NEW at \in 1 .. Len(H.s[H.d[o].base].e), NEW e \in Value, ~IsRow(e),
         FreeS(H) >= WriteCost(H, o, e), NEW Y, Alone(H, o, Y), NEW G, G \in Writes(H, o, at, e)
  PROVE  Still(H, G, Y) /\ Alone(G, o, Y)
<1>1. o \in DOMAIN H.d /\ Inside(H, H.d[o]) /\ Scalars(H.s[H.d[o].base]) /\ Shape(H)
  BY DEF FlatRow, Good
<1>2. PICK W : W = Widened(H, o, e)
  OBVIOUS
<1>3. PICK st : st = W.d[o].base
  OBVIOUS
<1>4. /\ Still(H, W, Y) /\ Alone(W, o, Y) /\ Shape(W) /\ st \in DOMAIN W.s
      /\ W.s[st].e = H.s[H.d[o].base].e
  <2>1. CASE TooWide(H, o, e)
    <3>1. W = Widen(H, o)
      BY <1>2, <2>1 DEF Widened
    <3>2. FreeS(H) > 0
      <4>1. FreeS(H) \in Nat
        BY FreeCounts DEF Good
      <4>2. FreeS(H) >= 1
        BY <2>1 DEF WriteCost
      <4>3. QED
        BY <4>1, <4>2
    <3>3. /\ Moved(H, W, o) /\ Does(H, W, C, V, None, None, 0, 1)
          /\ W.s[st].e = H.s[H.d[o].base].e
      BY <1>1, <1>3, <3>1, <3>2, WidenStore
    <3>4. PICK x : x = [H.s[H.d[o].base] EXCEPT !.leaf = FALSE, !.rc = 1]
      OBVIOUS
    <3>5. W = MoveTo(H, o, x)
      BY <3>1, <3>4 DEF Widen, MoveTo
    <3>6. Stored(H, Y) /\ o \notin Y
      BY DEF Alone
    <3>7. Still(H, W, Y) /\ Alone(W, o, Y)
      BY <1>1, <3>2, <3>5, <3>6, NewAlone
    <3>8. QED
      BY <1>3, <3>3, <3>7 DEF Moved, Does, Good
  <2>2. CASE ~TooWide(H, o, e)
    <3>1. W = H
      BY <1>2, <2>2 DEF Widened
    <3>2. Still(H, H, Y)
      BY SameStill DEF Alone
    <3>3. QED
      BY <1>1, <1>3, <3>1, <3>2 DEF Inside
  <2>3. QED
    BY <2>1, <2>2
<1>5. G \in {store_set(W, st, at, e), WriteSlot(W, st, at, e)}
  BY <1>2, <1>3 DEF Writes
<1>6. G = WriteSlot(W, st, at, e)
  BY <1>5, ScalarSet
<1>7. at \in 1 .. Len(W.s[st].e)
  BY <1>4
<1>8. Still(W, G, Y) /\ Alone(G, o, Y)
  BY <1>3, <1>4, <1>6, <1>7, SlotStill
<1>9. QED
  BY <1>4, <1>8, StillBoth

(* Scalars were written in the row o, which has its store alone. *)
FilledAlone(H, G, C, V, o, Y) == Filled(H, G, C, V, o) /\ Still(H, G, Y) /\ Alone(G, o, Y)

(* An element of a row of scalars is copied to one. *)
LEMMA FillStepStill ==
  ASSUME NEW H, NEW C, NEW V, Good(H, C, V, None), NEW o, FlatRow(H, o), NEW src, FlatRow(H, src),
         FreeS(H) >= WideCost(H, o), NEW Y, NEW M, FilledAlone(H, M, C, V, o, Y),
         NEW i \in 1 .. H.d[src].n, NEW at \in Nat, H.d[o].off < at, at <= H.d[o].off + H.d[o].n,
         NEW G, G = CopyElemTo(M, src, i, o, at)
  PROVE  FilledAlone(H, G, C, V, o, Y)
<1>1. /\ Filled(H, M, C, V, o) /\ Still(H, M, Y) /\ Alone(M, o, Y)
      /\ Does(H, M, C, V, None, None, 0, WideCost(H, o)) /\ Good(M, C, V, None)
  BY DEF FilledAlone, Filled, Does
<1>2. /\ FlatRow(M, o) /\ M.d[o].off = H.d[o].off /\ M.d[o].n = H.d[o].n
      /\ FlatRow(M, src) /\ M.d[src].off = H.d[src].off /\ M.d[src].n = H.d[src].n
  BY <1>1, FlatKept DEF None
<1>3. at \in 1 .. Len(M.s[M.d[o].base].e)
  <2>1. o \in DOMAIN M.d /\ Inside(M, M.d[o])
    BY <1>2 DEF FlatRow
  <2>2. QED
    BY <1>1, <1>2, <2>1, PlaceIn
<1>4. PICK e : e = rowd_get(M, src, i)
  OBVIOUS
<1>5. e \in Value /\ ~IsRow(e)
  <2>1. src \in DOMAIN M.d /\ Inside(M, M.d[src]) /\ Scalars(M.s[M.d[src].base]) /\ i \in 1 .. M.d[src].n
    BY <1>2 DEF FlatRow
  <2>2. rowd_store(M, src) = M.d[src].base /\ rowd_store(M, src) \in DOMAIN M.s
    BY <1>1, <2>1, StoreOf
  <2>3. /\ M.d[src].off + i \in 1 .. Len(M.s[rowd_store(M, src)].e)
        /\ e = M.s[rowd_store(M, src)].e[M.d[src].off + i]
    BY <1>1, <1>4, <2>1, RowElement
  <2>4. QED
    BY <1>1, <2>1, <2>2, <2>3, ElementOf
<1>6. G \in Writes(M, o, at, e)
  BY <1>4, <1>5, CopyIsWrite
<1>7. Filled(H, G, C, V, o)
  BY <1>1, FillStep
<1>8. FreeS(M) >= WriteCost(M, o, e)
  BY <1>1, <1>5, FillCost DEF Good
<1>9. Still(M, G, Y) /\ Alone(G, o, Y)
  BY <1>1, <1>2, <1>3, <1>5, <1>6, <1>8, WriteStill
<1>10. Still(H, G, Y)
  BY <1>1, <1>9, StillBoth
<1>11. QED
  BY <1>7, <1>9, <1>10 DEF FilledAlone

(* The elements of a row of scalars are copied to one. *)
LEMMA FlatCopyStill ==
  ASSUME NEW H, NEW C, NEW V, Good(H, C, V, None), NEW o, FlatRow(H, o), NEW src, FlatRow(H, src),
         FreeS(H) >= WideCost(H, o), NEW n \in Nat, n <= H.d[src].n, NEW off \in Nat,
         H.d[o].off <= off, off + n <= H.d[o].off + H.d[o].n, NEW Y, Alone(H, o, Y),
         NEW G, G = CopyElemsTo(H, src, n, o, off)
  PROVE  Still(H, G, Y)
<1>1. PICK g : CopiesTo(g, H, src, n, o, off) /\ G = g[n]
  BY CopyToLoop
<1>2. H.d[o].off \in Nat /\ H.d[o].n \in Nat /\ H.d[src].n \in Nat
  BY ShapeParts, DescParts DEF Good, FlatRow
<1> DEFINE S == {i \in 0 .. n : FilledAlone(H, g[i], C, V, o, Y)}
<1>3. 0 \in S
  <2>1. Filled(H, H, C, V, o) /\ Still(H, H, Y)
    BY FillStart, SameStill DEF Alone
  <2>2. QED
    BY <1>1, <2>1 DEF CopiesTo, FilledAlone
<1>4. ASSUME NEW j \in 0 .. n, j \in S, j < n PROVE j + 1 \in S
  <2>1. PICK i : i = j + 1
    OBVIOUS
  <2>2. i \in 1 .. n /\ i - 1 = j /\ i \in 1 .. H.d[src].n
    BY <1>2, <1>4, <2>1
  <2>3. PICK at : at = off + i
    OBVIOUS
  <2>4. at \in Nat /\ H.d[o].off < at /\ at <= H.d[o].off + H.d[o].n
    BY <1>2, <2>2, <2>3, After
  <2>5. PICK M : M = g[j]
    OBVIOUS
  <2>6. g[i] = CopyElemTo(M, src, i, o, at) /\ FilledAlone(H, M, C, V, o, Y)
    BY <1>1, <1>4, <2>2, <2>3, <2>5 DEF CopiesTo
  <2>7. FilledAlone(H, g[i], C, V, o, Y)
    BY <2>2, <2>4, <2>6, FillStepStill
  <2>8. QED
    BY <2>1, <2>2, <2>7
<1>5. n \in S
  <2> HIDE DEF S
  <2>1. \A j \in 0 .. n : j \in S /\ j < n => j + 1 \in S
    BY <1>4
  <2>2. \A j \in 0 .. n : j \in S
    BY <1>3, <2>1, Steps
  <2>3. QED
    BY <2>2
<1>6. QED
  BY <1>1, <1>5 DEF FilledAlone

(* row_copy_into: a row of scalars is copied into one that has a share. *)
LEMMA FlatIntoStill ==
  ASSUME NEW H, NEW C, NEW V, Good(H, C, V, None), NEW dst \in DOMAIN H.d, NEW o,
         o = rowd_owner(H, dst), FlatRow(H, o), NEW src, FlatRow(H, src), same_bounds(H, dst, src),
         FreeS(H) >= OwnCost(H, o) + WideCost(H, o), NEW K, NEW R, NEW X, Counted(H, K, R, X),
         Shares(H, X, o), NEW Y, Stored(H, Y), o \notin Y, \A r \in Y : Shares(H, X, r),
         NEW G, G = row_copy_into(H, dst, src)
  PROVE  Still(H, G, Y)
<1>1. PICK M : M = own_store(H, o)
  OBVIOUS
<1>2. PICK n : n = H.d[dst].n
  OBVIOUS
<1>3. PICK off : off = H.d[dst].off
  OBVIOUS
<1>4. /\ o \in DOMAIN H.d /\ Inside(H, H.d[o]) /\ off \in Nat /\ n \in Nat
      /\ H.d[o].off <= off /\ off + n <= H.d[o].off + H.d[o].n
  BY <1>2, <1>3, OwnerOf
<1>5. G = CopyElemsTo(M, src, n, o, off)
  BY <1>1, <1>2, <1>3 DEF row_copy_into
<1>6. FreeS(H) \in Nat /\ OwnCost(H, o) \in Nat /\ WideCost(H, o) \in Nat /\ FreeS(H) >= OwnCost(H, o)
  <2>1. FreeS(H) \in Nat /\ OwnCost(H, o) \in Nat /\ WideCost(H, o) \in Nat
    BY FreeCounts, CostsAreNumbers DEF Good
  <2>2. QED
    BY <2>1
<1>7. /\ Does(H, M, C, V, None, None, 0, OwnCost(H, o))
      /\ M.s[M.d[o].base].leaf = H.s[H.d[o].base].leaf
  BY <1>1, <1>4, <1>6, OwnStore DEF FlatRow
<1>8. Good(M, C, V, None) /\ Shape(M) /\ FreeS(M) >= FreeS(H) - OwnCost(H, o)
  BY <1>7 DEF Does, Good
<1>9. /\ FlatRow(M, o) /\ M.d[o].off = H.d[o].off /\ M.d[o].n = H.d[o].n
      /\ FlatRow(M, src) /\ M.d[src].n = H.d[src].n
  BY <1>7, FlatKept DEF None
<1>10. WideCost(M, o) = WideCost(H, o)
  BY <1>7 DEF WideCost
<1>11. FreeS(M) >= WideCost(M, o) /\ n <= M.d[src].n
  <2>1. FreeS(M) \in Nat
    BY <1>8, FreeCounts
  <2>2. n = M.d[src].n
    BY <1>2, <1>9 DEF same_bounds
  <2>3. QED
    BY <1>4, <1>6, <1>8, <1>10, <2>1, <2>2
<1>12. off + n <= M.d[o].off + M.d[o].n /\ M.d[o].off <= off
  BY <1>4, <1>9
<1>13. Still(H, M, Y) /\ Alone(M, o, Y)
  BY <1>1, <1>4, <1>6, OwnStill
<1>14. Still(M, G, Y)
  BY <1>4, <1>5, <1>8, <1>9, <1>11, <1>12, <1>13, FlatCopyStill
<1>15. QED
  BY <1>13, <1>14, StillBoth

-----------------------------------------------------------------------------
(* A row of rows that is written: its elements get stores of their own. *)

(* row_replace: a row takes over the store of a copy. *)
LEMMA ReplaceStill ==
  ASSUME NEW H, NEW C, NEW V, Good(H, C, V, None), prog \in Programs, NEW o \in DOMAIN H.d,
         NEW src \in DOMAIN H.d, MayTake(H, C, V, o, src), NEW Y, Stored(H, Y), o \notin Y,
         NEW G, G = row_replace(H, o, src)
  PROVE  Still(H, G, Y)
<1>1. PICK D : D = {o}
  OBVIOUS
<1>2. o \in D
  BY <1>1
<1>3. Taken(H, G, o, src)
  BY <1>2, Replace
<1>4. QED
  BY <1>3, TakenStill

(* An element of a row of rows is copied to one. *)
LEMMA CopyRowStill ==
  ASSUME NEW H, NEW C, NEW V, Good(H, C, V, None), prog \in Programs,
         NEW o, DeepRow(H, o), NEW src, DeepRow(H, src), NEW i \in 1 .. H.d[src].n,
         NEW at \in Nat, H.d[o].off < at, at <= H.d[o].off + H.d[o].n,
         FreeD(H) >= 2, FreeS(H) > 0, NEW Y, Y \subseteq C, Stored(H, Y),
         NEW G, G = CopyElemTo(H, src, i, o, at)
  PROVE  Still(H, G, Y)
<1>1. PICK old : old = H.s[H.d[o].base].e[at]
  OBVIOUS
<1>2. \E e, k, B : RowTakes(H, G, B, C, V, old, k) /\ BorrowOf(H, B, k, e)
  BY <1>1, RowTaken
<1>3. PICK e, k, B : RowTakes(H, G, B, C, V, old, k) /\ BorrowOf(H, B, k, e)
  BY <1>2
<1>4. Extends(H, B)
  <2>1. B \in {rowd_share(H, e), rowd_borrow(H, e)} /\ e \in DOMAIN H.d /\ FreeD(H) > 0 /\ k = NextDesc(H)
    BY <1>3 DEF BorrowOf
  <2>2. QED
    BY <2>1, ShareRow
<1>5. Still(H, B, Y) /\ Stored(B, Y)
  BY <1>4, ExtendsStill, StillStored
<1>6. /\ Good(B, C, V, None) /\ old \in DOMAIN B.d /\ k \in DOMAIN B.d /\ MayTake(B, C, V, old, k)
      /\ G = row_replace(B, old, k) /\ old \notin Y
  BY <1>3 DEF RowTakes, Does
<1>7. Still(B, G, Y)
  BY <1>5, <1>6, ReplaceStill
<1>8. QED
  BY <1>5, <1>7, StillBoth

(* The elements of a row of rows are copied to one. *)
LEMMA DeepCopyStill ==
  ASSUME NEW H, NEW C, NEW V, Good(H, C, V, None), prog \in Programs,
         NEW o \in C, DeepRow(H, o), NEW src \in C, DeepRow(H, src), NEW n \in Nat, n <= H.d[src].n,
         NEW off \in Nat, H.d[o].off <= off, off + n <= H.d[o].off + H.d[o].n,
         FreeD(H) >= 2 * n, FreeS(H) >= n, NEW Y, Y \subseteq C, Stored(H, Y),
         NEW G, G = CopyElemsTo(H, src, n, o, off)
  PROVE  Still(H, G, Y)
<1>1. PICK g : CopiesTo(g, H, src, n, o, off) /\ G = g[n]
  BY CopyToLoop
<1>2. /\ H.d[o].off \in Nat /\ H.d[o].n \in Nat /\ H.d[src].n \in Nat
      /\ FreeD(H) \in Nat /\ FreeS(H) \in Nat /\ Shape(H)
  BY ShapeParts, DescParts, FreeCounts DEF Good, DeepRow
<1>3. PICK D : D = DescAddr \ C
  OBVIOUS
<1> DEFINE S == {i \in 0 .. n : Does(H, g[i], C, V, None, D, 2 * i, i) /\ Still(H, g[i], Y)}
<1>4. 0 \in S
  <2>1. None \subseteq D /\ 2 * 0 = 0
    BY DEF None
  <2>2. Does(H, H, C, V, None, None, 0, 0)
    BY DoesNothing
  <2>3. Does(H, H, C, V, None, D, 0, 0)
    BY <1>2, <2>1, <2>2, DoesLess
  <2>4. Still(H, H, Y)
    BY SameStill
  <2>5. QED
    BY <1>1, <2>1, <2>3, <2>4 DEF CopiesTo
<1>5. ASSUME NEW j \in 0 .. n, j \in S, j < n PROVE j + 1 \in S
  <2>1. PICK i : i = j + 1
    OBVIOUS
  <2>2. i \in 1 .. n /\ i - 1 = j /\ i \in 1 .. H.d[src].n /\ j \in Nat
    BY <1>2, <1>5, <2>1
  <2>3. PICK at : at = off + i
    OBVIOUS
  <2>4. at \in Nat /\ H.d[o].off < at /\ at <= H.d[o].off + H.d[o].n
    BY <1>2, <2>2, <2>3, After
  <2>5. PICK M : M = g[j]
    OBVIOUS
  <2>6. /\ Does(H, M, C, V, None, D, 2 * j, j) /\ Good(M, C, V, None) /\ Still(H, M, Y)
    BY <1>5, <2>5 DEF Does
  <2>7. PICK L : L = g[i]
    OBVIOUS
  <2>8. L = CopyElemTo(M, src, i, o, at)
    BY <1>1, <2>2, <2>3, <2>5, <2>7 DEF CopiesTo
  <2>9. o \notin D /\ src \notin D
    BY <1>3
  <2>10. /\ DeepRow(M, o) /\ M.d[o].off = H.d[o].off /\ M.d[o].n = H.d[o].n
         /\ DeepRow(M, src) /\ M.d[src].n = H.d[src].n
    BY <2>6, <2>9, DeepKept
  <2>11. FreeD(M) \in Nat /\ FreeS(M) \in Nat /\ FreeD(M) >= FreeD(H) - 2 * j /\ FreeS(M) >= FreeS(H) - j
    BY <2>6, FreeCounts DEF Does, Good
  <2>12. FreeD(M) >= 2 /\ FreeS(M) > 0 /\ 2 * j + 2 = 2 * i /\ 2 * j \in Nat
    BY <1>2, <1>5, <2>1, <2>2, <2>11, OneElementMore
  <2>13. Does(M, L, C, V, None, D, 2, 1)
    BY <1>3, <2>2, <2>4, <2>6, <2>8, <2>10, <2>12, CopyRow
  <2>14. Does(H, L, C, V, None, D, 2 * j + 2, j + 1)
    BY <1>2, <2>2, <2>6, <2>12, <2>13, DoesBoth
  <2>15. Still(H, L, Y)
    <3>1. Stored(M, Y)
      BY <2>6, StillStored
    <3>2. i \in 1 .. M.d[src].n /\ M.d[o].off < at /\ at <= M.d[o].off + M.d[o].n
      BY <2>2, <2>4, <2>10
    <3>3. Still(M, L, Y)
      BY <2>4, <2>6, <2>8, <2>10, <2>12, <3>1, <3>2, CopyRowStill
    <3>4. QED
      BY <2>6, <3>3, StillBoth
  <2>16. QED
    BY <2>1, <2>2, <2>7, <2>12, <2>14, <2>15
<1>6. n \in S
  <2> HIDE DEF S
  <2>1. \A j \in 0 .. n : j \in S /\ j < n => j + 1 \in S
    BY <1>5
  <2>2. \A j \in 0 .. n : j \in S
    BY <1>4, <2>1, Steps
  <2>3. QED
    BY <2>2
<1>7. QED
  BY <1>1, <1>6

(* row_copy_into: a row of rows is copied into one of as many elements. *)
LEMMA DeepIntoStill ==
  ASSUME NEW H, NEW C, NEW V, Good(H, C, V, None), prog \in Programs,
         NEW dst \in DOMAIN H.d, NEW o \in C, o = rowd_owner(H, dst), DeepRow(H, o),
         NEW src \in C, DeepRow(H, src), same_bounds(H, dst, src), NEW n, n = H.d[dst].n,
         FreeD(H) >= 2 * n, FreeS(H) >= OwnCost(H, o) + n, NEW Y, Y \subseteq C, Stored(H, Y),
         o \notin Y, NEW G, G = row_copy_into(H, dst, src)
  PROVE  Still(H, G, Y)
<1>1. PICK M : M = own_store(H, o)
  OBVIOUS
<1>2. PICK off : off = H.d[dst].off
  OBVIOUS
<1>3. /\ o \in DOMAIN H.d /\ Inside(H, H.d[o]) /\ off \in Nat /\ n \in Nat
      /\ H.d[o].off <= off /\ off + n <= H.d[o].off + H.d[o].n
  BY <1>2, OwnerOf
<1>4. G = CopyElemsTo(M, src, n, o, off)
  BY <1>1, <1>2 DEF row_copy_into
<1>5. FreeS(H) \in Nat /\ FreeD(H) \in Nat /\ OwnCost(H, o) \in Nat /\ 2 * n \in Nat
  BY <1>3, FreeCounts DEF OwnCost, Good
<1>6. FreeS(H) >= OwnCost(H, o)
  BY <1>3, <1>5
<1>7. Does(H, M, C, V, None, None, 0, OwnCost(H, o)) /\ Moved(H, M, o)
  BY <1>1, <1>3, <1>6, OwnStore
<1>8. /\ Good(M, C, V, None) /\ Shape(M) /\ FreeS(M) >= FreeS(H) - OwnCost(H, o)
      /\ FreeD(M) >= FreeD(H) - 0
  BY <1>7 DEF Does, Good
<1>9. /\ DeepRow(M, o) /\ M.d[o].off = H.d[o].off /\ M.d[o].n = H.d[o].n
      /\ DeepRow(M, src) /\ M.d[src].n = H.d[src].n
  BY <1>7, DeepKept DEF None
<1>10. FreeS(M) >= n /\ FreeD(M) >= 2 * n /\ n <= M.d[src].n
  <2>1. FreeS(M) \in Nat /\ FreeD(M) \in Nat
    BY <1>8, FreeCounts
  <2>2. n = M.d[src].n
    BY <1>9 DEF same_bounds
  <2>3. QED
    BY <1>3, <1>5, <1>8, <2>1, <2>2
<1>11. M.d[o].off <= off /\ off + n <= M.d[o].off + M.d[o].n
  BY <1>3, <1>9
<1>12. Still(H, M, Y) /\ Stored(M, Y)
  BY <1>7, MovedStill, StillStored
<1>13. Still(M, G, Y)
  BY <1>3, <1>4, <1>8, <1>9, <1>10, <1>11, <1>12, DeepCopyStill
<1>14. QED
  BY <1>12, <1>13, StillBoth

-----------------------------------------------------------------------------
(* A row that is new, that grows, or that is assigned whole. *)

(* A new row changes no other. *)
LEMMA NewStill ==
  ASSUME NEW H, Shape(H), FreeD(H) > 0, FreeS(H) > 0, NEW Y, Stored(H, Y), NEW e, NEW leaf,
         NEW G, G = NewRow(H, e, leaf)
  PROVE  Still(H, G, Y)
<1>1. PICK k : k = NextDesc(H)
  OBVIOUS
<1>2. PICK st : st = NextStore(H)
  OBVIOUS
<1>3. k \in DescAddr \ DOMAIN H.d
  BY <1>1, NextFree
<1>4. PICK x : x = [leaf |-> leaf, rc |-> 1, e |-> e]
  OBVIOUS
<1>5. PICK y : y = [base |-> st, off |-> 0, n |-> Len(e), pad2 |-> FALSE]
  OBVIOUS
<1>6. PICK D : D = store_alloc(H, x)
  OBVIOUS
<1>7. /\ D = [d |-> D.d, s |-> D.s] /\ D.d = H.d
      /\ DOMAIN D.s = DOMAIN H.s \cup {st} /\ \A t \in DOMAIN H.s : D.s[t] = H.s[t]
  BY <1>2, <1>6, StoreAdded
<1>8. G = rowd_alloc(D, y) /\ NextDesc(D) = k
  BY <1>1, <1>2, <1>4, <1>5, <1>6, <1>7 DEF NewRow, NextDesc
<1>9. /\ G.s = D.s /\ DOMAIN G.d = DOMAIN H.d \cup {k} /\ \A q \in DOMAIN H.d : G.d[q] = H.d[q]
  BY <1>3, <1>7, <1>8, DescAdded
<1>10. QED
  BY <1>7, <1>9 DEF Stored, Still

(* A row moves to a new store, and its share of the old one is given back. *)
LEMMA GoneStill ==
  ASSUME NEW H, Shape(H), FreeS(H) > 0, NEW o \in DOMAIN H.d, NEW st, st = H.d[o].base,
         st \in DOMAIN H.s, NEW Y, Stored(H, Y), o \notin Y, NEW x, NEW M, M = MoveTo(H, o, x),
         NEW G, G = OneGone(M, st)
  PROVE  Still(H, G, Y) /\ Alone(G, o, Y)
<1>1. Still(H, M, Y) /\ Alone(M, o, Y)
  BY NewAlone
<1>2. PICK N : N = M
  OBVIOUS
<1>3. PICK F : F = G
  OBVIOUS
<1>4. PICK old : old = st
  OBVIOUS
<1>5. PICK c : c = (N.s[old].rc + RcMod - 1) % RcMod
  OBVIOUS
<1>6. N = [d |-> N.d, s |-> N.s] /\ old \in DOMAIN N.s /\ N.s[old] = H.s[old]
  BY <1>2, <1>4, MovedAlone
<1>7. N.s[old] \in Store
  BY <1>4, <1>6, ShapeParts
<1>8. F = [N EXCEPT !.s[old].rc = c]
  BY <1>2, <1>3, <1>4, <1>5, <1>6 DEF OneGone
<1>9. F.d = N.d /\ SameElements(N, F)
  BY <1>6, <1>7, <1>8, RcSet
<1>10. Still(N, F, Y) /\ Alone(F, o, Y)
  BY <1>1, <1>2, <1>9, CountsAlone
<1>11. QED
  BY <1>1, <1>2, <1>3, <1>10, StillBoth

(* Grow *)
LEMMA GrowStill ==
  ASSUME NEW H, NEW C, NEW V, Good(H, C, V, None), NEW o, FlatRow(H, o), FreeS(H) > 0,
         NEW Y, Alone(H, o, Y), NEW G, G = Grow(H, o)
  PROVE  Still(H, G, Y) /\ Alone(G, o, Y)
<1>1. PICK st : st = H.d[o].base
  OBVIOUS
<1>2. PICK n : n = H.d[o].n
  OBVIOUS
<1>3. PICK y : y = H.s[st]
  OBVIOUS
<1>4. /\ H = [d |-> H.d, s |-> H.s] /\ Shape(H) /\ o \in DOMAIN H.d /\ st \in DOMAIN H.s
      /\ Stored(H, Y) /\ o \notin Y /\ n \in Nat
  BY <1>1, <1>2, ShapeParts, DescParts DEF Good, Inside, FlatRow, Shape, Alone
<1>5. CASE n + 1 <= Len(y.e)
  <2>1. G = H
    BY <1>1, <1>2, <1>3, <1>5 DEF Grow
  <2>2. QED
    BY <1>4, <2>1, SameStill
<1>6. CASE ~(n + 1 <= Len(y.e))
  <2>1. PICK x : x = Longer(y, n)
    OBVIOUS
  <2>2. PICK M : M = MoveTo(H, o, x)
    OBVIOUS
  <2>3. G = OneGone(M, st)
    BY <1>1, <1>2, <1>3, <1>4, <1>6, <2>1, <2>2, GrowMoves
  <2>4. QED
    BY <1>1, <1>4, <2>2, <2>3, GoneStill
<1>7. QED
  BY <1>5, <1>6

(* the leaf made slots *)
LEMMA SlotsStill ==
  ASSUME NEW H, NEW C, NEW V, Good(H, C, V, None), NEW o, FlatRow(H, o), NEW x \in Scalar,
         FreeS(H) >= WideCost(H, o), NEW Y, Alone(H, o, Y), NEW G, G = Slots(H, o, x)
  PROVE  Still(H, G, Y) /\ Alone(G, o, Y)
<1>1. PICK st : st = H.d[o].base
  OBVIOUS
<1>2. /\ Shape(H) /\ o \in DOMAIN H.d /\ st \in DOMAIN H.s /\ FreeS(H) \in Nat
      /\ Stored(H, Y) /\ o \notin Y /\ ~IsRow(x)
  BY <1>1, ScalarElem, FreeCounts DEF FlatRow, Good, Inside, Alone
<1>3. CASE ~TooWide(H, o, x)
  <2>1. G = H
    BY <1>3 DEF Slots
  <2>2. QED
    BY <1>2, <2>1, SameStill
<1>4. CASE TooWide(H, o, x)
  <2>1. WideCost(H, o) = 1
    BY <1>2, <1>4 DEF TooWide, leaf_accepts, WideCost
  <2>2. FreeS(H) > 0
    BY <1>2, <2>1
  <2>3. PICK y : y = [H.s[st] EXCEPT !.leaf = FALSE, !.rc = 1]
    OBVIOUS
  <2>4. PICK W : W = MoveTo(H, o, y)
    OBVIOUS
  <2>5. G = OneGone(W, st)
    BY <1>1, <1>4, <2>3, <2>4 DEF Slots, Widen, MoveTo
  <2>6. QED
    BY <1>1, <1>2, <2>2, <2>4, <2>5, GoneStill
<1>5. QED
  BY <1>3, <1>4

(* append_in_place *)
LEMMA AppendStill ==
  ASSUME NEW H, NEW C, NEW V, Good(H, C, V, None), prog \in Programs, NEW o, FlatRow(H, o), o \in C,
         o \in V => "slice_name" \notin Ops, H.d[o].off = 0, H.d[o].n < prog.len, NEW x \in Scalar,
         FreeS(H) >= OwnCost(H, o) + WideCost(H, o) + 1, NEW K, NEW R, NEW X, Counted(H, K, R, X),
         Shares(H, X, o), NEW Y, Stored(H, Y), o \notin Y, \A r \in Y : Shares(H, X, r),
         NEW G, G = append_in_place(H, o, x)
  PROVE  Still(H, G, Y)
<1>1. PICK n : n = H.d[o].n
  OBVIOUS
<1>2. PICK D : D = {o}
  OBVIOUS
<1>3. o \in D
  BY <1>2
<1>4. PICK J, M, W, S : Grows(H, J, M, C, V, D, o, n) /\ Puts(M, W, S, G, C, V, D, o, n, x)
  BY <1>1, <1>3, AppendSteps
<1>5. /\ J = own_store(H, o) /\ FreeS(H) >= OwnCost(H, o) /\ Good(J, C, V, None) /\ FlatRow(J, o)
      /\ FreeS(J) > 0 /\ M = Grow(J, o) /\ Good(M, C, V, None)
  BY <1>4 DEF Grows, Does
<1>6. Inside(H, H.d[o])
  BY DEF FlatRow
<1>7. Still(H, J, Y) /\ Alone(J, o, Y)
  BY <1>5, <1>6, OwnStill
<1>8. Still(J, M, Y) /\ Alone(M, o, Y)
  BY <1>5, <1>7, GrowStill
<1>9. /\ FlatRow(M, o) /\ FreeS(M) >= WideCost(M, o) /\ W = Slots(M, o, x) /\ FlatRow(W, o)
      /\ Shape(W) /\ PutIn(W, S, o, n + 1, x) /\ Shape(S) /\ o \in DOMAIN S.d
      /\ G = [S EXCEPT !.d[o].n = n + 1]
  BY <1>4 DEF Puts, Does, Good, FlatRow
<1>10. Still(M, W, Y) /\ Alone(W, o, Y)
  BY <1>5, <1>8, <1>9, SlotsStill
<1>11. Still(W, S, Y) /\ Alone(S, o, Y)
  <2>1. PICK st : st = W.d[o].base
    OBVIOUS
  <2>2. PICK at : at = n + 1
    OBVIOUS
  <2>3. st \in DOMAIN W.s /\ at \in 1 .. Len(W.s[st].e) /\ S = store_set(W, st, at, x)
    <3>1. PutIn(W, S, o, at, x) /\ FlatRow(W, o)
      BY <1>9, <2>2
    <3>2. QED
      BY <2>1, <3>1 DEF FlatRow, Inside, PutIn
  <2>4. x \in Value /\ ~IsRow(x)
    BY ScalarElem
  <2>5. S = WriteSlot(W, st, at, x)
    BY <2>3, <2>4, ScalarSet
  <2>6. QED
    BY <1>9, <1>10, <2>1, <2>3, <2>4, <2>5, SlotStill
<1>12. Still(S, G, Y)
  <2>1. PICK F : F = G
    OBVIOUS
  <2>2. PICK m : m = n + 1
    OBVIOUS
  <2>3. F = [S EXCEPT !.d[o].n = m] /\ Shape(S) /\ o \in DOMAIN S.d
    BY <1>9, <2>1, <2>2
  <2>4. F.s = S.s /\ DOMAIN F.d = DOMAIN S.d /\ \A q \in DOMAIN S.d \ {o} : F.d[q] = S.d[q]
    BY <2>3, BoundAlone
  <2>5. Still(S, F, Y)
    BY <1>11, <2>4 DEF Alone, Stored, Still
  <2>6. QED
    BY <2>1, <2>5
<1>13. Still(H, M, Y) /\ Still(M, S, Y)
  BY <1>7, <1>8, <1>10, <1>11, StillBoth
<1>14. Still(H, S, Y)
  BY <1>13, StillBoth
<1>15. QED
  BY <1>12, <1>14, StillBoth

(* append_fallback *)
LEMMA FallbackStill ==
  ASSUME NEW H, NEW C, NEW V, Good(H, C, V, None), prog \in Programs, FreeD(H) > 0, FreeS(H) > 0,
         NEW J, NEW G, NEW o, NEW k, NEW v, NEW leaf, Concats(H, J, G, C, V, o, k, v, leaf),
         NEW Y, Stored(H, Y), o \notin Y
  PROVE  Still(H, G, Y)
<1>1. /\ J = NewRow(H, v, leaf) /\ Good(J, C, V, None) /\ k \in DOMAIN J.d /\ o \in DOMAIN J.d
      /\ MayTake(J, C, V, o, k) /\ G = row_replace(J, o, k) /\ Shape(H)
  BY DEF Concats, Does, Good
<1>2. Still(H, J, Y) /\ Stored(J, Y)
  BY <1>1, NewStill, StillStored
<1>3. Still(J, G, Y)
  BY <1>1, <1>2, ReplaceStill
<1>4. QED
  BY <1>2, <1>3, StillBoth

(* AssignRow on a row of scalars in a row, and rows that are held. *)
LEMMA AssignFlatStill ==
  ASSUME NEW H, NEW C, NEW V, Good(H, C, V, None), prog \in Programs, NEW e, e \notin C,
         FlatRow(H, e), NEW src, FlatRow(H, src), NEW flex \in BOOLEAN,
         NEW x, x = (IF flex \/ ~same_bounds(H, e, src) THEN 1 ELSE 0),
         FreeS(H) >= OwnCost(H, e) + WideCost(H, e), x = 1 => FreeS(H) > 0 /\ FreeD(H) >= 1,
         NEW K, NEW R, NEW X, Counted(H, K, R, X), Shares(H, X, e), NEW Y, Stored(H, Y), Y \subseteq C,
         \A r \in Y : Shares(H, X, r), NEW G, G = AssignRow(H, e, src, flex)
  PROVE  Still(H, G, Y)
<1>1. /\ e \in DOMAIN H.d /\ src \in DOMAIN H.d /\ Inside(H, H.d[e]) /\ Inside(H, H.d[src])
      /\ e \notin Y
  BY DEF FlatRow
<1>2. rowd_store(H, src) = H.d[src].base /\ rowd_owner(H, e) = e
  BY <1>1, StoreOf
<1>3. CASE ~flex /\ same_bounds(H, e, src)
  <2>1. G = row_copy_into(H, e, src)
    BY <1>3 DEF AssignRow
  <2>2. QED
    BY <1>1, <1>2, <1>3, <2>1, FlatIntoStill
<1>4. CASE flex \/ ~same_bounds(H, e, src)
  <2>1. G = row_replace(H, e, src) /\ x = 1
    BY <1>4 DEF AssignRow
  <2>2. PICK n : n = H.d[src].n
    OBVIOUS
  <2>3. CopyCost(H, src, n) = 0
    BY <1>2 DEF CopyCost, FlatRow
  <2>4. e \notin V
    BY DEF Good
  <2>5. FreeD(H) >= 1 + CopyCost(H, src, H.d[src].n) /\ FreeS(H) > 0
    BY <2>1, <2>2, <2>3
  <2>6. MayTake(H, C, V, e, src)
    BY <1>1, <1>2, <2>4, <2>5 DEF MayTake, FlatRow
  <2>7. QED
    BY <1>1, <2>1, <2>6, ReplaceStill
<1>5. QED
  BY <1>3, <1>4

-----------------------------------------------------------------------------
(* A row that an identity keeps. *)

(* No program that assigns rows whole, or in part, or in a row, keeps a row of rows: such a row shares
   its elements with the store it was copied from. *)
KeptApart ==
  \A p \in Programs :
    p.nested \subseteq Var \/ p.ops \cap {"assign", "slice_name", "assign_elem"} = {}

(* the row r and the rows in it *)
RowsIn(H, r) == {r} \cup {v \in ToSet(H.s[H.d[r].base].e) : IsRow(v)}

(* the rows Y of a kept row r: none is a variable's or an operand, and each has a share *)
Frozen(r, Y) ==
  /\ Y = RowsIn(heap, r) /\ r \in Held(cell, stack) /\ Stored(heap, Y)
  /\ \A y \in Y : y \notin Declared(cell, Var) /\ y \notin RowsOf(stack)
  /\ \A X : Counted(heap, Declared(cell, Cell), RowsOf(stack), X) => \A y \in Y : Shares(heap, X, y)
  /\ Ops \cap {"assign", "slice_name", "assign_elem"} # {} => Y \subseteq Held(cell, stack)

(* an element of a store is in the heap, is not held, and has a share *)
LEMMA ElementKept ==
  ASSUME RowInv, NEW st \in DOMAIN heap.s, NEW v \in ToSet(heap.s[st].e), IsRow(v)
  PROVE  /\ Plain(heap, v) /\ v \notin Held(cell, stack) /\ Scalars(heap.s[heap.d[v].base])
         /\ \A K, R, X : Counted(heap, K, R, X) => Shares(heap, X, v)
<1>1. PICK i \in DOMAIN heap.s[st].e : heap.s[st].e[i] = v
  BY DEF ToSet
<1>2. Elem(heap, Held(cell, stack), None, v)
  <2>1. Sound(heap, Held(cell, stack), None, heap.s[st])
    BY RowHeap DEF Good
  <2>2. QED
    BY <1>1, <2>1 DEF Sound
<1>3. ASSUME NEW K, NEW R, NEW X, Counted(heap, K, R, X) PROVE Shares(heap, X, v)
  BY <1>1, <1>3 DEF Counted
<1>4. QED
  BY <1>2, <1>3 DEF Elem

(* An identity's row is apart from the variables and the operands. *)
LEMMA IdentityApart ==
  ASSUME RowInv, NEW c \in Cell \ Var, cell[c] # Nil, NEW r, r = cell[c]
  PROVE  /\ Plain(heap, r) /\ r \in Held(cell, stack) /\ r \in Declared(cell, Cell)
         /\ r \notin Declared(cell, Var) /\ r \notin RowsOf(stack) /\ Fits(heap, c, r)
<1>1. Safe(heap, cell, stack) /\ c \in Cell
  BY DEF RowInv
<1>2. Plain(heap, r) /\ r \in Held(cell, stack) /\ r \in Declared(cell, Cell) /\ Fits(heap, c, r)
  BY <1>1, HeldIn DEF Declared
<1>3. Apart(cell, stack)
  BY <1>1 DEF Safe
<1>4. r \notin Declared(cell, Var)
  BY <1>1, <1>3, Cells DEF Apart, Declared
<1>5. r \notin RowsOf(stack)
  BY <1>2, <1>3 DEF Apart, RowsOf
<1>6. QED
  BY <1>2, <1>4, <1>5

(* The row of an identity and the rows in it are out of every write's way. *)
LEMMA RowFrozen ==
  ASSUME KeptApart, RowInv, NEW c \in Cell \ Var, cell[c] # Nil, NEW r, r = cell[c],
         NEW Y, Y = RowsIn(heap, r)
  PROVE  Frozen(r, Y)
<1>1. /\ Plain(heap, r) /\ r \in Held(cell, stack) /\ r \in Declared(cell, Cell)
      /\ r \notin Declared(cell, Var) /\ r \notin RowsOf(stack) /\ Fits(heap, c, r)
  BY IdentityApart
<1>2. PICK st : st = heap.d[r].base
  OBVIOUS
<1>3. st \in DOMAIN heap.s /\ r \in DOMAIN heap.d
  BY <1>1, <1>2 DEF Plain, Inside
<1>4. ASSUME NEW y \in Y
      PROVE  y = r \/ (y \in ToSet(heap.s[st].e) /\ IsRow(y))
  BY <1>2 DEF RowsIn
<1>5. ASSUME NEW y \in Y
      PROVE  /\ Plain(heap, y) /\ y \notin Declared(cell, Var) /\ y \notin RowsOf(stack)
             /\ \A X : Counted(heap, Declared(cell, Cell), RowsOf(stack), X) => Shares(heap, X, y)
  <2>1. CASE y = r
    BY <1>1, <2>1 DEF Counted
  <2>2. CASE y \in ToSet(heap.s[st].e) /\ IsRow(y)
    <3>1. /\ Plain(heap, y) /\ y \notin Held(cell, stack)
          /\ \A K, R, X : Counted(heap, K, R, X) => Shares(heap, X, y)
      BY <1>3, <2>2, ElementKept
    <3>2. Declared(cell, Var) \subseteq Held(cell, stack)
      BY RowHeap DEF Good
    <3>3. RowsOf(stack) \subseteq Held(cell, stack)
      BY DEF Held
    <3>4. QED
      BY <3>1, <3>2, <3>3
  <2>3. QED
    BY <1>4, <2>1, <2>2
<1>6. Stored(heap, Y)
  BY <1>5 DEF Stored, Plain, Inside
<1>7. ASSUME Ops \cap {"assign", "slice_name", "assign_elem"} # {}
      PROVE  Y \subseteq Held(cell, stack)
  <2>1. c \notin Nested
    BY <1>7, RowHeap DEF KeptApart, Ops, Nested
  <2>2. Scalars(heap.s[st])
    BY <1>1, <1>2, <2>1 DEF Fits
  <2>3. \A v \in ToSet(heap.s[st].e) : ~IsRow(v)
    BY <2>2 DEF Scalars, ToSet
  <2>4. Y = {r}
    BY <1>2, <2>3 DEF RowsIn
  <2>5. QED
    BY <1>1, <2>4
<1>8. QED
  BY <1>1, <1>5, <1>6, <1>7 DEF Frozen

(* What is in a row, of a heap. *)
FlatOf(H, r) == [i \in 1 .. H.d[r].n |-> rowd_get(H, r, i)]
ContentsOf(H, r) ==
  [i \in 1 .. H.d[r].n |-> LET e == rowd_get(H, r, i) IN IF IsRow(e) THEN FlatOf(H, e) ELSE e]

(* A row that is left as it is has the elements it had. *)
LEMMA ElementStill ==
  ASSUME NEW H, Shape(H), NEW G, NEW Y, Still(H, G, Y), Stored(H, Y), NEW r \in Y
  PROVE  /\ G.d[r] = H.d[r] /\ rowd_store(H, r) = H.d[r].base
         /\ \A i : rowd_get(G, r, i) = rowd_get(H, r, i)
<1>1. PICK st : st = H.d[r].base
  OBVIOUS
<1>2. /\ G.d[r] = H.d[r] /\ G.s[st].e = H.s[st].e /\ st \in DOMAIN H.s
  BY <1>1 DEF Still, Stored
<1>3. st \notin DescAddr
  BY <1>2, Addresses DEF Shape
<1>4. rowd_store(H, r) = st /\ rowd_store(G, r) = st
  BY <1>1, <1>2, <1>3 DEF rowd_store, rowd_owner
<1>5. ASSUME NEW i PROVE rowd_get(G, r, i) = rowd_get(H, r, i)
  <2>1. PICK p : p = H.s[st].e
    OBVIOUS
  <2>2. H.s[rowd_store(H, r)].e = p /\ G.s[rowd_store(G, r)].e = p
    BY <1>2, <1>4, <2>1
  <2>3. QED
    BY <1>2, <2>2 DEF rowd_get
<1>6. QED
  BY <1>1, <1>2, <1>4, <1>5

(* A row has the contents it had when it and the rows in it are left as they are. *)
LEMMA ContentsStill ==
  ASSUME NEW H, NEW C, NEW V, Good(H, C, V, None), NEW r \in DOMAIN H.d, NEW Y, Y = RowsIn(H, r),
         Stored(H, Y), NEW G, Still(H, G, Y)
  PROVE  ContentsOf(G, r) = ContentsOf(H, r)
<1>1. Shape(H) /\ r \in Y
  BY DEF Good, RowsIn
<1>2. /\ G.d[r] = H.d[r] /\ rowd_store(H, r) = H.d[r].base
      /\ \A i : rowd_get(G, r, i) = rowd_get(H, r, i)
  BY <1>1, ElementStill
<1>3. ASSUME NEW i \in 1 .. H.d[r].n, NEW e, e = rowd_get(H, r, i), IsRow(e)
      PROVE  FlatOf(G, e) = FlatOf(H, e)
  <2>1. PICK j : j = H.d[r].off + i
    OBVIOUS
  <2>2. PICK q : q = H.s[H.d[r].base].e
    OBVIOUS
  <2>3. j \in 1 .. Len(q) /\ e = q[j]
    BY <1>2, <1>3, <2>1, <2>2, RowElement
  <2>4. DOMAIN q = 1 .. Len(q)
    BY <1>1, <2>2, ShapeParts, StoreParts DEF Stored
  <2>5. e \in Y
    <3>1. e \in ToSet(q)
      BY <2>3, <2>4 DEF ToSet
    <3>2. QED
      BY <1>3, <2>2, <3>1 DEF RowsIn
  <2>6. G.d[e] = H.d[e] /\ \A m : rowd_get(G, e, m) = rowd_get(H, e, m)
    BY <1>1, <2>5, ElementStill
  <2>7. QED
    BY <2>6 DEF FlatOf
<1>4. QED
  BY <1>2, <1>3 DEF ContentsOf

-----------------------------------------------------------------------------
(* The actions leave a kept row as it is: those that read, and a sweep. *)

LEMMA ShareStill ==
  ASSUME RowInv, NEW p \in DOMAIN heap.d, FreeD(heap) > 0,
         NEW G, G \in {rowd_share(heap, p), rowd_borrow(heap, p)}, NEW Y, Stored(heap, Y)
  PROVE  Still(heap, G, Y)
<1>1. PICK C : C = Held(cell, stack)
  OBVIOUS
<1>2. PICK V : V = Declared(cell, Var)
  OBVIOUS
<1>3. PICK k : k = NextDesc(heap)
  OBVIOUS
<1>4. Good(heap, C, V, None)
  BY <1>1, <1>2, RowHeap
<1>5. Extends(heap, G)
  BY <1>3, <1>4, ShareRow
<1>6. QED
  BY <1>5, ExtendsStill

LEMMA PushCellStill ==
  ASSUME RowInv, NEW c \in Cell, push_cell(c), NEW Y, Stored(heap, Y)
  PROVE  Still(heap, heap', Y)
<1>1. PICK p : p = cell[c]
  OBVIOUS
<1>2. p \in DOMAIN heap.d /\ FreeD(heap) > 0 /\ heap' = rowd_borrow(heap, p)
  BY <1>1, OneDescFree, HeldIn, StackRows DEF push_cell, Plain
<1>3. QED
  BY <1>2, ShareStill

LEMMA PushElemStill ==
  ASSUME RowInv, NEW c \in Cell, NEW i \in 1 .. MaxLen, push_elem(c, i), NEW Y, Stored(heap, Y)
  PROVE  Still(heap, heap', Y)
<1>1. PICK p : p = cell[c]
  OBVIOUS
<1>2. PICK e : e = rowd_get(heap, p, i)
  OBVIOUS
<1>3. /\ p \in DOMAIN heap.d /\ FreeD(heap) > 0 /\ heap' = rowd_borrow(heap, e) /\ IsRow(e)
      /\ i <= heap.d[p].n
  BY <1>1, <1>2, OneDescFree, HeldIn, StackRows DEF push_elem, Plain
<1>4. e \in DOMAIN heap.d
  BY <1>2, <1>3, RowElemIn
<1>5. QED
  BY <1>3, <1>4, ShareStill

LEMMA DerefStill ==
  ASSUME RowInv, deref, NEW Y, Stored(heap, Y)
  PROVE  Still(heap, heap', Y)
<1>1. PICK p : p = Top.p
  OBVIOUS
<1>2. p \in DOMAIN heap.d /\ FreeD(heap) > 0 /\ heap' = rowd_share(heap, p)
  BY <1>1, StackRows, OneDescFree DEF deref
<1>3. QED
  BY <1>2, ShareStill

LEMMA BindCellStill ==
  ASSUME RowInv, NEW c \in Cell, bind_cell(c), NEW Y, Stored(heap, Y)
  PROVE  Still(heap, heap', Y)
<1>1. PICK p : p = Top.p
  OBVIOUS
<1>2. p \in DOMAIN heap.d /\ p \in DescAddr
  BY <1>1, StackRows DEF bind_cell, TopRow
<1>3. PICK G : G = rowd_share(heap, p)
  OBVIOUS
<1>4. FreeD(heap) > 0 /\ heap' = slot_put(heap, p).h
  BY <1>1, OneDescFree DEF bind_cell
<1>5. heap' = G
  BY <1>2, <1>3, <1>4 DEF slot_put, IsRow
<1>6. QED
  BY <1>2, <1>3, <1>4, <1>5, ShareStill

LEMMA DisplayStill ==
  ASSUME RowInv, NEW v \in Literals, Display(v), NEW Y, Stored(heap, Y)
  PROVE  Still(heap, heap', Y)
<1>1. PICK leaf : leaf = (\A i \in DOMAIN v : leaf_accepts(v[i]))
  OBVIOUS
<1>2. PICK G : G = NewRow(heap, v, leaf)
  OBVIOUS
<1>3. heap' = G /\ Shape(heap)
  BY <1>1, <1>2, RowHeap DEF Display
<1>4. FreeD(heap) > 0 /\ FreeS(heap) > 0
  <2>1. FreeD(heap) >= 1 /\ FreeS(heap) >= 1
    BY UsesFree DEF Display
  <2>2. FreeD(heap) \in Nat /\ FreeS(heap) \in Nat
    BY <1>3, FreeCounts
  <2>3. QED
    BY <2>1, <2>2
<1>5. QED
  BY <1>2, <1>3, <1>4, NewStill

LEMMA RowOfStill ==
  ASSUME RowInv, row_of, NEW Y, Stored(heap, Y), \A y \in Y : y \notin RowsOf(stack)
  PROVE  Still(heap, heap', Y)
<1>1. PICK p : p = Top.p
  OBVIOUS
<1>2. PICK C : C = Held(cell, Rest)
  OBVIOUS
<1>3. PICK V : V = Declared(cell, Var)
  OBVIOUS
<1>4. PICK k : k = NextDesc(heap)
  OBVIOUS
<1>5. PICK st : st = NextStore(heap)
  OBVIOUS
<1>6. PICK e : e = <<Undef>>
  OBVIOUS
<1>7. PICK L : L = NewRow(heap, e, FALSE)
  OBVIOUS
<1>8. PICK O : O = {st}
  OBVIOUS
<1>9. MakesRowOf(L, C, V, O, st, k, p, e)
  BY <1>1, <1>2, <1>3, <1>4, <1>5, <1>6, <1>7, <1>8, RowOfMakes
<1>10. PICK G : G = store_set(L, st, 1, p)
  OBVIOUS
<1>11. heap' = G
  BY <1>1, <1>5, <1>6, <1>7, <1>10 DEF row_of
<1>12. /\ FreeD(heap) > 0 /\ FreeS(heap) > 0 /\ Good(L, C, V, O) /\ MayHold(L, C, O, st, 1, p)
       /\ Shape(heap)
  BY <1>9, RowHeap DEF MakesRowOf, Does
<1>13. st \in DOMAIN L.s /\ st \in O /\ st \notin DOMAIN heap.s
  BY <1>5, <1>8, <1>9, <1>12, NextFree DEF MakesRowOf, Made
<1>14. SlotSet(L, G, st, 1, p)
  BY <1>10, <1>12, <1>13, SetSlot
<1>15. p \notin Y
  BY <1>1, StackRows DEF row_of, TopRow
<1>16. Still(heap, L, Y)
  BY <1>7, <1>12, NewStill
<1>17. Still(L, G, Y)
  BY <1>13, <1>14, <1>15, <1>16 DEF SlotSet, SameBounds, Still, Stored
<1>18. QED
  BY <1>11, <1>16, <1>17, StillBoth

LEMMA SliceNameStill ==
  ASSUME RowInv, NEW c \in Var, NEW off \in 0 .. MaxLen, NEW n \in Trims, slice_name(c, off, n),
         NEW Y, Stored(heap, Y)
  PROVE  Still(heap, heap', Y)
<1>1. PICK o : o = heap.d[cell[c]].off + off
  OBVIOUS
<1>2. PICK x : x = [base |-> cell[c], off |-> o, n |-> n, pad2 |-> FALSE]
  OBVIOUS
<1>3. PICK k : k = NextDesc(heap)
  OBVIOUS
<1>4. PICK G : G = rowd_alloc(heap, x)
  OBVIOUS
<1>5. heap' = G /\ FreeD(heap) > 0 /\ Shape(heap)
  BY <1>1, <1>2, <1>4, OneDescFree, RowHeap DEF slice_name
<1>6. k \in DescAddr \ DOMAIN heap.d /\ heap = [d |-> heap.d, s |-> heap.s]
  BY <1>3, <1>5, NextFree DEF Shape
<1>7. /\ G.s = heap.s /\ DOMAIN G.d = DOMAIN heap.d \cup {k}
      /\ \A q \in DOMAIN heap.d : G.d[q] = heap.d[q]
  BY <1>3, <1>4, <1>6, DescAdded
<1>8. QED
  BY <1>5, <1>7 DEF Stored, Still

LEMMA SliceValueStill ==
  ASSUME RowInv, NEW off \in 0 .. MaxLen, NEW n \in Trims, slice_value(off, n), NEW Y, Stored(heap, Y)
  PROVE  Still(heap, heap', Y)
<1>1. PICK p : p = Top.p
  OBVIOUS
<1>2. PICK st : st = rowd_store(heap, p)
  OBVIOUS
<1>3. PICK o : o = heap.d[p].off + off
  OBVIOUS
<1>4. PICK x : x = [base |-> st, off |-> o, n |-> n, pad2 |-> FALSE]
  OBVIOUS
<1>5. PICK k : k = NextDesc(heap)
  OBVIOUS
<1>6. PICK D : D = rowd_alloc(heap, x)
  OBVIOUS
<1>7. PICK G : G = OneMore(D, st)
  OBVIOUS
<1>8. heap' = G /\ FreeD(heap) > 0
  BY <1>1, <1>2, <1>3, <1>4, <1>6, <1>7, OneDescFree DEF slice_value, OneMore
<1>9. p \in DOMAIN heap.d
  BY <1>1, StackRows DEF slice_value, TopRow
<1>10. Shape(heap) /\ st \in DOMAIN heap.s
  BY <1>2, <1>9, RowHeap
<1>11. k \in DescAddr \ DOMAIN heap.d /\ heap = [d |-> heap.d, s |-> heap.s]
  BY <1>5, <1>8, <1>10, NextFree DEF Shape
<1>12. /\ D = [d |-> D.d, s |-> D.s] /\ D.s = heap.s /\ DOMAIN D.d = DOMAIN heap.d \cup {k}
       /\ \A q \in DOMAIN heap.d : D.d[q] = heap.d[q]
  BY <1>5, <1>6, <1>11, DescAdded
<1>13. G.d = D.d /\ DOMAIN G.s = DOMAIN D.s /\ \A t \in DOMAIN D.s : G.s[t].e = D.s[t].e
  <2>1. st \in DOMAIN D.s
    BY <1>10, <1>12
  <2>2. PICK c : c = (D.s[st].rc + 1) % RcMod
    OBVIOUS
  <2>3. G = [D EXCEPT !.s[st].rc = c]
    BY <1>7, <2>2 DEF OneMore
  <2>4. QED
    BY <1>12, <2>1, <2>3
<1>14. QED
  BY <1>8, <1>12, <1>13 DEF Stored, Still

(* A sweep keeps a row that a cell leads to, and the rows in it. *)
LEMMA SweepStill ==
  ASSUME RowInv, gc_sweep, NEW r, NEW Y, Frozen(r, Y)
  PROVE  Still(heap, heap', Y)
<1>1. PICK C : C = Held(cell, stack)
  OBVIOUS
<1>2. PICK V : V = Declared(cell, Var)
  OBVIOUS
<1>3. PICK M : M = Marked
  OBVIOUS
<1>4. PICK S : S = MarkedStores
  OBVIOUS
<1>5. PICK k : k = [st \in S |-> Cardinality(GivesBack(st))]
  OBVIOUS
<1>6. Good(heap, C, V, None) /\ Closed(heap, C, M, S)
  BY <1>1, <1>2, <1>3, <1>4, RowHeap, MarkedClosed
<1>7. PICK G : heap' = G /\ Swept(heap, G, M, S)
  BY <1>3, <1>4, <1>5, <1>6, SweepHeap
<1>8. r \in M /\ Stored(heap, Y) /\ r \in Y /\ heap.d[r].base \in S
  BY <1>1, <1>6 DEF Closed, Frozen, RowsIn, Stored
<1>9. ASSUME NEW y \in Y PROVE y \in M
  <2>1. PICK st : st = heap.d[r].base
    OBVIOUS
  <2>2. PICK q : q = heap.s[st].e
    OBVIOUS
  <2>3. Y = {r} \cup {v \in ToSet(q) : IsRow(v)}
    BY <2>1, <2>2 DEF Frozen, RowsIn
  <2>4. \A i \in DOMAIN q : IsRow(q[i]) => q[i] \in M
    BY <1>6, <1>8, <2>1, <2>2 DEF Closed
  <2>5. \A v \in ToSet(q) : IsRow(v) => v \in M
    BY <2>4 DEF ToSet
  <2>6. QED
    BY <1>8, <2>3, <2>5
<1>10. \A y \in Y : y \in DOMAIN heap.d /\ heap.d[y].base \in S
  BY <1>6, <1>8, <1>9 DEF Closed, Stored
<1>11. QED
  <2>1. DOMAIN G.d = M /\ DOMAIN G.s = S
    BY <1>7 DEF Swept
  <2>2. /\ \A q \in M : G.d[q] = heap.d[q]
        /\ \A st \in S : G.s[st].e = heap.s[st].e
    BY <1>7 DEF Swept
  <2>3. QED
    BY <1>7, <1>9, <1>10, <2>1, <2>2 DEF Still

-----------------------------------------------------------------------------
(* The actions leave a kept row as it is: those that write. *)

(* the set that accounts for the counts, and the row that is written, which is a variable's *)
LEMMA WriteReady ==
  ASSUME RowInv, TallyInv, NEW r, NEW Y, Frozen(r, Y), NEW o \in Declared(cell, Var),
         NEW K, K = Declared(cell, Cell), NEW R, R = RowsOf(stack)
  PROVE  /\ o \notin Y /\ Stored(heap, Y)
         /\ \E X : /\ Counted(heap, K, R, X) /\ Shares(heap, X, o)
                   /\ \A y \in Y : Shares(heap, X, y)
<1>1. PICK X : Counted(heap, K, R, X)
  BY TallyIs
<1>2. \A y \in Y : Shares(heap, X, y)
  BY <1>1 DEF Frozen
<1>3. o \in K
  BY Cells DEF Declared
<1>4. Shares(heap, X, o)
  BY <1>1, <1>3 DEF Counted
<1>5. QED
  BY <1>1, <1>2, <1>4 DEF Frozen

(* A variable's row. *)
LEMMA IsVariables ==
  ASSUME NEW c \in Var, cell[c] # Nil
  PROVE  cell[c] \in Declared(cell, Var)
BY DEF Declared

LEMMA AssignStill ==
  ASSUME NamesKeepBounds, RowInv, TallyInv, NEW c \in Var, assign(c), NEW k, NEW Y, Frozen(k, Y)
  PROVE  Still(heap, heap', Y)
<1>1. prog \in Programs /\ cell[c] # Nil /\ "assign" \in Ops
  BY DEF RowInv, assign, Uses
<1>2. PICK C : C = Held(cell, stack)
  OBVIOUS
<1>3. PICK V : V = Declared(cell, Var)
  OBVIOUS
<1>4. PICK r : r = cell[c]
  OBVIOUS
<1>5. PICK src : src = Top.p
  OBVIOUS
<1>6. PICK n : n = heap.d[src].n
  OBVIOUS
<1>7. PICK K : K = Declared(cell, Cell)
  OBVIOUS
<1>8. PICK R : R = RowsOf(stack)
  OBVIOUS
<1>9. r \in Declared(cell, Var)
  BY <1>1, <1>4, IsVariables
<1>10. PICK X : Counted(heap, K, R, X) /\ Shares(heap, X, r) /\ \A y \in Y : Shares(heap, X, y)
  BY <1>7, <1>8, <1>9, WriteReady
<1>11. r \notin Y /\ Stored(heap, Y) /\ Y \subseteq C
  BY <1>1, <1>2, <1>9 DEF Frozen
<1>12. /\ Good(heap, C, V, None) /\ Plain(heap, r) /\ r \in C /\ Plain(heap, src) /\ src \in C
       /\ Fits(heap, c, r) /\ Fits(heap, c, src)
       /\ FreeS(heap) >= OwnCost(heap, r) + WideCost(heap, r)
       /\ c \in Nested => FreeD(heap) >= 2 * n /\ FreeS(heap) >= OwnCost(heap, r) + n
  BY <1>2, <1>3, <1>4, <1>5, <1>6, AssignReady
<1>13. /\ r \in DOMAIN heap.d /\ src \in DOMAIN heap.d /\ Inside(heap, heap.d[r])
       /\ Inside(heap, heap.d[src])
  BY <1>12 DEF Plain
<1>14. PICK G : G = AssignRow(heap, r, src, c \in Flex)
  OBVIOUS
<1>15. heap' = G
  BY <1>4, <1>5, <1>14 DEF assign
<1>16. CASE c \notin Flex /\ same_bounds(heap, r, src)
  <2>1. G = row_copy_into(heap, r, src)
    BY <1>14, <1>16 DEF AssignRow
  <2>2. r = rowd_owner(heap, r) /\ n = heap.d[r].n
    BY <1>6, <1>12, <1>13, <1>16, StoreOf DEF same_bounds
  <2>3. CASE c \notin Nested
    <3>1. FlatRow(heap, r) /\ FlatRow(heap, src)
      BY <1>12, <1>13, <2>3 DEF FlatRow, Fits
    <3>2. QED
      BY <1>10, <1>11, <1>12, <1>13, <1>15, <1>16, <2>1, <2>2, <3>1, FlatIntoStill
  <2>4. CASE c \in Nested
    <3>1. DeepRow(heap, r) /\ DeepRow(heap, src)
      BY <1>12, <1>13, <2>4 DEF DeepRow, Fits
    <3>2. QED
      BY <1>1, <1>11, <1>12, <1>13, <1>15, <1>16, <2>1, <2>2, <2>4, <3>1, DeepIntoStill
  <2>5. QED
    BY <2>3, <2>4
<1>17. CASE c \in Flex \/ ~same_bounds(heap, r, src)
  <2>1. G = row_replace(heap, r, src)
    BY <1>14, <1>17 DEF AssignRow
  <2>2. MayTake(heap, C, V, r, src)
    BY <1>2, <1>3, <1>4, <1>5, <1>17, AssignTakes
  <2>3. QED
    BY <1>1, <1>11, <1>12, <1>13, <1>15, <2>1, <2>2, ReplaceStill
<1>18. QED
  BY <1>16, <1>17

LEMMA AssignNameStill ==
  ASSUME RowInv, TallyInv, assign_name, NEW k, NEW Y, Frozen(k, Y)
  PROVE  Still(heap, heap', Y)
<1>1. prog \in Programs /\ "slice_name" \in Ops
  BY DEF RowInv, assign_name, Uses
<1>2. PICK C : C = Held(cell, stack)
  OBVIOUS
<1>3. PICK V : V = Declared(cell, Var)
  OBVIOUS
<1>4. PICK dst : dst = stack[Len(stack) - 1].p
  OBVIOUS
<1>5. PICK src : src = Top.p
  OBVIOUS
<1>6. PICK o : o = rowd_owner(heap, dst)
  OBVIOUS
<1>7. PICK n : n = heap.d[dst].n
  OBVIOUS
<1>8. PICK G : G = row_copy_into(heap, dst, src)
  OBVIOUS
<1>9. heap' = G
  BY <1>4, <1>5, <1>8 DEF assign_name
<1>10. NameReady(C, V, dst, src, o, n)
  BY <1>2, <1>3, <1>4, <1>5, <1>6, <1>7, AssignNameReady
<1>11. PICK K : K = Declared(cell, Cell)
  OBVIOUS
<1>12. PICK R : R = RowsOf(stack)
  OBVIOUS
<1>13. o \in Declared(cell, Var)
  BY <1>3, <1>10 DEF NameReady
<1>14. PICK X : Counted(heap, K, R, X) /\ Shares(heap, X, o) /\ \A y \in Y : Shares(heap, X, y)
  BY <1>11, <1>12, <1>13, WriteReady
<1>15. o \notin Y /\ Stored(heap, Y) /\ Y \subseteq C
  BY <1>1, <1>2, <1>13 DEF Frozen
<1>16. CASE FlatRow(heap, o) /\ FlatRow(heap, src)
  BY <1>6, <1>8, <1>9, <1>10, <1>14, <1>15, <1>16, FlatIntoStill DEF NameReady
<1>17. CASE ~(FlatRow(heap, o) /\ FlatRow(heap, src))
  BY <1>1, <1>6, <1>7, <1>8, <1>9, <1>10, <1>15, <1>17, DeepIntoStill DEF NameReady
<1>18. QED
  BY <1>16, <1>17

LEMMA SetElemStill ==
  ASSUME RowInv, TallyInv, NEW c \in Var, NEW i \in 1 .. MaxLen, NEW x \in Scalar, set_elem(c, i, x),
         NEW k, NEW Y, Frozen(k, Y)
  PROVE  Still(heap, heap', Y)
<1>1. cell[c] # Nil
  BY DEF set_elem
<1>2. PICK C : C = Held(cell, stack)
  OBVIOUS
<1>3. PICK V : V = Declared(cell, Var)
  OBVIOUS
<1>4. PICK r : r = cell[c]
  OBVIOUS
<1>5. PICK J : J = own_store(heap, r)
  OBVIOUS
<1>6. PICK at : at = heap.d[r].off + i
  OBVIOUS
<1>7. PICK G : G = heap'
  OBVIOUS
<1>8. PICK K : K = Declared(cell, Cell)
  OBVIOUS
<1>9. PICK R : R = RowsOf(stack)
  OBVIOUS
<1>10. r \in Declared(cell, Var)
  BY <1>1, <1>4, IsVariables
<1>11. PICK X : Counted(heap, K, R, X) /\ Shares(heap, X, r) /\ \A y \in Y : Shares(heap, X, y)
  BY <1>8, <1>9, <1>10, WriteReady
<1>12. r \notin Y /\ Stored(heap, Y)
  BY <1>10 DEF Frozen
<1>13. SetReady(C, V, r, J, at, x, G)
  BY <1>2, <1>3, <1>4, <1>5, <1>6, <1>7, SetElemReady
<1>14. Good(heap, C, V, None) /\ Inside(heap, heap.d[r]) /\ FreeS(heap) >= OwnCost(heap, r)
  BY <1>13 DEF SetReady, FlatRow
<1>15. Still(heap, J, Y) /\ Alone(J, r, Y)
  BY <1>5, <1>11, <1>12, <1>14, OwnStill
<1>16. /\ Good(J, C, V, None) /\ FlatRow(J, r) /\ FreeS(J) >= WriteCost(J, r, x)
       /\ G \in Writes(J, r, at, x) /\ at \in 1 .. Len(J.s[J.d[r].base].e)
  BY <1>13 DEF SetReady, Does
<1>17. x \in Value /\ ~IsRow(x)
  BY ScalarElem
<1>18. Still(J, G, Y)
  BY <1>15, <1>16, <1>17, WriteStill
<1>19. QED
  BY <1>7, <1>15, <1>18, StillBoth

LEMMA AssignElemStill ==
  ASSUME RowInv, TallyInv, NEW c \in Var, NEW i \in 1 .. MaxLen, assign_elem(c, i),
         NEW k, NEW Y, Frozen(k, Y)
  PROVE  Still(heap, heap', Y)
<1>1. cell[c] # Nil /\ "assign_elem" \in Ops /\ prog \in Programs
  BY DEF assign_elem, Uses, RowInv
<1>2. PICK C : C = Held(cell, stack)
  OBVIOUS
<1>3. PICK V : V = Declared(cell, Var)
  OBVIOUS
<1>4. PICK r : r = cell[c]
  OBVIOUS
<1>5. PICK J : J = own_store(heap, r)
  OBVIOUS
<1>6. PICK e : e = rowd_get(heap, r, i)
  OBVIOUS
<1>7. PICK src : src = Top.p
  OBVIOUS
<1>8. PICK flex : flex = (c \in Flex)
  OBVIOUS
<1>9. PICK x : x = (IF flex \/ ~same_bounds(heap, e, src) THEN 1 ELSE 0)
  OBVIOUS
<1>10. PICK G : G = heap'
  OBVIOUS
<1>11. ElemReady(C, V, r, J, e, src, flex, x, G)
  BY <1>2, <1>3, <1>4, <1>5, <1>6, <1>7, <1>8, <1>9, <1>10, AssignElemReady
<1>12. PICK K : K = Declared(cell, Cell)
  OBVIOUS
<1>13. PICK R : R = RowsOf(stack)
  OBVIOUS
<1>14. r \in Declared(cell, Var)
  BY <1>1, <1>4, IsVariables
<1>15. PICK X : Counted(heap, K, R, X) /\ Shares(heap, X, r) /\ \A y \in Y : Shares(heap, X, y)
  BY <1>12, <1>13, <1>14, WriteReady
<1>16. r \notin Y /\ Stored(heap, Y) /\ Y \subseteq C
  BY <1>1, <1>2, <1>14 DEF Frozen
<1>17. /\ Good(heap, C, V, None) /\ Inside(heap, heap.d[r]) /\ FreeS(heap) >= OwnCost(heap, r)
       /\ Good(J, C, V, None) /\ e \notin C /\ flex \in BOOLEAN /\ FlatRow(J, e) /\ IsElem(J, e)
  BY <1>8, <1>11 DEF ElemReady, Does
<1>18. Counted(J, K, R, X) /\ SharesStay(heap, J, X)
  BY <1>5, <1>15, <1>17, OwnCounted
<1>19. Shares(J, X, e) /\ \A y \in Y : Shares(J, X, y)
  BY <1>15, <1>17, <1>18, ElemShared DEF SharesStay
<1>20. Still(heap, J, Y) /\ Stored(J, Y)
  BY <1>5, <1>15, <1>16, <1>17, OwnStill, StillStored
<1>21. Still(J, G, Y)
  BY <1>1, <1>11, <1>16, <1>17, <1>18, <1>19, <1>20, AssignFlatStill DEF ElemReady
<1>22. QED
  BY <1>10, <1>20, <1>21, StillBoth

(* A row grown in place, or moved to a larger store, is a variable's and no kept row's. *)
LEMMA AppendedStill ==
  ASSUME NamesKeepBounds, RowInv, TallyInv, NEW c \in Var, NEW x \in Scalar, append(c, x),
         NEW k, NEW Y, Frozen(k, Y)
  PROVE  Still(heap, heap', Y)
<1>1. Safe(heap, cell, stack) /\ prog \in Programs /\ c \in Cell /\ cell[c] # Nil /\ c \in Flex
      /\ c \notin Nested
  BY Cells DEF RowInv, append
<1>2. PICK C : C = Held(cell, stack)
  OBVIOUS
<1>3. PICK V : V = Declared(cell, Var)
  OBVIOUS
<1>4. PICK r : r = cell[c]
  OBVIOUS
<1>5. PICK off : off = heap.d[r].off
  OBVIOUS
<1>6. PICK G : G = heap'
  OBVIOUS
<1>7. /\ G = (IF off = 0 THEN append_in_place(heap, r, x) ELSE append_fallback(heap, r, x))
      /\ heap.d[r].n < prog.len
      /\ IF off = 0 THEN Uses("append", 0, OwnNeeds(r) + 1) ELSE Uses("append", 2, 2)
  BY <1>4, <1>5, <1>6 DEF append
<1>8. /\ Good(heap, C, V, None) /\ Shape(heap) /\ r \in C /\ FlatRow(heap, r)
  BY <1>1, <1>2, <1>3, <1>4, HeldIn DEF Plain, FlatRow, Fits
<1>9. "slice_name" \notin Ops
  BY <1>1 DEF NamesKeepBounds, Ops, Flex
<1>10. PICK K : K = Declared(cell, Cell)
  OBVIOUS
<1>11. PICK R : R = RowsOf(stack)
  OBVIOUS
<1>12. r \in Declared(cell, Var)
  BY <1>1, <1>4, IsVariables
<1>13. PICK X : Counted(heap, K, R, X) /\ Shares(heap, X, r) /\ \A y \in Y : Shares(heap, X, y)
  BY <1>10, <1>11, <1>12, WriteReady
<1>14. r \notin Y /\ Stored(heap, Y)
  BY <1>12 DEF Frozen
<1>15. CASE off = 0
  <2>1. G = append_in_place(heap, r, x)
    BY <1>7, <1>15
  <2>2. rowd_owner(heap, r) = r
    BY <1>8, StoreOf DEF FlatRow
  <2>3. OwnNeeds(r) = OwnCost(heap, r) + WideCost(heap, r)
    BY <2>2, OwnNeedsIs
  <2>4. OwnNeeds(r) + 1 \in Nat
    BY <2>3, CostsAreNumbers
  <2>5. FreeS(heap) >= OwnNeeds(r) + 1
    BY <1>7, <1>15, <2>4, UsesFree
  <2>6. FreeS(heap) >= OwnCost(heap, r) + WideCost(heap, r) + 1
    BY <2>3, <2>5
  <2>7. QED
    BY <1>1, <1>5, <1>6, <1>7, <1>8, <1>9, <1>13, <1>14, <1>15, <2>1, <2>6, AppendStill
<1>16. CASE off # 0
  <2>1. G = append_fallback(heap, r, x)
    BY <1>7, <1>16
  <2>2. FreeD(heap) >= 2 /\ FreeS(heap) >= 2
    BY <1>7, <1>16, UsesFree
  <2>3. PICK J, j, v, leaf : Concats(heap, J, G, C, V, r, j, v, leaf)
    BY <1>1, <1>7, <1>8, <1>9, <2>1, <2>2, FallbackSteps
  <2>4. FreeD(heap) > 0 /\ FreeS(heap) > 0
    BY <1>8, <2>2, FreeCounts
  <2>5. QED
    BY <1>1, <1>6, <1>8, <1>14, <2>3, <2>4, FallbackStill
<1>17. QED
  BY <1>15, <1>16

-----------------------------------------------------------------------------
(* Kept values do not change. *)

(* Every action leaves the rows of an identity as they are. *)
LEMMA StepStill ==
  ASSUME NamesKeepBounds, RowInv, TallyInv, Next, NEW r, NEW Y, Frozen(r, Y)
  PROVE  Still(heap, heap', Y)
<1>1. Stored(heap, Y) /\ \A y \in Y : y \notin RowsOf(stack)
  BY DEF Frozen
<1>2. CASE \E v \in Literals : Display(v)
  BY <1>1, <1>2, DisplayStill
<1>3. CASE row_of
  BY <1>1, <1>3, RowOfStill
<1>4. CASE deref
  BY <1>1, <1>4, DerefStill
<1>5. CASE pop
  <2>1. heap' = heap
    BY <1>5 DEF pop
  <2>2. QED
    BY <1>1, <2>1, SameStill
<1>6. CASE assign_name
  BY <1>6, AssignNameStill
<1>7. CASE gc_sweep
  BY <1>7, SweepStill
<1>8. CASE \E c \in Cell : push_cell(c)
  BY <1>1, <1>8, PushCellStill
<1>9. CASE \E c \in Cell : bind_cell(c)
  BY <1>1, <1>9, BindCellStill
<1>10. CASE \E c \in Var : assign(c)
  BY <1>10, AssignStill
<1>11. CASE \E c \in Cell, i \in 1 .. MaxLen : push_elem(c, i)
  BY <1>1, <1>11, PushElemStill
<1>12. CASE \E c \in Var, i \in 1 .. MaxLen : assign_elem(c, i)
  BY <1>12, AssignElemStill
<1>13. CASE \E c \in Var, i \in 1 .. MaxLen, x \in Scalar : set_elem(c, i, x)
  BY <1>13, SetElemStill
<1>14. CASE \E c \in Var, x \in Scalar : append(c, x)
  BY <1>14, AppendedStill
<1>15. CASE \E off \in 0 .. MaxLen, n \in Trims : slice_value(off, n)
  BY <1>1, <1>15, SliceValueStill
<1>16. CASE \E c \in Var, off \in 0 .. MaxLen, n \in Trims : slice_name(c, off, n)
  BY <1>1, <1>16, SliceNameStill
<1>17. QED
  BY <1>2, <1>3, <1>4, <1>5, <1>6, <1>7, <1>8, <1>9, <1>10, <1>11, <1>12, <1>13, <1>14, <1>15,
     <1>16 DEF Next

(* A step that does not declare an identity again leaves the value it has. *)
LEMMA StepKept ==
  ASSUME NamesKeepBounds, KeptApart, RowInv, TallyInv, [Next]_vars, NEW c \in Cell \ Var,
         cell[c] # Nil, cell'[c] = cell[c]
  PROVE  Contents(cell[c])' = Contents(cell[c])
<1>1. PICK r : r = cell[c]
  OBVIOUS
<1>2. PICK Y : Y = RowsIn(heap, r)
  OBVIOUS
<1>3. Frozen(r, Y)
  BY <1>1, <1>2, RowFrozen
<1>4. PICK H : H = heap
  OBVIOUS
<1>5. PICK G : G = heap'
  OBVIOUS
<1>6. Still(H, G, Y)
  <2>1. CASE Next
    BY <1>3, <1>4, <1>5, <2>1, StepStill
  <2>2. CASE UNCHANGED vars
    <3>1. heap' = heap /\ Stored(heap, Y)
      BY <1>3, <2>2 DEF vars, Frozen
    <3>2. QED
      BY <1>4, <1>5, <3>1, SameStill
  <2>3. QED
    BY <2>1, <2>2
<1>7. PICK C, V : Good(H, C, V, None)
  BY <1>4, RowHeap
<1>8. Stored(H, Y) /\ Y = RowsIn(H, r) /\ r \in DOMAIN H.d
  <2>1. Stored(H, Y) /\ Y = RowsIn(H, r)
    BY <1>3, <1>4 DEF Frozen
  <2>2. QED
    BY <2>1 DEF RowsIn, Stored
<1>9. ContentsOf(G, r) = ContentsOf(H, r)
  BY <1>6, <1>7, <1>8, ContentsStill
<1>10. Contents(cell[c]) = ContentsOf(H, r)
  BY <1>1, <1>4 DEF Contents, ContentsOf, Flat, FlatOf
<1>11. Contents(cell[c])' = ContentsOf(G, r)
  BY <1>1, <1>5 DEF Contents, ContentsOf, Flat, FlatOf, rowd_get, rowd_store, rowd_owner, IsRow
<1>12. QED
  BY <1>9, <1>10, <1>11

(* A step leaves the value of an identity as it is unless it declares the identity again. *)
KeepsValue(c) ==
  cell[c] # Nil /\ cell'[c] = cell[c] => Contents(cell[c])' = Contents(cell[c])

(* A kept value never changes: while an identity is not declared again, no step changes what is in its
   row, whatever the program writes in variables that share its store, and wherever a sweep comes. *)
THEOREM RowValuesKept ==
  ASSUME NamesKeepBounds, NoEmptySlices, CountsSuffice, SweptSteadily, KeptApart
  PROVE  Spec => KeptValues
<1>1. Init => RowInv /\ TallyInv
  BY InitRow, InitTally
<1>2. (RowInv /\ TallyInv) /\ [Next]_vars => (RowInv /\ TallyInv)'
  <2>1. RowInv /\ [Next]_vars => RowInv'
    BY StepRow
  <2>2. RowInv /\ TallyInv /\ [Next]_vars => TallyInv'
    BY StepTally
  <2>3. QED
    BY <2>1, <2>2
<1>3. ASSUME RowInv, TallyInv, [Next]_vars
      PROVE  [\A c \in Cell \ Var : KeepsValue(c)]_vars
  BY <1>3, StepKept DEF KeepsValue
<1>4. [][\A c \in Cell \ Var : KeepsValue(c)]_vars => KeptValues
  BY PTL DEF KeepsValue, KeptValues
<1>5. QED
  BY <1>1, <1>2, <1>3, <1>4, PTL DEF Spec

=============================================================================
