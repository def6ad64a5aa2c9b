---------------------------- MODULE IndexProofs -----------------------------
(***************************************************************************)
(* Proofs about deletes and searches of IndexTree, and about Index: its    *)
(* tree stays balanced and no block of its file is leaked or shared,       *)
(* whatever this program and others insert and delete.                     *)
(***************************************************************************)
EXTENDS Index, IndexTreeProofs

-----------------------------------------------------------------------------
(***************************************************************************)
(* A block that may be empty, and its brother.                             *)
(***************************************************************************)
\* A good index but for the block b at the end of path, that may be empty.
Thin(h, K, low, high, t, path, b) ==
  \E W, lev, lo, hi :
    /\ Form(h, K, low, high, t, W, lev, lo, hi, 0, 0, {b})
    /\ Leg(W, KeysIn(t, W), KidsIn(t, W), lev, t.root, path, b)
    /\ path = <<>> /\ t.blk[b].keys = <<>> => t.blk[b].type = "U"

\* The key i of the block p above b, between b and its brother.
IsPair(t, path, p, i, l, r) ==
  /\ path # <<>> /\ p = Last(path).blk
  /\ i = IF AtEnd(t, Last(path)) THEN Last(path).off - 1 ELSE Last(path).off
  /\ l = t.blk[p].kids[i] /\ r = t.blk[p].kids[i + 1]

Pair(h, K, low, high, t, W, lev, lo, hi, b, path, p, i, l, r) ==
  /\ Form(h, K, low, high, t, W, lev, lo, hi, 0, 0, {b}) /\ Stored(h, K, t, W) /\ lev \in [W -> Nat]
  /\ Leg(W, KeysIn(t, W), KidsIn(t, W), lev, t.root, path, p)
  /\ p \in W /\ l \in W /\ r \in W /\ l # r /\ l # p /\ r # p /\ b \in {l, r} /\ lev[l] < lev[p] /\ lev[r] < lev[p]
  /\ KidsIn(t, W)[p] # <<>> /\ i \in 1 .. Len(KeysIn(t, W)[p]) /\ Brothers(KidsIn(t, W), p, i, l, r)
  /\ t.blk[p].type = "U" /\ t.blk[l].type = t.blk[r].type /\ t.blk[l].type \in {"U", "V"}

\* xiodelete takes the brother on the right, or on the left for the last kid,
\* of a thin block.
LEMMA PairIs ==
  ASSUME NEW K, Ordered(K), NEW h, NEW low, NEW high, NEW t, NEW path, NEW b, Thin(h, K, low, high, t, path, b),
         NEW p, NEW i, NEW l, NEW r, IsPair(t, path, p, i, l, r)
  PROVE  \E W, lev, lo, hi : Pair(h, K, low, high, t, W, lev, lo, hi, b, Front(path), p, i, l, r)
<1>1. PICK W, lev, lo, hi :
        /\ Form(h, K, low, high, t, W, lev, lo, hi, 0, 0, {b})
        /\ Leg(W, KeysIn(t, W), KidsIn(t, W), lev, t.root, path, b)
  BY DEF Thin
<1> DEFINE ks == KeysIn(t, W)
           ds == KidsIn(t, W)
           a == t.root
           s == Last(path)
<1>2. Shape(K, low, high, W, a, ks, ds, lev, lo, hi, 0, 0, {b}) /\ Stored(h, K, t, W) /\ Leg(W, ks, ds, lev, a, path, b)
  BY <1>1 DEF Form
<1>3. DOMAIN ks = W /\ DOMAIN ds = W /\ \A c \in W : ks[c] = t.blk[c].keys /\ ds[c] = KidsOf(t.blk[c])
  BY ONLY ViewIs
<1> HIDE DEF ks, ds, a
<1>4. lev \in [W -> Nat]
  BY ONLY <1>2 DEF Shape, ShapeTypes
<1>5. path # <<>>
  BY DEF IsPair
<1>6. LeadsTo(W, ks, ds, s, b) /\ lev[s.blk] = lev[b] + 1 /\ Leg(W, ks, ds, lev, a, Front(path), s.blk)
  BY ONLY <1>2, <1>4, <1>5, LegUp
<1>7. /\ p = s.blk /\ i = IF AtEnd(t, s) THEN s.off - 1 ELSE s.off
      /\ l = t.blk[p].kids[i] /\ r = t.blk[p].kids[i + 1]
  BY DEF IsPair
<1> HIDE DEF s
<1>8. p \in W /\ ds[p] # <<>> /\ s.off \in 1 .. Len(ks[p]) + 1 /\ ds[p][s.off] = b /\ b \in W
  <2>1. b \in W
    BY ONLY <1>2 DEF Leg
  <2> QED BY ONLY <1>6, <1>7, <2>1 DEF LeadsTo
<1>9. p # b
  <2>1. lev[p] = lev[b] + 1 /\ lev[b] \in Nat
    BY ONLY <1>4, <1>6, <1>7, <1>8
  <2> QED BY ONLY <2>1
<1>10. ks[p] \in Seq(K) /\ Len(ks[p]) \in Nat /\ Len(ks[p]) >= 1
  <2>1. ks[p] \in Seq(K) /\ Len(ks[p]) \in Nat
    BY ONLY Ordered(K), <1>2, <1>8, BlockFacts
  <2>2. ks[p] # <<>>
    BY ONLY <1>2, <1>8, <1>9 DEF Shape
  <2> QED BY ONLY <2>1, <2>2
<1>11. t.blk[p].type = "U" /\ ds[p] = t.blk[p].kids /\ ks[p] = t.blk[p].keys
  <2>1. ds[p] = KidsOf(t.blk[p])
    BY ONLY <1>3, <1>8
  <2> QED BY ONLY <1>3, <1>8, <2>1 DEF KidsOf
<1>12. i \in 1 .. Len(ks[p]) /\ b \in {l, r} /\ l = ds[p][i] /\ r = ds[p][i + 1]
  <2> DEFINE n == Len(ks[p])
             o == s.off
  <2>1. n \in Nat /\ n >= 1 /\ o \in 1 .. n + 1 /\ ds[p][o] = b /\ l = ds[p][i] /\ r = ds[p][i + 1]
        /\ i = IF o > n THEN o - 1 ELSE o
    BY ONLY <1>7, <1>8, <1>10, <1>11 DEF AtEnd
  <2> HIDE DEF n, o
  <2>2. i \in 1 .. n /\ b \in {l, r}
    <3>1. CASE o > n
      <4>1. o = n + 1 /\ i = n /\ i + 1 = o
        BY ONLY <2>1, <3>1
      <4> QED BY ONLY <2>1, <4>1
    <3>2. CASE ~(o > n)
      BY ONLY <2>1, <3>2
    <3> QED BY ONLY <3>1, <3>2
  <2> QED BY ONLY <2>1, <2>2 DEF n
<1>13. Brothers(ds, p, i, l, r)
  BY ONLY <1>12 DEF Brothers
<1>14. /\ l \in W /\ r \in W /\ l # r /\ l # p /\ r # p
       /\ lev[l] + 1 = lev[p] /\ lev[r] + 1 = lev[p] /\ lev[p] \in Nat /\ lev[l] \in Nat /\ lev[r] \in Nat
       /\ (ds[l] = <<>>) <=> (ds[r] = <<>>)
  <2> DEFINE E == {b}
  <2>1. Shape(K, low, high, W, a, ks, ds, lev, lo, hi, 0, 0, E) /\ p \in W /\ ds[p] # <<>> /\ i \in 1 .. Len(ks[p])
    BY ONLY <1>2, <1>8, <1>12
  <2> HIDE DEF E
  <2> QED BY ONLY Ordered(K), <2>1, <1>13, BrotherFacts
<1>15. t.blk[l].type = t.blk[r].type /\ t.blk[l].type \in {"U", "V"}
  <2>1. \A c \in W : t.blk[c].type \in {"U", "V"} /\ (t.blk[c].type = "U" => t.blk[c].kids # <<>>)
    BY ONLY <1>2, StoredBlock
  <2>2. ds[l] = KidsOf(t.blk[l]) /\ ds[r] = KidsOf(t.blk[r])
    BY ONLY <1>3, <1>14
  <2>3. (t.blk[l].type = "V" <=> ds[l] = <<>>) /\ (t.blk[r].type = "V" <=> ds[r] = <<>>)
    BY ONLY <1>14, <2>1, <2>2 DEF KidsOf
  <2> QED BY ONLY <1>14, <2>1, <2>3
<1>16. lev[l] < lev[p] /\ lev[r] < lev[p]
  BY ONLY <1>14
<1>17. Leg(W, ks, ds, lev, a, Front(path), p)
  BY ONLY <1>6, <1>7
<1> QED BY ONLY <1>1, <1>2, <1>4, <1>8, <1>11, <1>12, <1>13, <1>14, <1>15, <1>16, <1>17 DEF Pair, ks, ds, a

-----------------------------------------------------------------------------
(***************************************************************************)
(* The nodes of a join.                                                    *)
(***************************************************************************)
\* The size of a branch is a number.
LEMMA USizeIs ==
  ASSUME NEW K, NEW h, Header(h), NEW s, s \in Seq(K)
  PROVE  USize(h, s) \in Nat
<1>1. Len(s) \in Nat /\ PosSize(h) \in Nat /\ KeySize(h) \in Nat /\ Terminator(h) \in Nat
  BY PosSizeIs, LenProperties DEF Header
<1> DEFINE a == Len(s)
           c == KeySize(h) + PosSize(h)
<1>2. a \in Nat /\ c \in Nat
  BY <1>1
<1> HIDE DEF a, c
<1>3. a * c \in Nat
  BY <1>2
<1> QED BY <1>1, <1>3 DEF USize, a, c

\* A block and its brother are in one, and the key between them with them.
JoinedIs(K, x, left, k, right) ==
  /\ x.keys = left.keys \o <<k>> \o right.keys
  /\ KidsOf(x) = KidsOf(left) \o KidsOf(right)

\* Two brothers that can be joined fit in one block.
LEMMA JoinedNode ==
  ASSUME NEW K, NEW h, Header(h), NEW t, t \in Indexes(h, K), NEW left, NEW k, NEW right,
         TreeNode(h, K, left), TreeNode(h, K, right), left.type = right.type, k \in K,
         CanJoin(t, left, k, right), NEW x, x = Joined(left, k, right)
  PROVE  TreeNode(h, K, x) /\ JoinedIs(K, x, left, k, right)
<1> DEFINE J == left.keys \o <<k>> \o right.keys
           extra == IF left.type = "V" /\ Compressed(t) /\ left.keys = <<>> THEN 1 ELSE 0
<1>1. left.keys \in Seq(K) /\ right.keys \in Seq(K) /\ left.type \in {"U", "V"}
  BY NodeTypes DEF TreeNode
<1>2. J \in Seq(K)
  BY ONLY <1>1, k \in K, JoinIs
<1>3. NodeSize(t, x) + extra <= t.blksize
  BY DEF CanJoin
<1>4. extra \in {0, 1} /\ h.blksize \in Nat /\ t.blksize = h.blksize
  BY SizesOf DEF Header
<1>5. CASE left.type = "V"
  <2>1. x = Leaf(J)
    BY ONLY <1>5, x = Joined(left, k, right) DEF Joined
  <2> HIDE DEF J, extra
  <2>2. VSize(h, J) \in Nat
    BY ONLY <1>2, Header(h), VSizeIs DEF Header
  <2>3. NodeSize(t, x) = VSize(h, J)
    <3>1. x.type = "V" /\ x.keys = J
      BY ONLY <2>1 DEF Leaf
    <3> QED BY ONLY <3>1, t \in Indexes(h, K), SizesOf DEF NodeSize
  <2>4. VSize(h, J) <= h.blksize
    BY ONLY <1>3, <1>4, <2>2, <2>3
  <2>5. TreeNode(h, K, x) /\ x.keys = J /\ KidsOf(x) = <<>>
    BY ONLY <1>2, <2>1, <2>4, TreeNodes
  <2>6. KidsOf(left) = <<>> /\ KidsOf(right) = <<>>
    BY <1>5 DEF KidsOf
  <2>7. <<>> \o <<>> = <<>>
    OBVIOUS
  <2> QED BY ONLY <2>5, <2>6, <2>7 DEF J, JoinedIs
<1>6. CASE left.type # "V"
  <2> DEFINE D == left.kids \o right.kids
  <2>0. left.type = "U" /\ right.type = "U"
    BY <1>1, <1>6
  <2>1. x = Branch(J, D)
    BY ONLY <1>6, x = Joined(left, k, right) DEF Joined
  <2>2. left.kids \in Seq(Nat) /\ right.kids \in Seq(Nat) /\ left.kids # <<>>
    BY <2>0, NodeTypes DEF TreeNode
  <2>3. D \in Seq(Nat) /\ D # <<>>
    <3>1. D \in Seq(Nat) /\ Len(D) = Len(left.kids) + Len(right.kids)
      BY ONLY <2>2, ConcatProperties
    <3>2. Len(left.kids) \in Nat /\ Len(right.kids) \in Nat /\ Len(left.kids) >= 1
      BY ONLY <2>2
    <3> DEFINE a == Len(left.kids)
               c == Len(right.kids)
               n == Len(D)
    <3>3. a \in Nat /\ c \in Nat /\ a >= 1 /\ n = a + c
      BY ONLY <3>1, <3>2
    <3> HIDE DEF a, c, n
    <3>4. n # 0
      BY ONLY <3>3
    <3> HIDE DEF D
    <3>5. D # <<>>
      BY ONLY <3>4 DEF n
    <3> QED BY ONLY <3>1, <3>5
  <2> HIDE DEF J, D, extra
  <2>4. USize(h, J) \in Nat
    BY ONLY <1>2, Header(h), USizeIs
  <2>5. NodeSize(t, x) = USize(h, J)
    <3>1. x.type = "U" /\ x.keys = J
      BY ONLY <2>1 DEF Branch
    <3> QED BY ONLY <3>1, t \in Indexes(h, K), SizesOf DEF NodeSize
  <2>6. USize(h, J) <= h.blksize
    BY ONLY <1>3, <1>4, <2>4, <2>5
  <2>7. TreeNode(h, K, x) /\ x.keys = J /\ KidsOf(x) = D
    BY ONLY <1>2, <2>1, <2>3, <2>6, TreeNodes
  <2>8. KidsOf(left) = left.kids /\ KidsOf(right) = right.kids
    BY <2>0 DEF KidsOf
  <2> QED BY ONLY <2>7, <2>8 DEF J, D, JoinedIs
<1> QED BY <1>5, <1>6

\* The parent without the key i.
OneMore(node) == Len(node.kids) = Len(node.keys) + 1
LessOf(node, i) == Branch(RemoveAt(node.keys, i), RemoveAt(node.kids, i + 1))
IsLess(node, i, z) ==
  z.type = "U" /\ z.keys = RemoveAt(node.keys, i) /\ KidsOf(z) = RemoveAt(node.kids, i + 1)

\* A branch without a key and the kid after it.
LEMMA LessNode ==
  ASSUME NEW K, NEW h, Header(h), NEW node, TreeNode(h, K, node), node.type = "U",
         NEW i, i \in 1 .. Len(node.keys), OneMore(node),
         NEW z, z = LessOf(node, i)
  PROVE  TreeNode(h, K, z) /\ IsLess(node, i, z)
<1> DEFINE s == node.keys
           d == node.kids
           j == i + 1
           s2 == RemoveAt(s, i)
           d2 == RemoveAt(d, j)
<1>1. s \in Seq(K) /\ d \in Seq(Nat) /\ USize(h, s) <= h.blksize
  <2>1. node \in Node(K) /\ Room(h, node)
    BY DEF TreeNode
  <2> QED BY <2>1, NodeTypes DEF Room, NodeSize
<1>2. i \in 1 .. Len(s) /\ Len(d) = Len(s) + 1 /\ Len(s) \in Nat
  BY <1>1, LenProperties DEF OneMore
<1>3. j \in 1 .. Len(d) /\ Len(d) \in Nat /\ Len(d) >= 2
  BY <1>2
<1>4. z = Branch(s2, d2)
  BY DEF LessOf
<1> HIDE DEF s, d, j
<1>5. s2 \in Seq(K) /\ Len(s2) = Len(s) - 1
  BY ONLY <1>1, <1>2, RemoveAtIs
<1>6. d2 \in Seq(Nat) /\ Len(d2) = Len(d) - 1
  BY ONLY <1>1, <1>3, RemoveAtIs
<1> HIDE DEF s2, d2
<1>7. d2 # <<>>
  BY ONLY <1>3, <1>6
<1>8. Len(s2) \in Nat /\ Len(s2) <= Len(s)
  BY ONLY <1>2, <1>5
<1>9. USize(h, s2) <= h.blksize
  BY ONLY Header(h), <1>1, <1>2, <1>8, FewerFit
<1>10. TreeNode(h, K, z) /\ z.type = "U" /\ z.keys = s2 /\ KidsOf(z) = d2
  BY ONLY <1>4, <1>5, <1>6, <1>7, <1>9, TreeNodes
<1> QED BY <1>10 DEF s2, d2, s, d, j, IsLess

-----------------------------------------------------------------------------
(***************************************************************************)
(* Thin blocks and their brothers are joined.                              *)
(***************************************************************************)
\* The writes of a join, as keys and kids of the tree.
LEMMA ViewJoin ==
  ASSUME NEW t2, NEW W, NEW ks, NEW ds, NEW p, NEW i, NEW l, NEW r, p \in W, l \in W, r \in W,
         p # l, p # r, l # r, NEW W2, W2 = W \ {r},
         \A d \in W : d \notin {l, r, p} => t2.blk[d].keys = ks[d] /\ KidsOf(t2.blk[d]) = ds[d],
         t2.blk[l].keys = ks[l] \o <<ks[p][i]>> \o ks[r], KidsOf(t2.blk[l]) = ds[l] \o ds[r],
         t2.blk[p].keys = RemoveAt(ks[p], i), KidsOf(t2.blk[p]) = RemoveAt(ds[p], i + 1)
  PROVE  IsJoin(ks, ds, p, i, l, r, W2, KeysIn(t2, W2), KidsIn(t2, W2))
<1> DEFINE P == ks[l] \o <<ks[p][i]>> \o ks[r]
           Q == RemoveAt(ks[p], i)
           L == ds[l] \o ds[r]
           R == RemoveAt(ds[p], i + 1)
<1>0. t2.blk[l].keys = P /\ t2.blk[p].keys = Q /\ KidsOf(t2.blk[l]) = L /\ KidsOf(t2.blk[p]) = R
  OBVIOUS
<1> HIDE DEF P, Q, L, R
<1>1. \A d \in W2 : t2.blk[d].keys = IF d = l THEN P ELSE IF d = p THEN Q ELSE ks[d]
  BY <1>0
<1>2. \A d \in W2 : KidsOf(t2.blk[d]) = IF d = l THEN L ELSE IF d = p THEN R ELSE ds[d]
  BY <1>0
<1>3. KeysIn(t2, W2) = [d \in W2 |-> IF d = l THEN P ELSE IF d = p THEN Q ELSE ks[d]]
  BY <1>1 DEF KeysIn
<1>4. KidsIn(t2, W2) = [d \in W2 |-> IF d = l THEN L ELSE IF d = p THEN R ELSE ds[d]]
  BY <1>2 DEF KidsIn
<1> QED BY <1>3, <1>4 DEF IsJoin, P, Q, L, R

\* What the join writes: x in l, z in p, and r goes.
JoinedTree(t, l, r, p, x, z) == Free(Put(Put(t, l, x), p, z), r)

\* The writes of a join keep the file whole, the right block goes to the
\* deleted ones.
LEMMA JoinWrites ==
  ASSUME NEW K, NEW h, NEW t, NEW W, Stored(h, K, t, W), NEW l, NEW r, NEW p, l \in W, r \in W, p \in W,
         l # r, l # p, r # p, NEW x, NEW z, TreeNode(h, K, x), TreeNode(h, K, z),
         NEW t2, t2 = JoinedTree(t, l, r, p, x, z), NEW W2, W2 = W \ {r}
  PROVE  /\ Stored(h, K, t2, W2) /\ t2.root = t.root /\ t2.blk[l] = x /\ t2.blk[p] = z
         /\ \A d \in W : d \notin {l, r, p} => t2.blk[d] = t.blk[d]
<1> DEFINE u == Put(t, l, x)
           v == Put(u, p, z)
<1>1. Stored(h, K, u, W) /\ u.root = t.root /\ Wrote(t, u, W, l, x)
  BY ONLY Stored(h, K, t, W), l \in W, TreeNode(h, K, x), StoredPut
<1>2. t2 = Free(v, r)
  BY DEF JoinedTree
<1> HIDE DEF u
<1>3. Stored(h, K, v, W) /\ v.root = u.root /\ Wrote(u, v, W, p, z)
  BY ONLY <1>1, p \in W, TreeNode(h, K, z), StoredPut
<1> HIDE DEF v
<1>4. Stored(h, K, t2, W2) /\ t2.root = v.root /\ \A c \in W : c # r => t2.blk[c] = v.blk[c]
  BY ONLY <1>2, <1>3, r \in W, W2 = W \ {r}, StoredFree
<1>5. t2.blk[l] = x
  BY <1>1, <1>3, <1>4 DEF Wrote
<1>6. t2.blk[p] = z
  BY <1>3, <1>4 DEF Wrote
<1>7. \A d \in W : d \notin {l, r, p} => t2.blk[d] = t.blk[d]
  BY <1>1, <1>3, <1>4 DEF Wrote
<1> QED BY ONLY <1>1, <1>3, <1>4, <1>5, <1>6, <1>7

\* A thin block and its brother are joined: the tree is sound but for their
\* parent, which may be thin now (1202-1250).
LEMMA JoinStep ==
  ASSUME NEW K, Ordered(K), NEW h, Header(h), NEW low, NEW high, NEW t, NEW path, NEW b, Thin(h, K, low, high, t, path, b),
         NEW p, NEW i, NEW l, NEW r, IsPair(t, path, p, i, l, r), NEW k, k = t.blk[p].keys[i],
         CanJoin(t, t.blk[l], k, t.blk[r]), NEW x, x = Joined(t.blk[l], k, t.blk[r]),
         NEW z, z = Branch(RemoveAt(t.blk[p].keys, i), RemoveAt(t.blk[p].kids, i + 1))
  PROVE  Thin(h, K, low, high, JoinedTree(t, l, r, p, x, z), Front(path), p)
<1>1. PICK W, lev, lo, hi : Pair(h, K, low, high, t, W, lev, lo, hi, b, Front(path), p, i, l, r)
  BY ONLY Ordered(K), Thin(h, K, low, high, t, path, b), IsPair(t, path, p, i, l, r), PairIs
<1> DEFINE ks == KeysIn(t, W)
           ds == KidsIn(t, W)
           a == t.root
           F == Front(path)
           E == {b}
           E2 == {p}
           W2 == W \ {r}
           t2 == JoinedTree(t, l, r, p, x, z)
           ks2 == KeysIn(t2, W2)
           ds2 == KidsIn(t2, W2)
<1>2. Shape(K, low, high, W, a, ks, ds, lev, lo, hi, 0, 0, E) /\ Stored(h, K, t, W) /\ lev \in [W -> Nat]
      /\ Leg(W, ks, ds, lev, a, F, p)
  BY <1>1 DEF Pair, Form
<1>3. /\ p \in W /\ l \in W /\ r \in W /\ l # r /\ l # p /\ r # p /\ lev[l] < lev[p] /\ lev[r] < lev[p]
      /\ ds[p] # <<>> /\ i \in 1 .. Len(ks[p]) /\ Brothers(ds, p, i, l, r)
  BY <1>1 DEF Pair
<1>4. t.blk[p].type = "U" /\ t.blk[l].type = t.blk[r].type /\ b \in {l, r}
  BY <1>1 DEF Pair
<1>5. \A c \in W : ks[c] = t.blk[c].keys /\ ds[c] = KidsOf(t.blk[c])
  BY ONLY ViewIs
<1>6. t2 = JoinedTree(t, l, r, p, x, z) /\ W2 = W \ {r}
  OBVIOUS
<1>7. StillEmpty(W, l, r, E, E2) /\ p \in E2
  BY <1>4 DEF StillEmpty
<1> HIDE DEF ks, ds, a, F, E
<1>8. ks[p] = t.blk[p].keys /\ ds[p] = t.blk[p].kids /\ ks[l] = t.blk[l].keys /\ ks[r] = t.blk[r].keys
      /\ ds[l] = KidsOf(t.blk[l]) /\ ds[r] = KidsOf(t.blk[r])
  <2>1. ds[p] = KidsOf(t.blk[p])
    BY ONLY <1>3, <1>5
  <2> QED BY ONLY <1>3, <1>4, <1>5, <2>1 DEF KidsOf
<1>9. Len(ds[p]) = Len(ks[p]) + 1 /\ ks[p] \in Seq(K) /\ k = ks[p][i] /\ k \in K
  <2>1. Len(ds[p]) = Len(ks[p]) + 1 /\ ks[p] \in Seq(K)
    BY ONLY Ordered(K), <1>2, <1>3, BlockFacts
  <2>2. k = ks[p][i]
    BY <1>8
  <2> QED BY ONLY <1>3, <2>1, <2>2, ElementOfSeq
<1>10. TreeNode(h, K, x) /\ JoinedIs(K, x, t.blk[l], k, t.blk[r])
  <2>1. TreeNode(h, K, t.blk[l]) /\ TreeNode(h, K, t.blk[r]) /\ t \in Indexes(h, K)
    BY ONLY <1>2, <1>3 DEF Stored
  <2> DEFINE left == t.blk[l]
             right == t.blk[r]
  <2>2. TreeNode(h, K, left) /\ TreeNode(h, K, right) /\ left.type = right.type /\ CanJoin(t, left, k, right)
        /\ x = Joined(left, k, right)
    BY <1>4, <2>1
  <2> HIDE DEF left, right
  <2>3. TreeNode(h, K, x) /\ JoinedIs(K, x, left, k, right)
    BY ONLY Header(h), <1>9, <2>1, <2>2, JoinedNode
  <2> QED BY <2>3 DEF left, right
<1>11. TreeNode(h, K, z) /\ z.type = "U" /\ z.keys = RemoveAt(ks[p], i) /\ KidsOf(z) = RemoveAt(ds[p], i + 1)
  <2> DEFINE node == t.blk[p]
  <2>1. TreeNode(h, K, node)
    BY ONLY <1>2, <1>3 DEF Stored
  <2>2. node.type = "U" /\ i \in 1 .. Len(node.keys) /\ OneMore(node) /\ z = LessOf(node, i)
    BY <1>3, <1>4, <1>8, <1>9 DEF OneMore, LessOf
  <2> HIDE DEF node
  <2>3. TreeNode(h, K, z) /\ IsLess(node, i, z)
    BY ONLY Header(h), <2>1, <2>2, LessNode
  <2> QED BY <1>8, <2>3 DEF node, IsLess
<1> HIDE DEF t2, W2, E2, ks2, ds2
<1>12. /\ Stored(h, K, t2, W2) /\ t2.root = t.root /\ t2.blk[l] = x /\ t2.blk[p] = z
       /\ \A d \in W : d \notin {l, r, p} => t2.blk[d] = t.blk[d]
  BY ONLY <1>2, <1>3, <1>6, <1>10, <1>11, JoinWrites
<1>13. IsJoin(ks, ds, p, i, l, r, W2, ks2, ds2)
  <2>1. \A d \in W : d \notin {l, r, p} => t2.blk[d].keys = ks[d] /\ KidsOf(t2.blk[d]) = ds[d]
    BY ONLY <1>5, <1>12
  <2>2. t2.blk[l].keys = ks[l] \o <<ks[p][i]>> \o ks[r] /\ KidsOf(t2.blk[l]) = ds[l] \o ds[r]
    BY ONLY <1>8, <1>9, <1>10, <1>12 DEF JoinedIs
  <2>3. t2.blk[p].keys = RemoveAt(ks[p], i) /\ KidsOf(t2.blk[p]) = RemoveAt(ds[p], i + 1)
    BY ONLY <1>11, <1>12
  <2>4. IsJoin(ks, ds, p, i, l, r, W2, KeysIn(t2, W2), KidsIn(t2, W2))
    BY ONLY <1>3, <1>6, <2>1, <2>2, <2>3, ViewJoin, ZenonT(60)
  <2> QED BY <2>4 DEF ks2, ds2
<1>14. Reshaped(K, low, high, W2, a, ks2, ds2, E2, W2, lev) /\ p \in W2
  <2>1. Shape(K, low, high, W, a, ks, ds, lev, lo, hi, 0, 0, E)
    BY ONLY <1>2
  <2>2. p \in W /\ ds[p] # <<>> /\ i \in 1 .. Len(ks[p]) /\ Brothers(ds, p, i, l, r)
    BY ONLY <1>3
  <2>3. W2 = W \ {r}
    BY ONLY <1>6
  <2>4. Reshaped(K, low, high, W2, a, ks2, ds2, E2, W2, lev)
    BY ONLY Ordered(K), <2>1, <2>2, <2>3, <1>7, <1>13, Join
  <2>5. p \in W2
    BY ONLY <1>3, <2>3
  <2> QED BY ONLY <2>4, <2>5
<1>15. PICK lev2 \in [W2 -> Nat], lo2 \in [W2 -> K], hi2 \in [W2 -> K] :
         Shape(K, low, high, W2, a, ks2, ds2, lev2, lo2, hi2, 0, 0, E2) /\ \A d \in W2 : lev2[d] = lev[d]
  BY ONLY <1>14 DEF Reshaped
<1>16. KeptAbove(W, ks, ds, lev, p, W2, ks2, ds2, lev2)
  <2> SUFFICES ASSUME NEW c, c \in W, lev[c] > lev[p]
               PROVE  c \in W2 /\ ks2[c] = ks[c] /\ ds2[c] = ds[c] /\ lev2[c] = lev[c]
    BY DEF KeptAbove
  <2>1. c \notin {l, r, p}
    <3>1. lev[c] \in Nat /\ lev[p] \in Nat /\ lev[l] \in Nat /\ lev[r] \in Nat
      BY ONLY <1>2, <1>3, c \in W
    <3>2. lev[c] # lev[l] /\ lev[c] # lev[r] /\ lev[c] # lev[p]
      BY ONLY <1>3, <3>1, lev[c] > lev[p]
    <3> QED BY ONLY <3>2
  <2>2. c \in W2
    BY <1>6, <2>1
  <2>3. t2.blk[c] = t.blk[c]
    BY <1>12, <2>1
  <2>4. ks2[c] = t2.blk[c].keys /\ ds2[c] = KidsOf(t2.blk[c])
    BY ONLY <2>2, ViewIs DEF ks2, ds2
  <2> QED BY <1>5, <1>15, <2>2, <2>3, <2>4
<1>17. Leg(W2, ks2, ds2, lev2, a, F, p)
  <2>1. p \in W2 /\ lev2[p] = lev[p]
    BY ONLY <1>14, <1>15
  <2> QED BY ONLY <1>2, <1>16, <2>1, LegKept
<1>18. Form(h, K, low, high, t2, W2, lev2, lo2, hi2, 0, 0, E2)
  BY ONLY <1>12, <1>15 DEF Form, ks2, ds2, a
<1>19. t2.blk[p].type = "U"
  BY ONLY <1>11, <1>12
<1>20. Leg(W2, KeysIn(t2, W2), KidsIn(t2, W2), lev2, t2.root, F, p)
  BY ONLY <1>12, <1>17 DEF ks2, ds2, a
<1>21. Thin(h, K, low, high, t2, F, p)
  BY ONLY <1>18, <1>19, <1>20 DEF Thin, E2
<1> QED BY <1>21 DEF t2, F

-----------------------------------------------------------------------------
(***************************************************************************)
(* Two brothers with all keys on one side, cut anew.                       *)
(***************************************************************************)
\* A sequence that is cut in two at a place.
LEMMA CutAt ==
  ASSUME NEW S, NEW s, s \in Seq(S), NEW m, m \in 1 .. Len(s), NEW P, P \in Seq(S), NEW Q, Q \in Seq(S),
         Len(Q) = Len(s) - m, \A i \in 1 .. Len(Q) : Q[i] = s[m + i]
  PROVE  /\ Len(P) = m - 1 /\ (\A i \in 1 .. Len(P) : P[i] = s[i]) =>
              SubSeq(s, 1, m - 1) = P /\ SubSeq(s, m + 1, Len(s)) = Q
         /\ Len(P) = m /\ (\A i \in 1 .. Len(P) : P[i] = s[i]) =>
              SubSeq(s, 1, m) = P /\ SubSeq(s, m + 1, Len(s)) = Q
<1> DEFINE A == SubSeq(s, 1, m - 1)
           B == SubSeq(s, 1, m)
           C == SubSeq(s, m + 1, Len(s))
<1>1. /\ A \in Seq(S) /\ Len(A) = m - 1 /\ \A i \in 1 .. m - 1 : A[i] = s[i]
      /\ B \in Seq(S) /\ Len(B) = m /\ \A i \in 1 .. m : B[i] = s[i]
      /\ C \in Seq(S) /\ Len(C) = Len(s) - m /\ \A i \in 1 .. Len(s) - m : C[i] = s[m + i]
  BY PartsIs
<1> HIDE DEF A, B, C
<1>2. C = Q
  <2>1. \A i \in 1 .. Len(Q) : C[i] = Q[i]
    BY <1>1
  <2> QED BY ONLY <1>1, <2>1, Q \in Seq(S), Len(Q) = Len(s) - m
<1>3. ASSUME Len(P) = m - 1, \A i \in 1 .. Len(P) : P[i] = s[i] PROVE A = P
  <2>1. \A i \in 1 .. Len(P) : A[i] = P[i]
    BY <1>1, <1>3
  <2> QED BY ONLY <1>1, <2>1, <1>3, P \in Seq(S)
<1>4. ASSUME Len(P) = m, \A i \in 1 .. Len(P) : P[i] = s[i] PROVE B = P
  <2>1. \A i \in 1 .. Len(P) : B[i] = P[i]
    BY <1>1, <1>4
  <2> QED BY ONLY <1>1, <2>1, <1>4, P \in Seq(S)
<1> QED BY <1>2, <1>3, <1>4 DEF A, B, C

\* The first of the keys u, or the last of the keys s, becomes the middle one.
CutKeys(J, m, P, e, Q) ==
  m \in 2 .. Len(J) - 1 /\ SubSeq(J, 1, m - 1) = P /\ J[m] = e /\ SubSeq(J, m + 1, Len(J)) = Q

FirstIsUp(J, e, u) == CutKeys(J, 2, <<e>>, Head(u), Tail(u))
LastIsUp(J, m, s, e) == CutKeys(J, m, Front(s), Last(s), <<e>>)

\* An empty block takes the key of its parent, the first key of its right
\* brother goes up.
LEMMA FirstUp ==
  ASSUME NEW S, NEW s, s = <<>>, NEW e, e \in S, NEW u, u \in Seq(S), Len(u) >= 2, NEW J, J = AllKeys(s, e, u)
  PROVE  FirstIsUp(J, e, u)
<1> DEFINE P == <<e>>
           Q == Tail(u)
           n == Len(u)
           m == 2
<1>0. s \in Seq(S) /\ Len(s) = 0 /\ u # <<>>
  OBVIOUS
<1>1. J \in Seq(S) /\ Len(J) = 0 + 1 + n /\ J[0 + 1] = e /\ \A i \in 1 .. n : J[0 + 1 + i] = u[i]
  <2> DEFINE j == s \o <<e>> \o u
  <2>1. j \in Seq(S) /\ Len(j) = Len(s) + 1 + Len(u) /\ j[Len(s) + 1] = e /\ \A i \in 1 .. Len(u) : j[Len(s) + 1 + i] = u[i]
    BY ONLY <1>0, u \in Seq(S), e \in S, JoinIs
  <2> HIDE DEF j
  <2> QED BY ONLY <1>0, <2>1, J = AllKeys(s, e, u) DEF j, AllKeys
<1>2. Q \in Seq(S) /\ Len(Q) = n - 1 /\ n \in Nat /\ Head(u) = u[1] /\ \A i \in 1 .. n - 1 : Q[i] = u[i + 1]
  BY ONLY <1>0, u \in Seq(S), TailIs
<1>3. P \in Seq(S) /\ Len(P) = 1 /\ P[1] = e
  OBVIOUS
<1>4. n >= 2
  OBVIOUS
<1> HIDE DEF P, Q, n, m
<1>5. m = 2
  BY DEF m
<1>6. m \in 1 .. Len(J) /\ m \in 2 .. Len(J) - 1 /\ Len(Q) = Len(J) - m /\ Len(P) = m - 1
  BY ONLY <1>1, <1>2, <1>3, <1>4, <1>5
<1>7. \A i \in 1 .. Len(Q) : Q[i] = J[m + i]
  BY ONLY <1>1, <1>2, <1>4, <1>5
<1>8. \A i \in 1 .. Len(P) : P[i] = J[i]
  BY ONLY <1>1, <1>3
<1>9. J[m] = Head(u)
  BY ONLY <1>1, <1>2, <1>4, <1>5
<1>10. SubSeq(J, 1, m - 1) = P /\ SubSeq(J, m + 1, Len(J)) = Q
  BY ONLY <1>1, <1>2, <1>3, <1>6, <1>7, <1>8, CutAt
<1> QED BY ONLY <1>6, <1>9, <1>10 DEF FirstIsUp, CutKeys, P, Q, m

\* An empty block takes the key of its parent, the last key of its left brother
\* goes up.
LEMMA LastUp ==
  ASSUME NEW S, NEW s, s \in Seq(S), NEW m, m = Len(s), m >= 2, NEW e, e \in S, NEW u, u = <<>>, NEW J, J = AllKeys(s, e, u)
  PROVE  LastIsUp(J, m, s, e)
<1> DEFINE P == Front(s)
           Q == <<e>>
<1>0. u \in Seq(S) /\ Len(u) = 0 /\ s # <<>> /\ m \in Nat
  OBVIOUS
<1>1. J \in Seq(S) /\ Len(J) = m + 1 /\ J[m + 1] = e /\ \A i \in 1 .. m : J[i] = s[i]
  <2> DEFINE j == s \o <<e>> \o u
  <2>1. j \in Seq(S) /\ Len(j) = Len(s) + 1 + Len(u) /\ j[Len(s) + 1] = e /\ \A i \in 1 .. Len(s) : j[i] = s[i]
    BY ONLY <1>0, s \in Seq(S), e \in S, JoinIs
  <2> HIDE DEF j
  <2>2. J = j
    BY DEF j, AllKeys
  <2>3. Len(s) + 1 + Len(u) = m + 1 /\ Len(s) + 1 = m + 1
    BY ONLY <1>0, m = Len(s)
  <2> QED BY ONLY <2>1, <2>2, <2>3, m = Len(s)
<1>2. P \in Seq(S) /\ Len(P) = m - 1 /\ Last(s) = s[m] /\ \A i \in 1 .. m - 1 : P[i] = s[i]
  BY ONLY <1>0, s \in Seq(S), m = Len(s), FrontIs
<1>3. Q \in Seq(S) /\ Len(Q) = 1 /\ Q[1] = e
  OBVIOUS
<1>4. m >= 2
  OBVIOUS
<1> HIDE DEF P, Q
<1>6. m \in 1 .. Len(J) /\ m \in 2 .. Len(J) - 1 /\ Len(Q) = Len(J) - m /\ Len(P) = m - 1
  BY ONLY <1>0, <1>1, <1>2, <1>3, <1>4
<1>7. \A i \in 1 .. Len(Q) : Q[i] = J[m + i]
  BY ONLY <1>1, <1>3
<1>8. \A i \in 1 .. Len(P) : P[i] = J[i]
  BY ONLY <1>0, <1>1, <1>2
<1>9. J[m] = Last(s)
  BY ONLY <1>0, <1>1, <1>2, <1>4
<1>10. SubSeq(J, 1, m - 1) = P /\ SubSeq(J, m + 1, Len(J)) = Q
  BY ONLY <1>1, <1>2, <1>3, <1>6, <1>7, <1>8, CutAt
<1> QED BY ONLY <1>6, <1>9, <1>10 DEF LastIsUp, CutKeys, P, Q

CutKids(D, m, P, Q) == SubSeq(D, 1, m) = P /\ SubSeq(D, m + 1, Len(D)) = Q

\* And the first kid of the right brother moves.
LEMMA FirstKidUp ==
  ASSUME NEW S, NEW a, a \in Seq(S), Len(a) = 1, NEW c, c \in Seq(S), Len(c) >= 1, NEW D, D = a \o c
  PROVE  CutKids(D, 2, a \o <<Head(c)>>, Tail(c)) /\ a \o <<Head(c)>> \in Seq(S) \ {<<>>}
<1> DEFINE b == <<Head(c)>>
           P == a \o b
           Q == Tail(c)
           n == Len(c)
           m == 2
<1>0. c # <<>>
  OBVIOUS
<1>2. Q \in Seq(S) /\ Len(Q) = n - 1 /\ n \in Nat /\ Head(c) = c[1] /\ Head(c) \in S /\ \A i \in 1 .. n - 1 : Q[i] = c[i + 1]
  BY ONLY <1>0, c \in Seq(S), TailIs
<1>3. b \in Seq(S) /\ Len(b) = 1 /\ b[1] = c[1]
  BY ONLY <1>2
<1> HIDE DEF b
<1>4. P \in Seq(S) /\ Len(P) = Len(a) + Len(b) /\ (\A i \in 1 .. Len(a) : P[i] = a[i])
      /\ \A i \in 1 .. Len(b) : P[Len(a) + i] = b[i]
  <2>1. b \in Seq(S)
    BY ONLY <1>3
  <2> DEFINE v == a \o b
  <2>2. v \in Seq(S) /\ Len(v) = Len(a) + Len(b) /\ (\A i \in 1 .. Len(a) : v[i] = a[i])
        /\ \A i \in 1 .. Len(b) : v[Len(a) + i] = b[i]
    BY ONLY <2>1, a \in Seq(S), CatIs
  <2> QED BY ONLY <2>2
<1> DEFINE w == a \o c
<1>5. w \in Seq(S) /\ Len(w) = Len(a) + Len(c) /\ (\A i \in 1 .. Len(a) : w[i] = a[i])
      /\ \A i \in 1 .. Len(c) : w[Len(a) + i] = c[i]
  BY ONLY a \in Seq(S), c \in Seq(S), CatIs
<1>6. D = w
  OBVIOUS
<1> HIDE DEF P, Q, w
<1>7. P \in Seq(S) /\ Len(P) = 2 /\ P[1] = a[1] /\ P[2] = c[1]
  BY ONLY <1>3, <1>4, Len(a) = 1
<1>8. D \in Seq(S) /\ Len(D) = 1 + n /\ D[1] = a[1] /\ \A i \in 1 .. n : D[1 + i] = c[i]
  BY ONLY <1>5, <1>6, Len(a) = 1
<1>9. n >= 1
  OBVIOUS
<1> HIDE DEF n, m
<1>10. m = 2
  BY DEF m
<1>11. m \in 1 .. Len(D) /\ Len(Q) = Len(D) - m /\ Len(P) = m
  BY ONLY <1>2, <1>7, <1>8, <1>9, <1>10
<1>12. \A i \in 1 .. Len(Q) : Q[i] = D[m + i]
  BY ONLY <1>2, <1>8, <1>9, <1>10
<1>13. D[2] = c[1]
  BY ONLY <1>2, <1>8, <1>9
<1>14. \A i \in 1 .. Len(P) : P[i] = D[i]
  BY ONLY <1>7, <1>8, <1>13
<1>15. SubSeq(D, 1, m) = P /\ SubSeq(D, m + 1, Len(D)) = Q
  BY ONLY <1>2, <1>7, <1>8, <1>11, <1>12, <1>14, CutAt
<1>16. P # <<>>
  BY ONLY <1>7
<1> QED BY ONLY <1>7, <1>15, <1>16 DEF CutKids, P, Q, b, m

\* And the last kid of the left brother moves.
LEMMA LastKidUp ==
  ASSUME NEW S, NEW a, a \in Seq(S), NEW m, m = Len(a) - 1, m >= 1, NEW c, c \in Seq(S), Len(c) = 1, NEW D, D = a \o c
  PROVE  CutKids(D, m, Front(a), <<Last(a)>> \o c) /\ Front(a) \in Seq(S) \ {<<>>} /\ <<Last(a)>> \o c \in Seq(S) \ {<<>>}
<1> DEFINE b == <<Last(a)>>
           P == Front(a)
           Q == b \o c
           n == Len(a)
<1>0. a # <<>> /\ n \in Nat /\ m \in Nat /\ n = m + 1
  OBVIOUS
<1>2. P \in Seq(S) /\ Len(P) = n - 1 /\ Last(a) = a[n] /\ Last(a) \in S /\ \A i \in 1 .. n - 1 : P[i] = a[i]
  BY ONLY <1>0, a \in Seq(S), FrontIs
<1>3. b \in Seq(S) /\ Len(b) = 1 /\ b[1] = a[n]
  BY ONLY <1>2
<1> HIDE DEF b
<1>4. Q \in Seq(S) /\ Len(Q) = Len(b) + Len(c) /\ (\A i \in 1 .. Len(b) : Q[i] = b[i])
      /\ \A i \in 1 .. Len(c) : Q[Len(b) + i] = c[i]
  BY ONLY <1>3, c \in Seq(S), CatIs, SMTT(60)
<1> DEFINE w == a \o c
<1>5. w \in Seq(S) /\ Len(w) = Len(a) + Len(c) /\ (\A i \in 1 .. Len(a) : w[i] = a[i])
      /\ \A i \in 1 .. Len(c) : w[Len(a) + i] = c[i]
  BY ONLY a \in Seq(S), c \in Seq(S), CatIs
<1>6. D = w
  OBVIOUS
<1> HIDE DEF P, Q, w
<1>7. Q \in Seq(S) /\ Len(Q) = 2 /\ Q[1] = a[n] /\ Q[2] = c[1]
  BY ONLY <1>3, <1>4, Len(c) = 1
<1>8. D \in Seq(S) /\ Len(D) = n + 1 /\ D[n + 1] = c[1] /\ \A i \in 1 .. n : D[i] = a[i]
  BY ONLY <1>5, <1>6, Len(c) = 1
<1>9. m >= 1
  OBVIOUS
<1> HIDE DEF n
<1>11. m \in 1 .. Len(D) /\ Len(Q) = Len(D) - m /\ Len(P) = m
  BY ONLY <1>0, <1>2, <1>7, <1>8, <1>9
<1>12. D[m + 1] = a[n] /\ D[m + 2] = c[1]
  BY ONLY <1>0, <1>8, <1>9
<1>13. \A i \in 1 .. Len(Q) : Q[i] = D[m + i]
  BY ONLY <1>7, <1>12
<1>14. \A i \in 1 .. Len(P) : P[i] = D[i]
  BY ONLY <1>0, <1>2, <1>8, <1>11
<1>15. SubSeq(D, 1, m) = P /\ SubSeq(D, m + 1, Len(D)) = Q
  BY ONLY <1>2, <1>7, <1>8, <1>11, <1>13, <1>14, CutAt
<1>16. P # <<>> /\ Q # <<>>
  <2>1. Len(P) # 0 /\ Len(Q) # 0
    BY ONLY <1>0, <1>7, <1>9, <1>11
  <2> QED BY ONLY <2>1
<1> QED BY ONLY <1>2, <1>7, <1>15, <1>16 DEF CutKids, P, Q, b

-----------------------------------------------------------------------------
(***************************************************************************)
(* Brothers that can not be joined have keys to share.                     *)
(***************************************************************************)
\* Two blocks that do not fit into one have two keys between them at least.
IsWide(K, left, right, J) == J \in Seq(K) /\ Len(J) = Len(left.keys) + 1 + Len(right.keys) /\ Len(J) >= 3

\* Brothers that can not be joined have three keys at least with the one
\* between them.
LEMMA NotJoined ==
  ASSUME NEW K, NEW h, Header(h), NEW t, t \in Indexes(h, K), NEW left, NEW k, NEW right,
         TreeNode(h, K, left), TreeNode(h, K, right), k \in K, ~CanJoin(t, left, k, right),
         NEW J, J = AllKeys(left.keys, k, right.keys)
  PROVE  IsWide(K, left, right, J)
<1>1. left.keys \in Seq(K) /\ right.keys \in Seq(K) /\ left.type \in {"U", "V"}
  BY NodeTypes DEF TreeNode
<1>2. J \in Seq(K) /\ Len(J) = Len(left.keys) + 1 + Len(right.keys)
  <2> DEFINE j == left.keys \o <<k>> \o right.keys
  <2>1. j \in Seq(K) /\ Len(j) = Len(left.keys) + 1 + Len(right.keys)
    BY ONLY <1>1, k \in K, JoinIs
  <2> QED BY ONLY <2>1, J = AllKeys(left.keys, k, right.keys) DEF AllKeys
<1>3. Len(J) \in Nat /\ Len(J) >= 1
  <2>1. Len(left.keys) \in Nat /\ Len(right.keys) \in Nat
    BY ONLY <1>1, LenProperties
  <2> DEFINE a == Len(left.keys)
             c == Len(right.keys)
             n == Len(J)
  <2>2. a \in Nat /\ c \in Nat /\ n = a + 1 + c
    BY ONLY <1>2, <2>1
  <2> HIDE DEF a, c, n
  <2>3. n \in Nat /\ n >= 1
    BY ONLY <2>2
  <2> QED BY ONLY <2>3 DEF n
<1>4. ASSUME Len(J) \in {1, 2} PROVE FALSE
  <2> DEFINE x == Joined(left, k, right)
             extra == IF left.type = "V" /\ Compressed(t) /\ left.keys = <<>> THEN 1 ELSE 0
  <2>1. VSize(t, J) + 1 <= t.blksize /\ USize(t, J) <= t.blksize
    BY ONLY Header(h), t \in Indexes(h, K), <1>2, <1>4, TwoFit
  <2>2. ~(NodeSize(t, x) + extra <= t.blksize)
    BY DEF CanJoin
  <2>3. VSize(t, J) \in Nat /\ USize(t, J) \in Nat /\ t.blksize \in Nat
    <3>1. VSize(h, J) \in Nat /\ USize(h, J) \in Nat /\ h.blksize \in Nat
      BY ONLY Header(h), <1>2, VSizeIs, USizeIs DEF Header
    <3>2. VSize(t, J) = VSize(h, J) /\ USize(t, J) = USize(h, J) /\ t.blksize = h.blksize
      BY ONLY t \in Indexes(h, K), SizesOf
    <3> QED BY ONLY <3>1, <3>2
  <2>4. CASE left.type = "V"
    <3>1. NodeSize(t, x) = VSize(t, J)
      BY <2>4 DEF Joined, Leaf, NodeSize, AllKeys
    <3>2. extra \in {0, 1}
      OBVIOUS
    <3> HIDE DEF x, extra
    <3> QED BY ONLY <2>1, <2>2, <2>3, <3>1, <3>2
  <2>5. CASE left.type # "V"
    <3>1. NodeSize(t, x) = USize(t, J)
      BY <2>5 DEF Joined, Branch, NodeSize, AllKeys
    <3>2. extra = 0
      BY <2>5
    <3> HIDE DEF x, extra
    <3> QED BY ONLY <2>1, <2>2, <2>3, <3>1, <3>2
  <2> QED BY <2>4, <2>5
<1>5. Len(J) >= 3
  <2> DEFINE n == Len(J)
  <2>1. n \in Nat /\ n >= 1 /\ n \notin {1, 2}
    BY ONLY <1>3, <1>4
  <2> HIDE DEF n
  <2>2. n >= 3
    BY ONLY <2>1
  <2> QED BY ONLY <2>2 DEF n
<1> QED BY ONLY <1>2, <1>5 DEF IsWide

\* What a block and its brother become when one gives a key.
Takes(h, K, J, DJ, q, m) ==
  /\ q \in 2 .. Len(J) - 1 /\ TreeNode(h, K, m.left) /\ TreeNode(h, K, m.right)
  /\ ArePartsOf(J, DJ, q, m.left, m.right) /\ m.up = J[q]

\* A block without its first or its last key fits.
LEMMA TailFits ==
  ASSUME NEW K, NEW h, Header(h), NEW s, s \in Seq(K), s # <<>>
  PROVE  /\ VSize(h, s) <= h.blksize => VSize(h, Tail(s)) <= h.blksize /\ VSize(h, Front(s)) <= h.blksize
         /\ USize(h, s) <= h.blksize => USize(h, Tail(s)) <= h.blksize /\ USize(h, Front(s)) <= h.blksize
<1> DEFINE u == Tail(s)
           v == Front(s)
           w == RemoveAt(s, 1)
           y == Len(s) - 1
           f == SubSeq(s, 1, y)
<1>1. u \in Seq(K) /\ Len(u) = Len(s) - 1 /\ Len(s) \in Nat /\ Len(s) >= 1 /\ \A i \in 1 .. Len(s) - 1 : u[i] = s[i + 1]
  BY TailIs
<1>2. v \in Seq(K) /\ Len(v) = Len(s) - 1
  BY FrontIs
<1>3. 1 \in 1 .. Len(s)
  BY <1>1
<1>4. w \in Seq(K) /\ Len(w) = Len(s) - 1 /\ \A j \in 1 .. Len(s) - 1 : w[j] = IF j < 1 THEN s[j] ELSE s[j + 1]
  BY ONLY <1>3, s \in Seq(K), RemoveAtIs
<1>5. u = w
  <2> HIDE DEF u, w
  <2>1. \A j \in 1 .. Len(s) - 1 : w[j] = s[j + 1]
    BY ONLY <1>4
  <2>2. \A j \in 1 .. Len(s) - 1 : u[j] = w[j]
    BY ONLY <1>1, <2>1
  <2> QED BY ONLY <1>1, <1>4, <2>2
<1>6. h.parts \in Seq(Nat \ {0}) /\ h.blksize \in Nat
  BY DEF Header
<1>7. VSize(h, u) <= VSize(h, s)
  <2>1. VSize(h, w) <= VSize(h, s)
    BY ONLY <1>3, <1>6, s \in Seq(K), LessSize
  <2> QED BY ONLY <2>1, <1>5
<1>8. VSize(h, v) <= VSize(h, s)
  <2>1. y \in Nat /\ y <= Len(s)
    BY ONLY <1>1
  <2> HIDE DEF y
  <2>2. VSize(h, f) <= VSize(h, s)
    BY ONLY <1>6, <2>1, s \in Seq(K), FirstSize
  <2>3. v = f
    BY DEF Front, y
  <2> QED BY ONLY <2>2, <2>3
<1> HIDE DEF u, v
<1>9. VSize(h, u) \in Nat /\ VSize(h, v) \in Nat /\ VSize(h, s) \in Nat
  BY ONLY <1>1, <1>2, <1>6, s \in Seq(K), VSizeIs
<1>10. VSize(h, s) <= h.blksize => VSize(h, u) <= h.blksize /\ VSize(h, v) <= h.blksize
  BY ONLY <1>6, <1>7, <1>8, <1>9
<1>11. USize(h, s) <= h.blksize => USize(h, u) <= h.blksize /\ USize(h, v) <= h.blksize
  <2>1. Len(u) \in Nat /\ Len(v) \in Nat /\ Len(s) \in Nat /\ Len(u) <= Len(s) /\ Len(v) <= Len(s)
    BY ONLY <1>1, <1>2
  <2> QED BY ONLY Header(h), <2>1, FewerFit
<1> QED BY <1>10, <1>11 DEF u, v

\* A short block fits.
LEMMA OneFits ==
  ASSUME NEW K, NEW h, Header(h), NEW t, t \in Indexes(h, K), NEW k, k \in K
  PROVE  <<k>> \in Seq(K) /\ VSize(h, <<k>>) <= h.blksize /\ USize(h, <<k>>) <= h.blksize
<1> DEFINE s == <<k>>
<1>1. s \in Seq(K) /\ Len(s) \in {1, 2}
  OBVIOUS
<1> HIDE DEF s
<1>2. VSize(t, s) + 1 <= t.blksize /\ USize(t, s) <= t.blksize
  BY ONLY Header(h), t \in Indexes(h, K), <1>1, TwoFit
<1>3. VSize(t, s) = VSize(h, s) /\ USize(t, s) = USize(h, s) /\ t.blksize = h.blksize
  BY ONLY t \in Indexes(h, K), SizesOf
<1>4. VSize(h, s) \in Nat /\ h.blksize \in Nat
  BY ONLY Header(h), <1>1, VSizeIs DEF Header
<1>5. VSize(h, s) <= h.blksize /\ USize(h, s) <= h.blksize
  BY ONLY <1>2, <1>3, <1>4
<1> QED BY <1>1, <1>5 DEF s

-----------------------------------------------------------------------------
(***************************************************************************)
(* What TakeFirst and TakeLast write.                                      *)
(***************************************************************************)
\* A block, its brother and the key k between them, that do not fit into one block.
Apart2(h, K, left, k, right) ==
  /\ TreeNode(h, K, left) /\ TreeNode(h, K, right) /\ left.type = right.type /\ k \in K
  /\ left.type = "U" => OneMore(left) /\ OneMore(right)

\* What a block of the tree has.
LEMMA NodeParts ==
  ASSUME NEW K, NEW h, NEW node, TreeNode(h, K, node)
  PROVE  /\ node.keys \in Seq(K) /\ node.type \in {"U", "V"}
         /\ node.type = "V" => VSize(h, node.keys) <= h.blksize /\ KidsOf(node) = <<>>
         /\ node.type = "U" => /\ USize(h, node.keys) <= h.blksize /\ node.kids \in Seq(Nat) /\ node.kids # <<>>
                               /\ KidsOf(node) = node.kids
<1>1. node \in Node(K) /\ Room(h, node) /\ node.type \in {"U", "V"} /\ (node.type = "U" => node.kids # <<>>)
  BY DEF TreeNode
<1>2. node.keys \in Seq(K) /\ (node.type = "U" => node.kids \in Seq(Nat))
  BY <1>1, NodeTypes
<1> QED BY ONLY <1>1, <1>2 DEF Room, NodeSize, KidsOf

\* What TakeFirst writes are the keys and kids of both brothers, cut after the
\* first one (1281-1318).
LEMMA TakesFirst ==
  ASSUME NEW K, NEW h, Header(h), NEW t, t \in Indexes(h, K), NEW left, NEW k, NEW right,
         Apart2(h, K, left, k, right), left.keys = <<>>, Len(right.keys) >= 2,
         NEW J, J = left.keys \o <<k>> \o right.keys, NEW DJ, DJ = KidsOf(left) \o KidsOf(right),
         NEW m, m = TakeFirst(left, k, right)
  PROVE  Takes(h, K, J, DJ, 2, m)
<1> DEFINE u == right.keys
           P == <<k>>
           Q == Tail(u)
<1>1. TreeNode(h, K, left) /\ TreeNode(h, K, right) /\ left.type = right.type /\ k \in K /\ (left.type = "U" => OneMore(left))
  BY DEF Apart2
<1>2. u \in Seq(K) /\ left.type \in {"U", "V"} /\ u # <<>>
  <2>1. u \in Seq(K) /\ left.type \in {"U", "V"}
    BY ONLY <1>1, NodeParts
  <2>2. Len(u) >= 2
    OBVIOUS
  <2>3. u # <<>>
    BY ONLY <2>2
  <2> QED BY ONLY <2>1, <2>3
<1>3. CutKeys(J, 2, P, Head(u), Q)
  <2>1. J = AllKeys(left.keys, k, u)
    BY DEF AllKeys
  <2>2. left.keys = <<>> /\ k \in K /\ Len(u) >= 2
    BY <1>1
  <2> HIDE DEF u
  <2>3. FirstIsUp(J, k, u)
    BY ONLY <1>2, <2>1, <2>2, FirstUp
  <2> QED BY ONLY <2>3 DEF FirstIsUp
<1>4. P \in Seq(K) /\ VSize(h, P) <= h.blksize /\ USize(h, P) <= h.blksize
  BY ONLY Header(h), t \in Indexes(h, K), <1>1, OneFits
<1>5. Q \in Seq(K)
  BY ONLY <1>2, TailIs
<1>6. CASE left.type = "V"
  <2>1. m = [left |-> Leaf(P), up |-> Head(u), right |-> Leaf(Q)]
    BY <1>6 DEF TakeFirst
  <2>2. VSize(h, Q) <= h.blksize
    <3>1. VSize(h, u) <= h.blksize
      BY ONLY <1>1, <1>6, NodeParts
    <3> QED BY ONLY Header(h), <1>2, <3>1, TailFits
  <2> DEFINE x == Leaf(P)
             y == Leaf(Q)
             e == Head(u)
  <2>3. TreeNode(h, K, x) /\ x.keys = P /\ KidsOf(x) = <<>> /\ TreeNode(h, K, y) /\ y.keys = Q /\ KidsOf(y) = <<>>
    <3>1. P \in Seq(K) /\ VSize(h, P) <= h.blksize
      BY ONLY <1>4, <1>5, <2>2
    <3>2. Q \in Seq(K) /\ VSize(h, Q) <= h.blksize
      BY ONLY <1>4, <1>5, <2>2
    <3> HIDE DEF P, Q
    <3>3. TreeNode(h, K, x) /\ x.keys = P /\ KidsOf(x) = <<>>
      BY ONLY <3>1, TreeNodes
    <3>4. TreeNode(h, K, y) /\ y.keys = Q /\ KidsOf(y) = <<>>
      BY ONLY <3>2, TreeNodes
    <3> QED BY ONLY <3>3, <3>4
  <2>4. DJ = <<>> \o <<>>
    <3>1. KidsOf(left) = <<>> /\ KidsOf(right) = <<>>
      BY ONLY <1>1, <1>6, NodeParts
    <3> QED BY <3>1
  <2>5. LeftKids(DJ, 2) = <<>> /\ RightKids(DJ, 2) = <<>>
    BY ONLY <2>4 DEF LeftKids, RightKids
  <2> HIDE DEF x, y, e, P, Q
  <2>6. m.left = x /\ m.right = y /\ m.up = e
    BY ONLY <2>1 DEF x, y, e
  <2>7. CutKeys(J, 2, P, e, Q)
    BY ONLY <1>3 DEF e
  <2> QED BY ONLY <2>3, <2>5, <2>6, <2>7 DEF Takes, ArePartsOf, CutKeys
<1>7. CASE left.type = "U"
  <2> DEFINE c == left.kids
             d == right.kids
             A == c \o <<Head(d)>>
             B == Tail(d)
             x == Branch(P, A)
             y == Branch(Q, B)
             e == Head(u)
  <2>1. m.left = x /\ m.right = y /\ m.up = e
    <3> HIDE DEF x, y, e
    <3>1. m = [left |-> x, up |-> e, right |-> y]
      BY <1>7 DEF TakeFirst, x, y, e
    <3> QED BY ONLY <3>1
  <2>2. USize(h, Q) <= h.blksize
    <3>1. USize(h, u) <= h.blksize
      BY ONLY <1>1, <1>7, NodeParts
    <3> QED BY ONLY Header(h), <1>2, <3>1, TailFits
  <2>3. c \in Seq(Nat) /\ d \in Seq(Nat) /\ KidsOf(left) = c /\ KidsOf(right) = d
    BY ONLY <1>1, <1>7, NodeParts
  <2>4. Len(c) = 1 /\ Len(d) = Len(u) + 1
    <3>1. Len(c) = Len(left.keys) + 1 /\ Len(d) = Len(u) + 1
      BY <1>7 DEF Apart2, OneMore
    <3> QED BY ONLY <3>1, left.keys = <<>>
  <2>5. Len(d) >= 2 /\ d # <<>> /\ Len(d) \in Nat
    <3> DEFINE a == Len(u)
               b == Len(d)
    <3>1. a \in Nat /\ a >= 2 /\ b = a + 1
      BY <1>2, <2>4, LenProperties
    <3> HIDE DEF a, b
    <3>2. b >= 2 /\ b \in Nat
      BY ONLY <3>1
    <3>3. d # <<>>
      BY ONLY <3>2 DEF b
    <3> QED BY ONLY <3>2, <3>3 DEF b
  <2>6. CutKids(DJ, 2, A, B) /\ A \in Seq(Nat) \ {<<>>}
    <3>1. DJ = c \o d
      BY <2>3
    <3>2. Len(d) >= 1
      BY ONLY <2>5
    <3> HIDE DEF c, d
    <3> QED BY ONLY <2>3, <2>4, <3>1, <3>2, FirstKidUp
  <2>7. B \in Seq(Nat) /\ B # <<>>
    <3>1. B \in Seq(Nat) /\ Len(B) = Len(d) - 1
      BY ONLY <2>3, <2>5, TailIs
    <3> DEFINE a == Len(d)
               b == Len(B)
    <3>2. a \in Nat /\ a >= 2 /\ b = a - 1
      BY ONLY <2>5, <3>1
    <3> HIDE DEF a, b
    <3>4. b # 0
      BY ONLY <3>2
    <3> HIDE DEF B
    <3>3. B # <<>>
      BY ONLY <3>4 DEF b
    <3> QED BY ONLY <3>1, <3>3
  <2> HIDE DEF A, B, P, Q
  <2>8. A \in Seq(Nat) /\ A # <<>>
    BY ONLY <2>6
  <2>9. TreeNode(h, K, x) /\ x.keys = P /\ KidsOf(x) = A
    BY ONLY <1>4, <2>8, TreeNodes
  <2>10. TreeNode(h, K, y) /\ y.keys = Q /\ KidsOf(y) = B
    BY ONLY <1>5, <2>2, <2>7, TreeNodes
  <2>11. DJ # <<>>
    <3> DEFINE w == c \o d
    <3>1. w \in Seq(Nat) /\ Len(w) = Len(c) + Len(d)
      BY ONLY <2>3, CatIs
    <3>2. DJ = w
      BY <2>3
    <3> HIDE DEF w
    <3>3. Len(w) # 0
      BY ONLY <2>4, <2>5, <3>1
    <3> QED BY ONLY <3>2, <3>3
  <2>12. LeftKids(DJ, 2) = A /\ RightKids(DJ, 2) = B
    BY ONLY <2>6, <2>11 DEF LeftKids, RightKids, CutKids
  <2> HIDE DEF x, y, e
  <2>13. CutKeys(J, 2, P, e, Q)
    BY ONLY <1>3 DEF e
  <2> QED BY ONLY <2>1, <2>9, <2>10, <2>12, <2>13 DEF Takes, ArePartsOf, CutKeys
<1> QED BY ONLY <1>2, <1>6, <1>7

\* What TakeLast writes are the keys and kids of both brothers, cut before the
\* last one (1287-1318).
LEMMA TakesLast ==
  ASSUME NEW K, NEW h, Header(h), NEW t, t \in Indexes(h, K), NEW left, NEW k, NEW right,
         Apart2(h, K, left, k, right), right.keys = <<>>, NEW q, q = Len(left.keys), q >= 2,
         NEW J, J = left.keys \o <<k>> \o right.keys, NEW DJ, DJ = KidsOf(left) \o KidsOf(right),
         NEW m, m = TakeLast(left, k, right)
  PROVE  Takes(h, K, J, DJ, q, m)
<1> DEFINE u == left.keys
           P == Front(u)
           Q == <<k>>
<1>1. TreeNode(h, K, left) /\ TreeNode(h, K, right) /\ left.type = right.type /\ k \in K
  BY DEF Apart2
<1>2. u \in Seq(K) /\ left.type \in {"U", "V"} /\ u # <<>> /\ q \in Nat
  <2>1. u \in Seq(K) /\ left.type \in {"U", "V"}
    BY ONLY <1>1, NodeParts
  <2>2. Len(u) >= 2
    OBVIOUS
  <2>3. u # <<>>
    BY ONLY <2>2
  <2> QED BY ONLY <2>1, <2>3, q = Len(left.keys), LenProperties
<1>3. CutKeys(J, q, P, Last(u), Q)
  <2>1. J = AllKeys(u, k, right.keys)
    BY DEF AllKeys
  <2>2. right.keys = <<>> /\ k \in K /\ q = Len(u) /\ q >= 2
    BY <1>1
  <2> HIDE DEF u
  <2>3. LastIsUp(J, q, u, k)
    BY ONLY <1>2, <2>1, <2>2, LastUp
  <2> QED BY ONLY <2>3 DEF LastIsUp
<1>4. Q \in Seq(K) /\ VSize(h, Q) <= h.blksize /\ USize(h, Q) <= h.blksize
  BY ONLY Header(h), t \in Indexes(h, K), <1>1, OneFits
<1>5. P \in Seq(K)
  BY ONLY <1>2, FrontIs
<1>6. CASE left.type = "V"
  <2> DEFINE x == Leaf(P)
             y == Leaf(Q)
             e == Last(u)
  <2>2. VSize(h, P) <= h.blksize
    <3>1. VSize(h, u) <= h.blksize
      BY ONLY <1>1, <1>6, NodeParts
    <3> QED BY ONLY Header(h), <1>2, <3>1, TailFits
  <2>3. TreeNode(h, K, x) /\ x.keys = P /\ KidsOf(x) = <<>> /\ TreeNode(h, K, y) /\ y.keys = Q /\ KidsOf(y) = <<>>
    <3>1. P \in Seq(K) /\ VSize(h, P) <= h.blksize
      BY ONLY <1>4, <1>5, <2>2
    <3>2. Q \in Seq(K) /\ VSize(h, Q) <= h.blksize
      BY ONLY <1>4, <1>5, <2>2
    <3> HIDE DEF P, Q
    <3>3. TreeNode(h, K, x) /\ x.keys = P /\ KidsOf(x) = <<>>
      BY ONLY <3>1, TreeNodes
    <3>4. TreeNode(h, K, y) /\ y.keys = Q /\ KidsOf(y) = <<>>
      BY ONLY <3>2, TreeNodes
    <3> QED BY ONLY <3>3, <3>4
  <2>4. DJ = <<>> \o <<>>
    <3>1. KidsOf(left) = <<>> /\ KidsOf(right) = <<>>
      BY ONLY <1>1, <1>6, NodeParts
    <3> QED BY <3>1
  <2>5. LeftKids(DJ, q) = <<>> /\ RightKids(DJ, q) = <<>>
    BY ONLY <2>4 DEF LeftKids, RightKids
  <2>6. m.left = x /\ m.right = y /\ m.up = e
    <3> HIDE DEF x, y, e
    <3>1. m = [left |-> x, up |-> e, right |-> y]
      BY <1>6 DEF TakeLast, x, y, e
    <3> QED BY ONLY <3>1
  <2> HIDE DEF x, y, e, P, Q
  <2>7. CutKeys(J, q, P, e, Q)
    BY ONLY <1>3 DEF e
  <2> QED BY ONLY <2>3, <2>5, <2>6, <2>7 DEF Takes, ArePartsOf, CutKeys
<1>7. CASE left.type = "U"
  <2> DEFINE c == left.kids
             d == right.kids
             A == Front(c)
             B == <<Last(c)>> \o d
             x == Branch(P, A)
             y == Branch(Q, B)
             e == Last(u)
  <2>1. m.left = x /\ m.right = y /\ m.up = e
    <3> HIDE DEF x, y, e
    <3>1. m = [left |-> x, up |-> e, right |-> y]
      BY <1>7 DEF TakeLast, x, y, e
    <3> QED BY ONLY <3>1
  <2>2. USize(h, P) <= h.blksize
    <3>1. USize(h, u) <= h.blksize
      BY ONLY <1>1, <1>7, NodeParts
    <3> QED BY ONLY Header(h), <1>2, <3>1, TailFits
  <2>3. c \in Seq(Nat) /\ d \in Seq(Nat) /\ KidsOf(left) = c /\ KidsOf(right) = d
    BY ONLY <1>1, <1>7, NodeParts
  <2>4. Len(d) = 1 /\ Len(c) = q + 1
    <3>1. Len(c) = Len(left.keys) + 1 /\ Len(d) = Len(right.keys) + 1
      BY <1>7 DEF Apart2, OneMore
    <3> QED BY ONLY <3>1, right.keys = <<>>, q = Len(left.keys)
  <2>5. q = Len(c) - 1 /\ q >= 1
    BY ONLY <1>2, <2>4, q >= 2
  <2>6. CutKids(DJ, q, A, B) /\ A \in Seq(Nat) \ {<<>>} /\ B \in Seq(Nat) \ {<<>>}
    <3>1. DJ = c \o d
      BY <2>3
    <3> HIDE DEF c, d
    <3> QED BY ONLY <2>3, <2>4, <2>5, <3>1, LastKidUp
  <2> HIDE DEF A, B, P, Q
  <2>8. A \in Seq(Nat) /\ A # <<>> /\ B \in Seq(Nat) /\ B # <<>>
    BY ONLY <2>6
  <2>9. TreeNode(h, K, x) /\ x.keys = P /\ KidsOf(x) = A
    BY ONLY <1>5, <2>2, <2>8, TreeNodes
  <2>10. TreeNode(h, K, y) /\ y.keys = Q /\ KidsOf(y) = B
    BY ONLY <1>4, <2>8, TreeNodes
  <2>11. DJ # <<>>
    <3> DEFINE w == c \o d
    <3>1. w \in Seq(Nat) /\ Len(w) = Len(c) + Len(d)
      BY ONLY <2>3, CatIs
    <3>2. DJ = w
      BY <2>3
    <3> HIDE DEF w
    <3>3. Len(w) # 0
      BY ONLY <1>2, <2>4, <3>1
    <3> QED BY ONLY <3>2, <3>3
  <2>12. LeftKids(DJ, q) = A /\ RightKids(DJ, q) = B
    BY ONLY <2>6, <2>11 DEF LeftKids, RightKids, CutKids
  <2> HIDE DEF x, y, e
  <2>13. CutKeys(J, q, P, e, Q)
    BY ONLY <1>3 DEF e
  <2> QED BY ONLY <2>1, <2>9, <2>10, <2>12, <2>13 DEF Takes, ArePartsOf, CutKeys
<1> QED BY ONLY <1>2, <1>6, <1>7

-----------------------------------------------------------------------------
(***************************************************************************)
(* A thin block takes a key from its brother.                              *)
(***************************************************************************)
\* What the loop writes when one block gives a key to the other.
RotatedTree(t, l, r, p, i, m) == Put(Put(Put(t, l, m.left), r, m.right), p, NewKey(t.blk[p], i, m.up))

\* A thin block that took a key from its brother: the tree is sound.
LEMMA TakenGood ==
  ASSUME NEW K, Ordered(K), NEW h, Header(h), NEW low, NEW high, NEW t, NEW W, NEW lev, NEW lo, NEW hi,
         NEW b, NEW path, NEW p, NEW i, NEW l, NEW r, Pair(h, K, low, high, t, W, lev, lo, hi, b, path, p, i, l, r),
         NEW J, J = Between(KeysIn(t, W), p, i, l, r), NEW DJ, DJ = KidsIn(t, W)[l] \o KidsIn(t, W)[r],
         NEW q, NEW m, Takes(h, K, J, DJ, q, m)
  PROVE  Good(h, K, low, high, RotatedTree(t, l, r, p, i, m))
<1> DEFINE ks == KeysIn(t, W)
           ds == KidsIn(t, W)
           E == {b}
           x == m.left
           y == m.right
           z == NewKey(t.blk[p], i, m.up)
<1>1. Shape(K, low, high, W, t.root, ks, ds, lev, lo, hi, 0, 0, E) /\ Stored(h, K, t, W)
  BY DEF Pair, Form
<1>2. p \in W /\ ds[p] # <<>> /\ i \in 1 .. Len(ks[p]) /\ Brothers(ds, p, i, l, r) /\ b \in {l, r}
  BY DEF Pair
<1>3. StillEmpty(W, l, r, E, {})
  BY <1>2 DEF StillEmpty
<1>4. SameKeysBut(t, W, l, ks)
  BY ViewIs DEF SameKeysBut
<1>5. q \in 2 .. Len(J) - 1 /\ TreeNode(h, K, x) /\ TreeNode(h, K, y) /\ ArePartsOf(J, DJ, q, x, y)
  BY DEF Takes
<1>6. z = NewKey(t.blk[p], i, J[q])
  BY DEF Takes
<1>7. ds = KidsIn(t, W) /\ J = Between(ks, p, i, l, r) /\ DJ = ds[l] \o ds[r]
  OBVIOUS
<1> HIDE DEF ks, ds, E, x, y, z
<1>8. Good(h, K, low, high, Put(Put(Put(t, l, x), r, y), p, z))
  BY ONLY Ordered(K), Header(h), <1>1, <1>2, <1>3, <1>4, <1>5, <1>6, <1>7, Rotation, ZenonT(60)
<1> QED BY <1>8 DEF RotatedTree, x, y, z

\* The loop without a join: one block gives a key to the other if that is empty.
TurnedTree(t, l, r, p, i, k) ==
  LET left == t.blk[l]
      right == t.blk[r]
  IN IF left.keys = <<>> THEN RotatedTree(t, l, r, p, i, TakeFirst(left, k, right))
     ELSE IF right.keys = <<>> THEN RotatedTree(t, l, r, p, i, TakeLast(left, k, right))
     ELSE t

\* A thin block that can not be joined takes a key from its brother, whichever
\* it is.
LEMMA RotateStep ==
  ASSUME NEW K, Ordered(K), NEW h, Header(h), NEW low, NEW high, NEW t, NEW path, NEW b, Thin(h, K, low, high, t, path, b),
         NEW p, NEW i, NEW l, NEW r, IsPair(t, path, p, i, l, r), NEW k, k = t.blk[p].keys[i],
         ~CanJoin(t, t.blk[l], k, t.blk[r])
  PROVE  Good(h, K, low, high, TurnedTree(t, l, r, p, i, k))
<1>1. PICK W, lev, lo, hi : Pair(h, K, low, high, t, W, lev, lo, hi, b, Front(path), p, i, l, r)
  BY ONLY Ordered(K), Thin(h, K, low, high, t, path, b), IsPair(t, path, p, i, l, r), PairIs
<1> DEFINE ks == KeysIn(t, W)
           ds == KidsIn(t, W)
           F == Front(path)
           E == {b}
           left == t.blk[l]
           right == t.blk[r]
           J == Between(ks, p, i, l, r)
           DJ == ds[l] \o ds[r]
<1>2. Shape(K, low, high, W, t.root, ks, ds, lev, lo, hi, 0, 0, E) /\ Stored(h, K, t, W) /\ t \in Indexes(h, K)
  BY <1>1 DEF Pair, Form, Stored
<1>3. p \in W /\ l \in W /\ r \in W /\ ds[p] # <<>> /\ i \in 1 .. Len(ks[p]) /\ b \in {l, r}
  BY <1>1 DEF Pair
<1>4. t.blk[p].type = "U" /\ left.type = right.type /\ left.type \in {"U", "V"}
  BY <1>1 DEF Pair
<1>5. \A c \in W : ks[c] = t.blk[c].keys /\ ds[c] = KidsOf(t.blk[c])
  BY ONLY ViewIs
<1>6. Pair(h, K, low, high, t, W, lev, lo, hi, b, F, p, i, l, r)
  BY <1>1
<1>7. J = Between(KeysIn(t, W), p, i, l, r) /\ DJ = KidsIn(t, W)[l] \o KidsIn(t, W)[r]
  OBVIOUS
<1> HIDE DEF ks, ds, E, F
<1>8. ks[p] \in Seq(K) /\ k = ks[p][i] /\ k \in K
  <2>1. ks[p] \in Seq(K)
    BY ONLY Ordered(K), <1>2, <1>3, BlockFacts
  <2>2. k = ks[p][i]
    BY <1>3, <1>5
  <2> QED BY ONLY <1>3, <2>1, <2>2, ElementOfSeq
<1>9. J = left.keys \o <<k>> \o right.keys /\ DJ = KidsOf(left) \o KidsOf(right)
  BY ONLY <1>3, <1>5, <1>8 DEF Between
<1>10. TreeNode(h, K, left) /\ TreeNode(h, K, right)
  BY ONLY <1>2, <1>3 DEF Stored
<1>11. Apart2(h, K, left, k, right)
  <2>1. ASSUME left.type = "U" PROVE OneMore(left) /\ OneMore(right)
    <3>1. ks[l] = left.keys /\ ks[r] = right.keys /\ ds[l] = left.kids /\ ds[r] = right.kids
      BY <1>3, <1>4, <1>5, <2>1 DEF KidsOf
    <3>2. left.kids # <<>> /\ right.kids # <<>>
      BY <1>4, <1>10, <2>1 DEF TreeNode
    <3>3. Len(ds[l]) = Len(ks[l]) + 1
      <4>1. ds[l] # <<>>
        BY ONLY <3>1, <3>2
      <4> QED BY ONLY Ordered(K), <1>2, <1>3, <4>1, BlockFacts
    <3>4. Len(ds[r]) = Len(ks[r]) + 1
      <4>1. ds[r] # <<>>
        BY ONLY <3>1, <3>2
      <4> QED BY ONLY Ordered(K), <1>2, <1>3, <4>1, BlockFacts
    <3> QED BY ONLY <3>1, <3>3, <3>4 DEF OneMore
  <2> HIDE DEF left, right
  <2> QED BY ONLY <1>4, <1>8, <1>10, <2>1 DEF Apart2
<1>12. ~CanJoin(t, left, k, right)
  OBVIOUS
<1> HIDE DEF J, DJ
<1>13. J \in Seq(K) /\ Len(J) = Len(left.keys) + 1 + Len(right.keys) /\ Len(J) >= 3
  <2>1. J = AllKeys(left.keys, k, right.keys)
    BY ONLY <1>9 DEF AllKeys
  <2>2. t \in Indexes(h, K) /\ k \in K
    BY ONLY <1>2, <1>8
  <2> HIDE DEF left, right
  <2>3. IsWide(K, left, right, J)
    BY ONLY Header(h), <2>1, <2>2, <1>10, <1>12, NotJoined
  <2> QED BY ONLY <2>3 DEF IsWide
<1>14. TurnedTree(t, l, r, p, i, k) =
         IF left.keys = <<>> THEN RotatedTree(t, l, r, p, i, TakeFirst(left, k, right))
         ELSE IF right.keys = <<>> THEN RotatedTree(t, l, r, p, i, TakeLast(left, k, right))
         ELSE t
  BY DEF TurnedTree
<1>15. Len(left.keys) \in Nat /\ Len(right.keys) \in Nat /\ left.keys \in Seq(K) /\ right.keys \in Seq(K)
  <2>1. left.keys \in Seq(K) /\ right.keys \in Seq(K)
    BY ONLY <1>10, NodeParts
  <2> QED BY ONLY <2>1, LenProperties
<1>16. left.keys # <<>> /\ right.keys # <<>> => Good(h, K, low, high, t)
  <2> SUFFICES ASSUME left.keys # <<>>, right.keys # <<>> PROVE Good(h, K, low, high, t)
    OBVIOUS
  <2>1. ks[l] # <<>> /\ ks[r] # <<>>
    BY <1>3, <1>5
  <2> DEFINE E0 == {}
  <2>2. \A c \in W : ks[c] = <<>> => c \in E0
    <3>1. \A c \in W : ks[c] = <<>> => c \in E
      BY ONLY <1>2 DEF Shape
    <3> QED BY ONLY <1>3, <2>1, <3>1 DEF E
  <2> HIDE DEF E0
  <2>3. Shape(K, low, high, W, t.root, ks, ds, lev, lo, hi, 0, 0, E0)
    BY ONLY <1>2, <2>2 DEF Shape
  <2>4. Form(h, K, low, high, t, W, lev, lo, hi, 0, 0, E0)
    BY ONLY <1>2, <2>3 DEF Form, ks, ds
  <2> QED BY ONLY <2>4 DEF Good, E0
<1> HIDE DEF left, right
<1>17. ASSUME left.keys = <<>> PROVE Good(h, K, low, high, RotatedTree(t, l, r, p, i, TakeFirst(left, k, right)))
  <2> DEFINE m == TakeFirst(left, k, right)
  <2>1. Len(right.keys) >= 2
    <3> DEFINE a == Len(left.keys)
               c == Len(right.keys)
               n == Len(J)
    <3>1. a = 0 /\ c \in Nat /\ n = a + 1 + c /\ n >= 3
      BY ONLY <1>13, <1>15, <1>17
    <3> HIDE DEF a, c, n
    <3>2. c >= 2
      BY ONLY <3>1
    <3> QED BY ONLY <3>2 DEF c
  <2>2. m = TakeFirst(left, k, right)
    OBVIOUS
  <2> HIDE DEF m
  <2>3. Takes(h, K, J, DJ, 2, m)
    BY ONLY Header(h), <1>2, <1>9, <1>11, <1>17, <2>1, <2>2, TakesFirst
  <2>4. Good(h, K, low, high, RotatedTree(t, l, r, p, i, m))
    BY ONLY Ordered(K), Header(h), <1>6, <1>7, <2>3, TakenGood
  <2> QED BY ONLY <2>2, <2>4
<1>18. ASSUME right.keys = <<>> PROVE Good(h, K, low, high, RotatedTree(t, l, r, p, i, TakeLast(left, k, right)))
  <2> DEFINE m == TakeLast(left, k, right)
             q == Len(left.keys)
  <2>1. q >= 2 /\ q = Len(left.keys)
    <3> DEFINE c == Len(right.keys)
               n == Len(J)
    <3>1. c = 0 /\ q \in Nat /\ n = q + 1 + c /\ n >= 3
      BY ONLY <1>13, <1>15, <1>18
    <3>0. q = Len(left.keys)
      OBVIOUS
    <3> HIDE DEF q, c, n
    <3>2. q >= 2
      BY ONLY <3>1
    <3> QED BY ONLY <3>0, <3>2
  <2>2. m = TakeLast(left, k, right)
    OBVIOUS
  <2> HIDE DEF m, q
  <2>3. Takes(h, K, J, DJ, q, m)
    BY ONLY Header(h), <1>2, <1>9, <1>11, <1>18, <2>1, <2>2, TakesLast
  <2>4. Good(h, K, low, high, RotatedTree(t, l, r, p, i, m))
    BY ONLY Ordered(K), Header(h), <1>6, <1>7, <2>3, TakenGood
  <2> QED BY ONLY <2>2, <2>4
<1> QED BY ONLY <1>14, <1>16, <1>17, <1>18

-----------------------------------------------------------------------------
(***************************************************************************)
(* The turns of the loop of xiodelete.                                     *)
(***************************************************************************)
\* After n of N turns the tree is sound, or a block may be thin with N - n
\* steps of the way left.
BalanceHas(h, K, low, high, N, n, u) ==
  IF u.more THEN Thin(h, K, low, high, u.t, u.path, u.b) /\ Len(u.path) + n = N
            ELSE Good(h, K, low, high, u.t)
IsTurn(h, K, u) == u \in [t : Indexes(h, K), path : Seq([blk : Nat, off : Nat]), b : Nat, more : BOOLEAN]

\* The types of a tree with a thin block.
LEMMA ThinTypes ==
  ASSUME NEW K, NEW h, NEW low, NEW high, NEW t, NEW path, NEW b, Thin(h, K, low, high, t, path, b)
  PROVE  t \in Indexes(h, K) /\ path \in Seq([blk : Nat, off : Nat]) /\ b \in Nat
<1>1. PICK W, lev, lo, hi : Form(h, K, low, high, t, W, lev, lo, hi, 0, 0, {b})
                            /\ Leg(W, KeysIn(t, W), KidsIn(t, W), lev, t.root, path, b)
  BY DEF Thin
<1>2. t \in Indexes(h, K) /\ W \in SUBSET (Nat \ {0})
  BY <1>1 DEF Form, Stored, Shape, ShapeTypes
<1>3. path \in Seq([blk : Nat, off : Nat]) /\ b \in W
  BY <1>1 DEF Leg
<1> QED BY <1>2, <1>3

\* One turn of the loop of xiodelete: the tree is sound, or the parent may be
\* thin one level up.
LEMMA BalanceTurn ==
  ASSUME NEW K, Ordered(K), NEW h, Header(h), NEW low, NEW high, NEW N, N \in Nat, NEW n, n \in 0 .. N - 1,
         NEW u, IsTurn(h, K, u), BalanceHas(h, K, low, high, N, n, u)
  PROVE  IsTurn(h, K, Balance(u)) /\ BalanceHas(h, K, low, high, N, n + 1, Balance(u))
<1>1. CASE ~u.more
  BY ONLY <1>1, IsTurn(h, K, u), BalanceHas(h, K, low, high, N, n, u) DEF Balance, BalanceHas
<1>2. CASE u.more
  <2> DEFINE t == u.t
             path == u.path
             b == u.b
             v == Balance(u)
             s == Last(path)
             p == s.blk
             i == IF AtEnd(t, s) THEN s.off - 1 ELSE s.off
             k == t.blk[p].keys[i]
             l == t.blk[p].kids[i]
             r == t.blk[p].kids[i + 1]
             x == Joined(t.blk[l], k, t.blk[r])
             z == Branch(RemoveAt(t.blk[p].keys, i), RemoveAt(t.blk[p].kids, i + 1))
             t2 == JoinedTree(t, l, r, p, x, z)
             t3 == TurnedTree(t, l, r, p, i, k)
             f == Front(path)
  <2>1. Thin(h, K, low, high, t, path, b) /\ Len(path) + n = N
    BY ONLY <1>2, BalanceHas(h, K, low, high, N, n, u) DEF BalanceHas
  <2>2. u = [t |-> t, path |-> path, b |-> b, more |-> TRUE] /\ path \in Seq([blk : Nat, off : Nat]) /\ b \in Nat
    BY ONLY <1>2, IsTurn(h, K, u) DEF IsTurn
  <2>3. path # <<>>
    <3>1. Len(path) \in Nat
      BY ONLY <2>2, LenProperties
    <3>2. Len(path) # 0
      BY ONLY <2>1, <3>1, N \in Nat, n \in 0 .. N - 1
    <3> QED BY ONLY <3>2
  <2>4. IsPair(t, path, p, i, l, r)
    BY ONLY <2>3 DEF IsPair
  <2>5. v = IF CanJoin(t, t.blk[l], k, t.blk[r])
            THEN [t |-> t2, path |-> f, b |-> p, more |-> TRUE]
            ELSE [u EXCEPT !.more = FALSE, !.t = t3]
    BY ONLY <1>2 DEF Balance, JoinedTree, TurnedTree, RotatedTree, NewKey
  <2>6. k = t.blk[p].keys[i] /\ x = Joined(t.blk[l], k, t.blk[r])
        /\ z = Branch(RemoveAt(t.blk[p].keys, i), RemoveAt(t.blk[p].kids, i + 1))
    OBVIOUS
  <2> HIDE DEF t3, x, z, k, l, r, i, p, s
  <2>7. CASE CanJoin(t, t.blk[l], k, t.blk[r])
    <3>0. CanJoin(t, t.blk[l], k, t.blk[r])
      BY <2>7
    <3> HIDE DEF t, path, b
    <3>1. Thin(h, K, low, high, t2, f, p)
      BY ONLY Ordered(K), Header(h), <2>1, <2>4, <2>6, <3>0, JoinStep
    <3>2. v = [t |-> t2, path |-> f, b |-> p, more |-> TRUE]
      BY ONLY <2>5, <3>0
    <3> HIDE DEF t2
    <3>3. t2 \in Indexes(h, K) /\ f \in Seq([blk : Nat, off : Nat]) /\ p \in Nat
      BY ONLY <3>1, ThinTypes
    <3>4. Len(f) + (n + 1) = N
      <4>1. Len(f) = Len(path) - 1 /\ Len(path) \in Nat
        BY ONLY <2>2, <2>3, FrontIs
      <4> HIDE DEF f
      <4> QED BY ONLY <2>1, <4>1, n \in 0 .. N - 1, N \in Nat
    <3> HIDE DEF f
    <3> QED BY ONLY <3>1, <3>2, <3>3, <3>4 DEF IsTurn, BalanceHas, v
  <2>8. CASE ~CanJoin(t, t.blk[l], k, t.blk[r])
    <3>0. ~CanJoin(t, t.blk[l], k, t.blk[r])
      BY <2>8
    <3>2. v = [t |-> t3, path |-> path, b |-> b, more |-> FALSE]
      BY ONLY <2>2, <2>5, <3>0
    <3> HIDE DEF t, path, b
    <3>1. Good(h, K, low, high, t3)
      BY ONLY Ordered(K), Header(h), <2>1, <2>4, <2>6, <3>0, RotateStep DEF t3
    <3> HIDE DEF t3
    <3>3. t3 \in Indexes(h, K)
      BY ONLY <3>1, GoodTypes
    <3>4. path \in Seq([blk : Nat, off : Nat]) /\ b \in Nat
      BY ONLY <2>2
    <3>5. IsTurn(h, K, v)
      BY ONLY <3>2, <3>3, <3>4 DEF IsTurn
    <3>6. BalanceHas(h, K, low, high, N, n + 1, v)
      BY ONLY <3>1, <3>2 DEF BalanceHas
    <3> QED BY ONLY <3>5, <3>6 DEF v
  <2> QED BY ONLY <2>7, <2>8
<1> QED BY ONLY <1>1, <1>2, IsTurn(h, K, u) DEF IsTurn

\* A top that lost its last key goes, whatever joined the blocks below it.
LEMMA CollapseTop ==
  ASSUME NEW K, Ordered(K), NEW h, NEW low, NEW high, NEW t, NEW path, path = <<>>, NEW b, Thin(h, K, low, high, t, path, b)
  PROVE  Good(h, K, low, high, IF t.blk[b].keys = <<>> THEN [Free(t, b) EXCEPT !.root = t.blk[b].kids[1]] ELSE t)
<1>1. PICK W, lev, lo, hi : Form(h, K, low, high, t, W, lev, lo, hi, 0, 0, {b})
                            /\ Leg(W, KeysIn(t, W), KidsIn(t, W), lev, t.root, path, b)
  BY DEF Thin
<1> DEFINE ks == KeysIn(t, W)
           ds == KidsIn(t, W)
           a == t.root
           E == {b}
<1>2. Shape(K, low, high, W, a, ks, ds, lev, lo, hi, 0, 0, E) /\ Stored(h, K, t, W) /\ Leg(W, ks, ds, lev, a, path, b)
  BY <1>1 DEF Form
<1>3. \A c \in W : ks[c] = t.blk[c].keys /\ ds[c] = KidsOf(t.blk[c])
  BY ONLY ViewIs
<1>4. t.blk[b].keys = <<>> => t.blk[b].type = "U"
  BY DEF Thin
<1> HIDE DEF ks, ds, E
<1>5. a = b /\ b \in W
  <2>1. a = b
    BY ONLY <1>2, path = <<>>, LegEmpty
  <2>2. b \in W
    BY ONLY <1>2 DEF Leg
  <2> QED BY ONLY <2>1, <2>2
<1>6. CASE t.blk[b].keys # <<>>
  <2> DEFINE E0 == {}
  <2>1. \A c \in W : ks[c] = <<>> => c \in E0
    <3>1. \A c \in W : ks[c] = <<>> => c \in E
      BY ONLY <1>2 DEF Shape
    <3> QED BY ONLY <1>3, <1>5, <1>6, <3>1 DEF E
  <2> HIDE DEF E0
  <2>2. Shape(K, low, high, W, a, ks, ds, lev, lo, hi, 0, 0, E0)
    BY ONLY <1>2, <2>1 DEF Shape
  <2>3. Form(h, K, low, high, t, W, lev, lo, hi, 0, 0, E0)
    BY ONLY <1>2, <2>2 DEF Form, ks, ds
  <2>4. Good(h, K, low, high, t)
    BY ONLY <2>3 DEF Good, E0
  <2> QED BY ONLY <1>6, <2>4
<1>7. CASE t.blk[b].keys = <<>>
  <2> DEFINE W2 == W \ {b}
             u == Free(t, b)
             c == t.blk[b].kids[1]
             t2 == [u EXCEPT !.root = c]
             ks2 == KeysIn(t2, W2)
             ds2 == KidsIn(t2, W2)
             E2 == E \ {a}
  <2>0. t.blk[b].type = "U" /\ ks[a] = <<>> /\ ds[a] = t.blk[b].kids /\ ds[a] # <<>>
    <3>1. t.blk[b].type = "U"
      BY ONLY <1>4, <1>7
    <3>2. t.blk[b].kids # <<>>
      BY ONLY <1>2, <1>5, <3>1, StoredBlock
    <3> QED BY ONLY <1>3, <1>5, <1>7, <3>1, <3>2 DEF KidsOf
  <2>1. Stored(h, K, u, W2) /\ \A d \in W : d # b => u.blk[d] = t.blk[d]
    BY ONLY <1>2, <1>5, StoredFree
  <2>2. W2 = W \ {a} /\ c = ds[a][1]
    BY <1>5, <2>0
  <2> HIDE DEF u, W2
  <2>3. \A d \in W2 : ks[d] = u.blk[d].keys /\ ds[d] = KidsOf(u.blk[d])
    BY <1>3, <1>5, <2>1, <2>2
  <2>4. DOMAIN ks = W
    BY ONLY ViewIs DEF ks
  <2> DEFINE k2 == [d \in W2 |-> ks[d]]
             d2 == [d \in W2 |-> ds[d]]
  <2>5. c \in W2 /\ \E lev2 \in [W2 -> Nat], lo2 \in [W2 -> K], hi2 \in [W2 -> K] :
          Shape(K, low, high, W2, c, k2, d2, lev2, lo2, hi2, 0, 0, E2)
    <3>1. k2 = Only(ks, W2) /\ d2 = Only(ds, W2)
      BY DEF Only
    <3>2. E2 = E \ {a}
      OBVIOUS
    <3> HIDE DEF k2, d2, c, E2, a
    <3>3. Shape(K, low, high, W, a, ks, ds, lev, lo, hi, 0, 0, E) /\ ks[a] = <<>> /\ ds[a] # <<>> /\ W2 = W \ {a}
      BY ONLY <1>2, <2>0, <2>2
    <3>4. IsDrop(K, low, high, W2, k2, d2, ds[a][1], E \ {a})
      BY ONLY Ordered(K), <3>1, <3>3, DropTop
    <3> QED BY ONLY <2>2, <3>2, <3>4 DEF IsDrop
  <2>6. PICK lev2 \in [W2 -> Nat], lo2 \in [W2 -> K], hi2 \in [W2 -> K] :
          Shape(K, low, high, W2, c, k2, d2, lev2, lo2, hi2, 0, 0, E2)
    BY <2>5
  <2>7. c \in Nat
    <3>1. W \subseteq Nat
      BY ONLY <1>2 DEF Shape, ShapeTypes
    <3> QED BY <2>2, <2>5, <3>1
  <2>8. Stored(h, K, t2, W2) /\ t2.root = c /\ t2.blk = u.blk
    <3> HIDE DEF c
    <3> QED BY ONLY <2>1, <2>7, StoredRoot
  <2> HIDE DEF t2, c
  <2>9. ks2 = k2 /\ ds2 = d2
    BY <2>3, <2>8 DEF KeysIn, KidsIn
  <2>10. E2 = {}
    BY <1>5 DEF E
  <2> HIDE DEF k2, d2, E2
  <2>11. Shape(K, low, high, W2, t2.root, ks2, ds2, lev2, lo2, hi2, 0, 0, {})
    BY ONLY <2>6, <2>8, <2>9, <2>10
  <2>12. Good(h, K, low, high, t2)
    BY ONLY <2>8, <2>11 DEF Good, Form
  <2> QED BY <1>7, <2>12 DEF t2, c, u
<1> QED BY ONLY <1>6, <1>7

-----------------------------------------------------------------------------
(***************************************************************************)
(* All turns of xiodelete: no block but the root is empty.                 *)
(***************************************************************************)
\* Whatever is joined on the way up, it ends in a good index.
THEOREM Rebalanced ==
  ASSUME NEW K, Ordered(K), NEW h, Header(h), NEW low, NEW high,
         NEW t, NEW path, NEW b, Thin(h, K, low, high, t, path, b)
  PROVE  Good(h, K, low, high, Collapse(Balanced(t, path, b)))
<1> DEFINE U == [t : Indexes(h, K), path : Seq([blk : Nat, off : Nat]), b : Nat, more : BOOLEAN]
           N == Len(path)
           I == {q \in (0 .. N) \X U : BalanceHas(h, K, low, high, N, q[1], q[2])}
           a == [t |-> t, path |-> path, b |-> b, more |-> TRUE]
           g == [q \in I |-> Balance(q[2])]
<1>1. t \in Indexes(h, K) /\ path \in Seq([blk : Nat, off : Nat]) /\ b \in Nat
  BY ONLY Thin(h, K, low, high, t, path, b), ThinTypes
<1>2. N \in Nat
  BY <1>1
<1>3. <<0, a>> \in I
  <2>1. a \in U
    BY <1>1
  <2>2. BalanceHas(h, K, low, high, N, 0, a)
    <3>1. Len(path) + 0 = N
      BY <1>1
    <3> HIDE DEF N
    <3> QED BY <3>1 DEF BalanceHas
  <2>3. 0 \in 0 .. N
    BY ONLY <1>2
  <2> HIDE DEF a, U, N
  <2> QED BY <2>1, <2>2, <2>3
<1>4. ASSUME NEW n \in 0 .. N - 1, NEW u \in U, <<n, u>> \in I
      PROVE  g[<<n, u>>] = Balance(u) /\ <<n + 1, g[<<n, u>>]>> \in I
  <2>1. BalanceHas(h, K, low, high, N, n, u)
    BY <1>4
  <2>2. IsTurn(h, K, u)
    BY DEF IsTurn
  <2>3. n + 1 \in 0 .. N
    BY ONLY <1>2, n \in 0 .. N - 1
  <2> HIDE DEF N
  <2>4. IsTurn(h, K, Balance(u)) /\ BalanceHas(h, K, low, high, N, n + 1, Balance(u))
    BY ONLY Ordered(K), Header(h), <1>2, n \in 0 .. N - 1, <2>1, <2>2, BalanceTurn
  <2>5. Balance(u) \in U
    BY <2>4 DEF IsTurn
  <2>6. g[<<n, u>>] = Balance(u)
    <3> HIDE DEF I
    <3> QED BY <1>4
  <2> HIDE DEF U, g
  <2> QED BY <2>3, <2>4, <2>5, <2>6
<1>5. I \in SUBSET ((0 .. N) \X U)
  OBVIOUS
<1> HIDE DEF I, g, U, N, a
<1>6. \E f \in [0 .. N -> U] : LoopOf(f, N, a, g) /\ \A n \in 0 .. N : <<n, f[n]>> \in I
  BY ONLY <1>2, <1>3, <1>4, <1>5, UpTo
<1>7. PICK f \in [0 .. N -> U] : LoopOf(f, N, a, g) /\ \A n \in 0 .. N : <<n, f[n]>> \in I
  BY <1>6
<1>8. f[0] = a /\ \A n \in 0 .. N - 1 : f[n + 1] = Balance(f[n])
  <2>1. f[0] = a /\ \A n \in 0 .. N - 1 : f[n + 1] = g[<<n, f[n]>>]
    BY <1>7 DEF LoopOf
  <2>2. ASSUME NEW n \in 0 .. N - 1 PROVE f[n + 1] = Balance(f[n])
    <3>1. n \in 0 .. N
      BY <1>2
    <3>2. f[n] \in U /\ <<n, f[n]>> \in I
      BY <1>7, <3>1
    <3> QED BY <1>4, <2>1, <3>2
  <2> QED BY <2>1, <2>2
<1> DEFINE Rec(W) == W = [n \in 0 .. Len(path) |->
                          IF n = 0 THEN [t |-> t, path |-> path, b |-> b, more |-> TRUE]
                                   ELSE Balance(W[n - 1])]
<1>9. Rec(f)
  <2>1. f = [n \in 0 .. N |-> f[n]]
    BY <1>7
  <2>2. \A n \in 0 .. N : f[n] = IF n = 0 THEN a ELSE Balance(f[n - 1])
    <3> TAKE n \in 0 .. N
    <3>1. n # 0 => n - 1 \in 0 .. N - 1 /\ n - 1 + 1 = n
      BY <1>2
    <3> QED BY <1>8, <3>1
  <2>3. f = [n \in 0 .. N |-> IF n = 0 THEN a ELSE Balance(f[n - 1])]
    BY ONLY <2>1, <2>2
  <2> QED BY <2>3 DEF N, a
<1> DEFINE W == CHOOSE w : Rec(w)
<1>10. Rec(W)
  <2> HIDE DEF Rec
  <2> QED BY <1>9
<1>11. Balanced(t, path, b) = W[Len(path)]
  BY DEF Balanced
<1> HIDE DEF W
<1>12. W[0] = a /\ \A n \in 0 .. N - 1 : W[n + 1] = Balance(W[n])
  <2>1. \A n \in 0 .. N : W[n] = IF n = 0 THEN a ELSE Balance(W[n - 1])
    BY <1>10 DEF N, a
  <2> HIDE DEF Rec
  <2>2. W[0] = a
    BY <1>2, <2>1
  <2>3. ASSUME NEW n \in 0 .. N - 1 PROVE W[n + 1] = Balance(W[n])
    <3>1. n + 1 \in 0 .. N /\ n + 1 # 0 /\ n + 1 - 1 = n
      BY <1>2
    <3> QED BY <2>1, <3>1
  <2> QED BY <2>2, <2>3
<1> HIDE DEF Rec
<1> DEFINE T == {n \in 0 .. N : W[n] = f[n]}
<1>13. 0 .. N \subseteq T
  <2>1. 0 \in T
    BY <1>2, <1>8, <1>12
  <2>2. ASSUME NEW n \in 0 .. N - 1, n \in T PROVE n + 1 \in T
    <3>1. n + 1 \in 0 .. N
      BY <1>2
    <3> QED BY <1>8, <1>12, <2>2, <3>1
  <2> HIDE DEF T
  <2> QED BY <1>2, <2>1, <2>2, NumbersUpTo
<1> DEFINE w == W[N]
<1>14. <<N, w>> \in I
  <2>1. N \in 0 .. N
    BY <1>2
  <2>2. W[N] = f[N]
    BY <1>13, <2>1
  <2> QED BY <1>7, <2>1, <2>2
<1>15. BalanceHas(h, K, low, high, N, N, w) /\ w \in U
  <2> HIDE DEF w
  <2> QED BY <1>14 DEF I
<1>16. Collapse(Balanced(t, path, b)) = Collapse(w)
  BY <1>11 DEF N
<1> HIDE DEF w
<1>17. CASE ~w.more
  <2>1. Good(h, K, low, high, w.t)
    BY ONLY <1>15, <1>17 DEF BalanceHas
  <2>2. Collapse(w) = w.t
    BY ONLY <1>17 DEF Collapse
  <2> QED BY ONLY <1>16, <2>1, <2>2
<1>18. CASE w.more
  <2> DEFINE z == w.path
             t2 == w.t
             c == w.b
  <2>1. Thin(h, K, low, high, t2, z, c) /\ Len(z) + N = N /\ z \in Seq([blk : Nat, off : Nat])
    BY ONLY <1>15, <1>18 DEF BalanceHas, U
  <2> DEFINE y == IF t2.blk[c].keys = <<>> THEN [Free(t2, c) EXCEPT !.root = t2.blk[c].kids[1]] ELSE t2
  <2>2. Collapse(w) = y
    BY ONLY <1>18 DEF Collapse
  <2> HIDE DEF z, t2, c
  <2>3. z = <<>>
    <3>1. Len(z) \in Nat
      BY <2>1
    <3>2. Len(z) = 0
      BY ONLY <1>2, <2>1, <3>1
    <3> QED BY ONLY <2>1, <3>2
  <2>4. Good(h, K, low, high, y)
    BY ONLY Ordered(K), <2>1, <2>3, CollapseTop
  <2> QED BY ONLY <1>16, <2>2, <2>4
<1> QED BY ONLY <1>17, <1>18

-----------------------------------------------------------------------------
(***************************************************************************)
(* The first leaf below a block.                                           *)
(***************************************************************************)
\* An index is lower than it has blocks: every level has one.
LEMMA HeightIs ==
  ASSUME NEW K, Ordered(K), NEW h, NEW low, NEW high, NEW t, NEW W, NEW lev, NEW lo, NEW hi, NEW E,
         Form(h, K, low, high, t, W, lev, lo, hi, 0, 0, E)
  PROVE  t.high \in Nat /\ lev[t.root] + 1 <= t.high /\ \A c \in W : lev[c] <= t.high
<1> DEFINE ks == KeysIn(t, W)
           ds == KidsIn(t, W)
           a == t.root
           H == lev[a]
<1>1. Shape(K, low, high, W, a, ks, ds, lev, lo, hi, 0, 0, E) /\ Stored(h, K, t, W) /\ t \in Indexes(h, K)
  BY DEF Form, Stored
<1>2. lev \in [W -> Nat] /\ a \in W /\ t.high \in Nat
  <2>1. lev \in [W -> Nat] /\ a \in W
    BY ONLY <1>1 DEF Shape, ShapeTypes
  <2>2. t.high \in Nat
    BY ONLY <1>1 DEF Indexes
  <2> QED BY <2>1, <2>2
<1> HIDE DEF ks, ds, a
<1>3. H \in Nat /\ \A c \in W : lev[c] \in Nat /\ lev[c] <= H
  <2>1. \A c \in W : lev[c] \in Nat /\ lev[c] <= H
    BY ONLY Ordered(K), <1>1, BlockFacts
  <2> QED BY ONLY <1>2, <2>1
<1>4. \E c \in W : lev[c] = 0
  <2> DEFINE S == {lev[c] : c \in W}
  <2>1. S \in SUBSET Nat /\ S # {}
    BY <1>2
  <2>2. PICK m \in S : \A n \in S : m <= n
    BY ONLY <2>1, LeastNumber
  <2>3. PICK c \in W : lev[c] = m
    BY <2>2
  <2>4. m = 0
    <3>1. CASE ds[c] = <<>>
      BY ONLY Ordered(K), <1>1, <2>3, <3>1, BlockFacts
    <3>2. CASE ds[c] # <<>>
      <4>1. 1 \in 1 .. Len(ks[c]) + 1
        <5>1. Len(ks[c]) \in Nat
          BY ONLY Ordered(K), <1>1, BlockFacts
        <5> QED BY ONLY <5>1
      <4> DEFINE i == 1
      <4>2. i \in 1 .. Len(ks[c]) + 1
        BY <4>1
      <4> HIDE DEF i
      <4>3. ds[c][i] \in W /\ lev[ds[c][i]] + 1 = lev[c] /\ lev[ds[c][i]] \in Nat
        BY ONLY Ordered(K), <1>1, <3>2, <4>2, PlaceFacts
      <4>4. m <= lev[ds[c][i]]
        BY <2>2, <4>3
      <4>5. FALSE
        <5> DEFINE w == lev[ds[c][i]]
        <5>1. w \in Nat /\ w + 1 = m /\ m <= w
          BY <2>3, <4>3, <4>4
        <5> HIDE DEF w
        <5> QED BY ONLY <5>1
      <4> QED BY <4>5
    <3> QED BY <3>1, <3>2
  <2> QED BY <2>3, <2>4
<1>5. \A j \in 0 .. H : \E c \in W : lev[c] = j
  <2> TAKE j \in 0 .. H
  <2>1. PICK c \in W : lev[c] = 0
    BY <1>4
  <2>2. j \in Nat /\ lev[c] <= j /\ j <= lev[a]
    BY <1>3, <2>1
  <2>3. \E b \in W : lev[b] = j /\ Covers(ks, lev, lo, hi, b, c)
    BY ONLY Ordered(K), <1>1, <2>2, AncestorAt
  <2> QED BY <2>3
<1> HIDE DEF H
<1>6. lev \in Surjection(W, 0 .. H)
  <2>1. lev \in [W -> 0 .. H]
    <3>1. \A c \in W : lev[c] \in 0 .. H
      BY ONLY <1>3
    <3> QED BY ONLY <1>2, <3>1
  <2> QED BY <1>5, <2>1 DEF Surjection
<1>7. W \in SUBSET (1 .. t.high)
  BY ONLY <1>1, StoredBlock
<1> DEFINE n == t.high
<1>8. IsFiniteSet(1 .. n) /\ Cardinality(1 .. n) = n
  <2>1. n \in Nat
    BY <1>2
  <2> HIDE DEF n
  <2>2. 1 \in Int /\ n \in Int
    BY ONLY <2>1
  <2>3. IsFiniteSet(1 .. n) /\ Cardinality(1 .. n) = IF 1 > n THEN 0 ELSE n - 1 + 1
    BY ONLY <2>2, FS_Interval
  <2> QED BY ONLY <2>1, <2>3
<1>9. IsFiniteSet(W) /\ Cardinality(W) <= n
  <2>1. IsFiniteSet(W) /\ Cardinality(W) <= Cardinality(1 .. n)
    BY ONLY <1>7, <1>8, FS_Subset
  <2> QED BY ONLY <1>8, <2>1
<1>10. Cardinality(0 .. H) <= Cardinality(W)
  BY ONLY <1>6, <1>9, FS_Surjection
<1>11. Cardinality(0 .. H) = H + 1
  <2>1. 0 \in Int /\ H \in Int
    BY ONLY <1>3
  <2>2. Cardinality(0 .. H) = IF 0 > H THEN 0 ELSE H - 0 + 1
    BY ONLY <2>1, FS_Interval
  <2> QED BY ONLY <1>3, <2>2
<1>12. Cardinality(W) \in Nat
  BY ONLY <1>9, FS_CardinalityType
<1>13. n \in Nat
  BY <1>2
<1> HIDE DEF n
<1>14. H + 1 <= n
  BY ONLY <1>3, <1>9, <1>10, <1>11, <1>12, <1>13
<1>15. \A c \in W : lev[c] <= n
  BY ONLY <1>3, <1>13, <1>14
<1> QED BY ONLY <1>13, <1>14, <1>15 DEF n, H, a

-----------------------------------------------------------------------------
(***************************************************************************)
(* The way to the first leaf below a kid.                                  *)
(***************************************************************************)
\* The blocks that the first children make one way down of.
FirstNext(t) == [c \in DOMAIN t.blk |-> IF t.blk[c].type = "U" THEN t.blk[c].kids[1] ELSE c]

\* From a branch to its first kid: one level lower, with the same lower bound.
LEMMA FirstStep ==
  ASSUME NEW K, Ordered(K), NEW h, NEW low, NEW high, NEW t, NEW W, NEW lev, NEW lo, NEW hi, NEW E,
         Form(h, K, low, high, t, W, lev, lo, hi, 0, 0, E), NEW x, x \in W
  PROVE  /\ x \in DOMAIN t.blk /\ FirstNext(t)[x] \in W /\ lo[FirstNext(t)[x]] = lo[x]
         /\ FirstNext(t)[x] = x => lev[x] = 0
         /\ FirstNext(t)[x] # x =>
              /\ lev[FirstNext(t)[x]] + 1 = lev[x] /\ lev[FirstNext(t)[x]] < lev[x]
              /\ LeadsTo(W, KeysIn(t, W), KidsIn(t, W), Spot(x, 1), FirstNext(t)[x])
<1> DEFINE ks == KeysIn(t, W)
           ds == KidsIn(t, W)
           a == t.root
           c == FirstNext(t)[x]
<1>1. Shape(K, low, high, W, a, ks, ds, lev, lo, hi, 0, 0, E) /\ Stored(h, K, t, W) /\ t \in Indexes(h, K)
  BY DEF Form, Stored
<1>2. x \in DOMAIN t.blk /\ t.blk[x].type \in {"U", "V"}
  <2>1. \E dl, fl : Whole(t, W, dl, fl)
    BY ONLY <1>1 DEF Stored
  <2>2. x \in DOMAIN t.blk
    BY ONLY x \in W, <1>1, <2>1, WholeParts
  <2> QED BY ONLY <1>1, <2>2, x \in W, StoredBlock
<1>3. ds[x] = KidsOf(t.blk[x])
  BY ONLY ViewIs, x \in W
<1>4. c = IF t.blk[x].type = "U" THEN t.blk[x].kids[1] ELSE x
  BY <1>2 DEF FirstNext
<1>5. t.blk[x].type = "U" => t.blk[x].kids # <<>>
  BY ONLY <1>1, x \in W, StoredBlock
<1> HIDE DEF ks, ds, a, c
<1>6. CASE t.blk[x].type # "U"
  <2>1. ds[x] = <<>> /\ c = x
    BY ONLY <1>2, <1>3, <1>4, <1>6 DEF KidsOf
  <2>2. lev[x] = 0
    BY ONLY Ordered(K), <1>1, <2>1, x \in W, BlockFacts
  <2> QED BY ONLY <1>2, <2>1, <2>2, x \in W DEF c
<1>7. CASE t.blk[x].type = "U"
  <2> DEFINE i == 1
  <2>1. ds[x] # <<>> /\ c = ds[x][i]
    BY ONLY <1>3, <1>4, <1>5, <1>7 DEF KidsOf
  <2>2. i \in 1 .. Len(ks[x]) + 1
    <3>1. Len(ks[x]) \in Nat
      BY ONLY Ordered(K), <1>1, x \in W, BlockFacts
    <3> QED BY ONLY <3>1
  <2>3. LowerAt(ks[x], lo[x], i) = lo[x]
    BY DEF LowerAt
  <2>3a. i = 1
    OBVIOUS
  <2> HIDE DEF i
  <2>4. c \in W /\ lev[c] + 1 = lev[x] /\ lev[c] \in Nat /\ lo[c] = lo[x]
    <3>1. /\ ds[x][i] \in W /\ lev[ds[x][i]] + 1 = lev[x] /\ lev[ds[x][i]] \in Nat
          /\ lo[ds[x][i]] = LowerAt(ks[x], lo[x], i)
      BY ONLY Ordered(K), <1>1, <2>1, <2>2, x \in W, PlaceFacts
    <3> QED BY ONLY <2>1, <2>3, <3>1
  <2>5. lev[c] < lev[x] /\ c # x
    <3> DEFINE u == lev[c]
               v == lev[x]
    <3>1. u \in Nat /\ u + 1 = v
      BY <2>4
    <3> HIDE DEF u, v
    <3>2. u < v /\ u # v
      BY ONLY <3>1
    <3> QED BY ONLY <3>2 DEF u, v
  <2>6. LeadsTo(W, ks, ds, Spot(x, 1), c)
    BY ONLY <2>1, <2>2, <2>3a, x \in W DEF LeadsTo, Spot
  <2> QED BY ONLY <1>2, <2>4, <2>5, <2>6 DEF c, ks, ds
<1> QED BY ONLY <1>6, <1>7

\* The way down to the first leaf below c.
LEMMA FirstWay ==
  ASSUME NEW K, Ordered(K), NEW h, NEW low, NEW high, NEW t, NEW W, NEW lev, NEW lo, NEW hi, NEW E,
         Form(h, K, low, high, t, W, lev, lo, hi, 0, 0, E), NEW c, c \in W
  PROVE  /\ Leftmost(t, c) \in W /\ lev[Leftmost(t, c)] = 0 /\ lo[Leftmost(t, c)] = lo[c]
         /\ Leg(W, KeysIn(t, W), KidsIn(t, W), lev, c, FirstPath(t, c), Leftmost(t, c))
<1> DEFINE ks == KeysIn(t, W)
           ds == KidsIn(t, W)
           D == DOMAIN t.blk
           next == FirstNext(t)
           V == {next[x] : x \in D}
           n == t.high
           w == Trail(next, c, n)
           N == Len(w)
           path == [i \in 1 .. N - 1 |-> Spot(w[i], 1)]
<1>1. \A x \in W : /\ x \in D /\ next[x] \in W /\ lo[next[x]] = lo[x] /\ (next[x] = x => lev[x] = 0)
                   /\ next[x] # x => lev[next[x]] + 1 = lev[x] /\ lev[next[x]] < lev[x] /\ LeadsTo(W, ks, ds, Spot(x, 1), next[x])
  BY ONLY Ordered(K), Form(h, K, low, high, t, W, lev, lo, hi, 0, 0, E), FirstStep
<1>2. n \in Nat /\ \A x \in W : lev[x] <= n
  BY ONLY Ordered(K), Form(h, K, low, high, t, W, lev, lo, hi, 0, 0, E), HeightIs
<1>3. lev \in [W -> Nat] /\ W \subseteq Nat
  <2>1. Shape(K, low, high, W, t.root, ks, ds, lev, lo, hi, 0, 0, E)
    BY DEF Form
  <2> QED BY ONLY <2>1 DEF Shape, ShapeTypes
<1>4. next \in [D -> V] /\ W \in SUBSET D
  <2>1. next = [x \in D |-> next[x]]
    BY DEF FirstNext
  <2> HIDE DEF next
  <2> QED BY <1>1, <2>1
<1>5. LeftTrail(t, c) = w
  BY DEF LeftTrail, FirstNext
<1>6. Leftmost(t, c) = Last(w) /\ FirstPath(t, c) = path
  BY ONLY <1>5 DEF Leftmost, FirstPath
<1> HIDE DEF ks, ds, D, next, V, n
<1>7. /\ w \in Seq(W) /\ Len(w) \in Nat /\ Len(w) >= 1 /\ IsTrail(next, c, w)
      /\ Last(w) = w[Len(w)] /\ Last(w) \in W /\ next[Last(w)] = Last(w)
  <2>1. Nearer(next, W, lev)
    BY ONLY <1>1 DEF Nearer
  <2>2. next \in [D -> V]
    BY ONLY <1>4
  <2>3. W \in SUBSET D
    BY ONLY <1>4
  <2>4. lev \in [W -> Nat]
    BY ONLY <1>3
  <2>5. n \in Nat
    BY ONLY <1>2
  <2>6. lev[c] <= n
    BY ONLY <1>2, c \in W
  <2>7. TrailEnds(next, W, c, w)
    BY ONLY <2>1, <2>2, <2>3, <2>4, <2>5, <2>6, c \in W, TrailOf DEF w
  <2> HIDE DEF w
  <2> QED BY ONLY <2>7 DEF TrailEnds
<1> HIDE DEF w
<1>8. N \in Nat /\ N >= 1 /\ w[1] = c /\ \A i \in 1 .. N - 1 : w[i + 1] = next[w[i]] /\ next[w[i]] # w[i]
  BY ONLY <1>7 DEF IsTrail
<1>8a. \A i \in 1 .. N : w[i] \in W
  BY ONLY <1>7, ElementOfSeq
<1> HIDE DEF N
<1>9. \A i \in 1 .. N : lo[w[i]] = lo[c]
  <2> DEFINE M == N - 1
             T == {i \in 0 .. M : lo[w[i + 1]] = lo[c]}
  <2>1. M \in Nat /\ 0 \in 0 .. M
    BY ONLY <1>8
  <2>2. 0 \in T
    BY <1>8, <2>1
  <2>3. ASSUME NEW i \in 0 .. M - 1, i \in T PROVE i + 1 \in T
    <3>1. i + 1 \in 1 .. N - 1 /\ i + 1 \in 0 .. M /\ i + 1 \in 1 .. N
      BY ONLY <1>8, i \in 0 .. M - 1
    <3> DEFINE j == i + 1
    <3>2. w[j + 1] = next[w[j]] /\ w[j] \in W /\ lo[w[j]] = lo[c]
      BY <1>8, <1>8a, <2>3, <3>1
    <3>3. lo[w[j + 1]] = lo[c]
      <4> HIDE DEF j
      <4> QED BY ONLY <1>1, <3>2
    <3> QED BY <3>1, <3>3
  <2> HIDE DEF T
  <2>4. 0 .. M \subseteq T
    BY ONLY <2>1, <2>2, <2>3, NumbersUpTo
  <2> TAKE i \in 1 .. N
  <2>5. i - 1 \in 0 .. M /\ i - 1 + 1 = i
    BY ONLY <1>8, i \in 1 .. N
  <2>6. i - 1 \in T
    BY ONLY <2>4, <2>5
  <2>7. lo[w[(i - 1) + 1]] = lo[c]
    BY ONLY <2>6 DEF T
  <2> QED BY ONLY <2>5, <2>7
<1>10. Leg(W, ks, ds, lev, w[1], path, w[Len(w)])
  <2>1. w # <<>>
    BY ONLY <1>7
  <2>2. N = Len(w)
    BY DEF N
  <2>3. path = [i \in 1 .. Len(w) - 1 |-> path[i]]
    BY ONLY <2>2 DEF path
  <2>4. ASSUME NEW i \in 1 .. Len(w) - 1
        PROVE  /\ path[i] \in [blk : Nat, off : Nat] /\ path[i].blk = w[i]
               /\ LeadsTo(W, ks, ds, path[i], w[i + 1]) /\ lev[w[i + 1]] + 1 = lev[w[i]]
    <3>1. path[i] = Spot(w[i], 1) /\ i \in 1 .. N - 1 /\ i \in 1 .. N
      BY <1>8, <2>2
    <3>2. w[i] \in W /\ w[i + 1] = next[w[i]] /\ next[w[i]] # w[i]
      BY ONLY <1>8, <1>8a, <3>1
    <3>3. path[i] \in [blk : Nat, off : Nat] /\ path[i].blk = w[i]
      BY ONLY <1>3, <3>1, <3>2 DEF Spot
    <3> HIDE DEF path
    <3>4. LeadsTo(W, ks, ds, path[i], w[i + 1]) /\ lev[w[i + 1]] + 1 = lev[w[i]]
      BY ONLY <1>1, <3>1, <3>2
    <3> QED BY ONLY <3>3, <3>4
  <2> HIDE DEF path
  <2> QED BY ONLY <1>3, <1>7, <2>1, <2>3, <2>4, LegOf
<1>11. lev[Last(w)] = 0 /\ lo[Last(w)] = lo[c]
  <2>1. lev[Last(w)] = 0
    BY ONLY <1>1, <1>7
  <2>2. N \in 1 .. N /\ Last(w) = w[N]
    BY <1>7, <1>8 DEF N
  <2> QED BY ONLY <1>9, <2>1, <2>2
<1> HIDE DEF path
<1>12. Leg(W, ks, ds, lev, c, path, Last(w))
  BY ONLY <1>7, <1>8, <1>10
<1> QED BY ONLY <1>6, <1>7, <1>11, <1>12 DEF ks, ds

-----------------------------------------------------------------------------
(***************************************************************************)
(* A key goes from its leaf.                                               *)
(***************************************************************************)
\* The blocks below W lose the key i of b; b is a leaf.
IsLost(ks, b, i, ks2) == ks2 = [ks EXCEPT ![b] = RemoveAt(ks[b], i)]

\* A leaf without one of its keys has its shape.
LEMMA DropOf ==
  ASSUME NEW K, Ordered(K), NEW low, NEW high, NEW W, NEW root, NEW ks, NEW ds, NEW lev, NEW lo,
         NEW hi, NEW E, Shape(K, low, high, W, root, ks, ds, lev, lo, hi, 0, 0, E),
         NEW b, b \in W, NEW i, i \in 1 .. Len(ks[b]), ds[b] = <<>>, NEW ks2, IsLost(ks, b, i, ks2),
         NEW E2, E2 = E \cup {b}
  PROVE  Shape(K, low, high, W, root, ks2, ds, lev, lo, hi, 0, 0, E2)
<1> USE DEF IsLost
<1> QED BY Drop

\* A key goes from a leaf.
LEMMA LeafLoses ==
  ASSUME NEW K, Ordered(K), NEW h, Header(h), NEW low, NEW high, NEW t, NEW W, NEW lev, NEW lo, NEW hi,
         Form(h, K, low, high, t, W, lev, lo, hi, 0, 0, {}), NEW b, b \in W, t.blk[b].type = "V",
         NEW i, i \in 1 .. Len(t.blk[b].keys),
         NEW path, Leg(W, KeysIn(t, W), KidsIn(t, W), lev, t.root, path, b),
         path # <<>> \/ Len(t.blk[b].keys) # 1
  PROVE  Thin(h, K, low, high, Put(t, b, Leaf(RemoveAt(t.blk[b].keys, i))), path, b)
<1> DEFINE ks == KeysIn(t, W)
           ds == KidsIn(t, W)
           a == t.root
           s == t.blk[b].keys
           s2 == RemoveAt(s, i)
           node == Leaf(s2)
           t2 == Put(t, b, node)
           ks2 == KeysIn(t2, W)
           ds2 == KidsIn(t2, W)
           E0 == {}
           E == {b}
<1>1. Shape(K, low, high, W, a, ks, ds, lev, lo, hi, 0, 0, E0) /\ Stored(h, K, t, W) /\ Leg(W, ks, ds, lev, a, path, b)
  BY DEF Form
<1>2. ks[b] = s /\ ds[b] = <<>> /\ ks = [c \in W |-> ks[c]] /\ ds = [c \in W |-> ds[c]]
  BY ViewIs DEF KidsOf
<1>3. E = E0 \cup {b} /\ i \in 1 .. Len(s) /\ (path # <<>> \/ Len(s) # 1)
  OBVIOUS
<1>4. s \in Seq(K) /\ VSize(h, s) <= h.blksize
  <2>1. TreeNode(h, K, t.blk[b])
    BY ONLY <1>1, b \in W, StoredBlock
  <2> QED BY <2>1, NodeTypes DEF TreeNode, Room, NodeSize
<1> HIDE DEF ks, ds, a, s, E0, E
<1>5. s2 \in Seq(K) /\ Len(s2) = Len(s) - 1
  BY ONLY <1>3, <1>4, RemoveAtIs
<1>6. VSize(h, s2) <= h.blksize
  <2>1. VSize(h, s2) <= VSize(h, s)
    BY ONLY Header(h), <1>3, <1>4, LessSize DEF Header
  <2>2. VSize(h, s2) \in Nat /\ VSize(h, s) \in Nat /\ h.blksize \in Nat
    BY ONLY Header(h), <1>4, <1>5, VSizeIs DEF Header
  <2> QED BY ONLY <1>4, <2>1, <2>2
<1> HIDE DEF s2
<1>7. TreeNode(h, K, node) /\ node.keys = s2 /\ KidsOf(node) = <<>>
  BY ONLY <1>5, <1>6, TreeNodes
<1> HIDE DEF node
<1>8. Stored(h, K, t2, W) /\ t2.root = t.root /\ Wrote(t, t2, W, b, node)
  BY ONLY <1>1, <1>7, b \in W, StoredPut
<1> HIDE DEF t2
<1>9. ks2 = With(ks, b, s2) /\ ds2 = ds
  <2>1. ks2 = With(ks, b, node.keys) /\ ds2 = With(ds, b, KidsOf(node))
    BY ONLY <1>8, b \in W, ViewPut DEF ks, ds, ks2, ds2
  <2>2. With(ds, b, <<>>) = ds
    BY ONLY <1>2 DEF With
  <2> QED BY ONLY <1>7, <2>1, <2>2
<1> HIDE DEF ks2, ds2
<1>10. IsLost(ks, b, i, ks2)
  BY ONLY <1>2, <1>9 DEF With, IsLost, s2
<1>11. i \in 1 .. Len(ks[b]) /\ ds[b] = <<>>
  BY ONLY <1>2, <1>3
<1>12. Shape(K, low, high, W, a, ks2, ds, lev, lo, hi, 0, 0, E)
  BY ONLY Ordered(K), <1>1, <1>3, <1>10, <1>11, b \in W, DropOf
<1>13. lev \in [W -> Nat]
  BY ONLY <1>1 DEF Shape, ShapeTypes
<1>14. KeptAbove(W, ks, ds, lev, b, W, ks2, ds2, lev)
  <2> SUFFICES ASSUME NEW c, c \in W, lev[c] > lev[b]
               PROVE  ks2[c] = ks[c]
    BY <1>9 DEF KeptAbove
  <2>1. c # b
    BY ONLY <1>13, b \in W, c \in W, lev[c] > lev[b]
  <2> QED BY ONLY <1>2, <1>9, <2>1, c \in W DEF With
<1>15. Leg(W, ks2, ds2, lev, a, path, b)
  <2>1. lev[b] = lev[b]
    OBVIOUS
  <2> QED BY ONLY <1>1, <1>13, <1>14, <2>1, b \in W, LegKept
<1>16. Form(h, K, low, high, t2, W, lev, lo, hi, 0, 0, E)
  BY ONLY <1>8, <1>9, <1>12 DEF Form, ks2, ds2, a
<1>17. path = <<>> => t2.blk[b].keys # <<>>
  <2>1. t2.blk[b] = node
    BY ONLY <1>8 DEF Wrote
  <2>2. Len(s) \in Nat /\ (path = <<>> => Len(s) # 1)
    BY ONLY <1>3, <1>4
  <2>3. path = <<>> => s2 # <<>>
    <3>1. Len(s2) = 0 => Len(s) = 1
      BY ONLY <1>5, <2>2
    <3> QED BY ONLY <2>2, <3>1
  <2> QED BY ONLY <1>7, <2>1, <2>3
<1>18. Leg(W, KeysIn(t2, W), KidsIn(t2, W), lev, t2.root, path, b)
  BY ONLY <1>8, <1>15 DEF ks2, ds2, a
<1>19. Thin(h, K, low, high, t2, path, b)
  BY ONLY <1>16, <1>17, <1>18 DEF Thin, E
<1> QED BY <1>19 DEF t2, node, s2, s

-----------------------------------------------------------------------------
(***************************************************************************)
(* A key goes from a branch: the one after it comes up.                    *)
(***************************************************************************)
\* A way does not depend on what keys the blocks above have, only on how many.
SameLengths(W, ks, lev, b, ks2) == \A c \in W : lev[c] > lev[b] => Len(ks2[c]) = Len(ks[c])

\* A way stays one when keys above its end are replaced.
LEMMA LegKeys ==
  ASSUME NEW W, NEW ks, NEW ds, NEW lev, lev \in [W -> Nat], NEW a, NEW path, NEW b,
         Leg(W, ks, ds, lev, a, path, b), NEW ks2, SameLengths(W, ks, lev, b, ks2)
  PROVE  Leg(W, ks2, ds, lev, a, path, b)
<1>1. path \in Seq([blk : Nat, off : Nat]) /\ b \in W /\ a = StartOf(path, b) /\ Len(path) \in Nat /\ lev[b] \in Nat
  BY LenProperties DEF Leg
<1>2. ASSUME NEW i \in 1 .. Len(path)
      PROVE  /\ LeadsTo(W, ks2, ds, path[i], AfterSpot(path, i, b))
             /\ lev[path[i].blk] = lev[b] + (Len(path) + 1 - i)
  <2>1. LeadsTo(W, ks, ds, path[i], AfterSpot(path, i, b)) /\ lev[path[i].blk] = lev[b] + (Len(path) + 1 - i)
    BY DEF Leg
  <2>2. path[i].blk \in W
    BY <2>1 DEF LeadsTo
  <2> DEFINE c == path[i].blk
             n == Len(path)
  <2>3. lev[c] > lev[b]
    <3>1. n \in Nat /\ i \in 1 .. n /\ lev[c] = lev[b] + (n + 1 - i) /\ lev[b] \in Nat
      BY <1>1, <2>1
    <3> HIDE DEF c, n
    <3> QED BY <3>1
  <2>4. Len(ks2[c]) = Len(ks[c])
    BY <2>2, <2>3 DEF SameLengths
  <2> QED BY <2>1, <2>4 DEF LeadsTo
<1> QED BY <1>1, <1>2 DEF Leg

\* What is on the way from the key i of b to the leaf its successor is in.
LEMMA Successor ==
  ASSUME NEW K, Ordered(K), NEW h, NEW low, NEW high, NEW t, NEW W, NEW lev, NEW lo, NEW hi, NEW E,
         Form(h, K, low, high, t, W, lev, lo, hi, 0, 0, E), NEW b, b \in W, t.blk[b].type = "U",
         NEW i, i \in 1 .. Len(t.blk[b].keys), NEW child, child = t.blk[b].kids[i + 1],
         NEW y, y = Leftmost(t, child), NEW s, s = Spot(b, i + 1)
  PROVE  /\ y \in W /\ b # y /\ lev[y] = 0 /\ lo[y] = t.blk[b].keys[i] /\ t.blk[y].type = "V"
         /\ Leg(W, KeysIn(t, W), KidsIn(t, W), lev, b, <<s>> \o FirstPath(t, child), y)
<1> DEFINE ks == KeysIn(t, W)
           ds == KidsIn(t, W)
           a == t.root
           j == i + 1
           q == FirstPath(t, child)
           r == <<s>>
<1>1. Shape(K, low, high, W, a, ks, ds, lev, lo, hi, 0, 0, E) /\ Stored(h, K, t, W) /\ t.blk[b].kids # <<>>
  BY StoredBlock DEF Form
<1>2. ks[b] = t.blk[b].keys /\ ds[b] = t.blk[b].kids /\ ds[b] # <<>>
  BY <1>1, ViewIs DEF KidsOf
<1>3. i \in 1 .. Len(ks[b]) /\ child = ds[b][j] /\ j = i + 1
  BY <1>2
<1>4. Form(h, K, low, high, t, W, lev, lo, hi, 0, 0, E) /\ s = Spot(b, j)
  OBVIOUS
<1> HIDE DEF ks, ds, a, j, q, r
<1>5. Len(ks[b]) \in Nat /\ b \in Nat
  BY ONLY Ordered(K), <1>1, b \in W, BlockFacts
<1>6. j \in 1 .. Len(ks[b]) + 1 /\ j # 1 /\ j - 1 = i /\ j \in Nat
  BY ONLY <1>3, <1>5
<1>7. LowerAt(ks[b], lo[b], j) = ks[b][i]
  BY ONLY <1>6 DEF LowerAt
<1>8. child \in W /\ lev[child] + 1 = lev[b] /\ lev[child] \in Nat /\ lo[child] = ks[b][i]
  <2>1. ds[b][j] \in W /\ lev[ds[b][j]] + 1 = lev[b] /\ lev[ds[b][j]] \in Nat /\ lo[ds[b][j]] = LowerAt(ks[b], lo[b], j)
    BY ONLY Ordered(K), <1>1, <1>2, <1>6, b \in W, PlaceFacts
  <2> QED BY ONLY <1>3, <1>7, <2>1
<1>9. /\ Leftmost(t, child) \in W /\ lev[Leftmost(t, child)] = 0 /\ lo[Leftmost(t, child)] = lo[child]
      /\ Leg(W, KeysIn(t, W), KidsIn(t, W), lev, child, FirstPath(t, child), Leftmost(t, child))
  BY ONLY Ordered(K), <1>4, <1>8, FirstWay
<1>10. y \in W /\ lev[y] = 0 /\ lo[y] = ks[b][i] /\ Leg(W, ks, ds, lev, child, q, y)
  BY ONLY <1>8, <1>9, y = Leftmost(t, child) DEF ks, ds, q
<1>11. b # y
  BY ONLY <1>8, <1>10
<1>12. t.blk[y].type = "V"
  <2>1. ds[y] = <<>>
    BY ONLY Ordered(K), <1>1, <1>10, BlockFacts
  <2>2. ds[y] = KidsOf(t.blk[y])
    BY ONLY <1>10, ViewIs DEF ds
  <2>3. t.blk[y].type \in {"U", "V"} /\ (t.blk[y].type = "U" => t.blk[y].kids # <<>>)
    BY ONLY <1>1, <1>10, StoredBlock
  <2> QED BY ONLY <2>1, <2>2, <2>3 DEF KidsOf
<1>13. lev \in [W -> Nat]
  BY ONLY <1>1 DEF Shape, ShapeTypes
<1>14. Leg(W, ks, ds, lev, b, r, child)
  <2>1. s \in [blk : Nat, off : Nat] /\ s.blk = b /\ s.off = j
    BY ONLY <1>4, <1>5, <1>6 DEF Spot
  <2>2. LeadsTo(W, ks, ds, s, child)
    BY ONLY <1>2, <1>3, <1>6, <2>1, b \in W DEF LeadsTo
  <2>3. lev[s.blk] = lev[child] + 1
    BY ONLY <1>8, <2>1
  <2>4. Leg(W, ks, ds, lev, s.blk, <<s>>, child)
    BY ONLY <1>8, <1>13, <2>1, <2>2, <2>3, LegOne
  <2> QED BY ONLY <2>1, <2>4 DEF r
<1>15. Leg(W, ks, ds, lev, b, r \o q, y)
  BY ONLY <1>10, <1>13, <1>14, LegJoin
<1> QED BY ONLY <1>2, <1>10, <1>11, <1>12, <1>15 DEF ks, ds, r, q

\* The key i of b goes, and the first key of the leaf y takes its place.
HeirTree(t, b, i, y) == Put(Put(t, b, NewKey(t.blk[b], i, Head(t.blk[y].keys))), y, Leaf(Tail(t.blk[y].keys)))

\* The first key of the leaf after it takes the place of a key of a branch: the
\* tree is sound but for the leaf, which may be thin.
LEMMA HeirTaken ==
  ASSUME NEW K, Ordered(K), NEW h, Header(h), NEW low, NEW high, NEW t, NEW W, NEW lev, NEW lo, NEW hi,
         Form(h, K, low, high, t, W, lev, lo, hi, 0, 0, {}), NEW b, b \in W, t.blk[b].type = "U",
         NEW i, i \in 1 .. Len(t.blk[b].keys), NEW child, child = t.blk[b].kids[i + 1],
         NEW path, Leg(W, KeysIn(t, W), KidsIn(t, W), lev, t.root, path, b),
         NEW y, y = Leftmost(t, child), NEW s, s = Spot(b, i + 1), NEW way, way = path \o (<<s>> \o FirstPath(t, child))
  PROVE  Thin(h, K, low, high, HeirTree(t, b, i, y), way, y)
<1> DEFINE ks == KeysIn(t, W)
           ds == KidsIn(t, W)
           a == t.root
           q == <<s>> \o FirstPath(t, child)
           E0 == {}
           E == {y}
           e == Head(t.blk[y].keys)
           z == NewKey(t.blk[b], i, e)
           t1 == Put(t, b, z)
           r == Tail(t.blk[y].keys)
           node == Leaf(r)
           t2 == HeirTree(t, b, i, y)
           ks2 == KeysIn(t2, W)
           ds2 == KidsIn(t2, W)
<1>1. Shape(K, low, high, W, a, ks, ds, lev, lo, hi, 0, 0, E0) /\ Stored(h, K, t, W) /\ Leg(W, ks, ds, lev, a, path, b)
  BY DEF Form
<1>2. Form(h, K, low, high, t, W, lev, lo, hi, 0, 0, E0)
  OBVIOUS
<1>3. way = path \o q /\ E = E0 \cup {y} /\ t2 = Put(t1, y, node)
  BY DEF HeirTree
<1> HIDE DEF E0, E
<1>4. /\ y \in W /\ b # y /\ lev[y] = 0 /\ lo[y] = t.blk[b].keys[i] /\ t.blk[y].type = "V"
      /\ Leg(W, ks, ds, lev, b, q, y)
  BY ONLY Ordered(K), <1>2, b \in W, t.blk[b].type = "U", i \in 1 .. Len(t.blk[b].keys), child = t.blk[b].kids[i + 1],
     y = Leftmost(t, child), s = Spot(b, i + 1), Successor
<1> HIDE DEF q
<1>5. ks[b] = t.blk[b].keys /\ ks[y] = t.blk[y].keys /\ ds[b] = t.blk[b].kids /\ ds[y] = <<>>
      /\ ks = [c \in W |-> ks[c]] /\ ds = [c \in W |-> ds[c]]
  <2>1. /\ ks = [c \in W |-> ks[c]] /\ ds = [c \in W |-> ds[c]]
        /\ \A c \in W : ks[c] = t.blk[c].keys /\ ds[c] = KidsOf(t.blk[c])
    BY ONLY ViewIs
  <2>2. KidsOf(t.blk[b]) = t.blk[b].kids
    BY t.blk[b].type = "U" DEF KidsOf
  <2>3. KidsOf(t.blk[y]) = <<>>
    BY <1>4 DEF KidsOf
  <2> HIDE DEF ks, ds
  <2> QED BY ONLY b \in W, <1>4, <2>1, <2>2, <2>3
<1> HIDE DEF ks, ds, a
<1>6. ks[y] # <<>>
  BY ONLY <1>1, <1>4 DEF Shape, E0
<1>7. ks[y] \in Seq(K) /\ TreeNode(h, K, t.blk[y])
  BY ONLY <1>1, <1>4, <1>5, StoredBlock
<1>8. e = ks[y][1] /\ e \in K
  <2>1. Head(ks[y]) = ks[y][1] /\ Head(ks[y]) \in K
    BY ONLY <1>6, <1>7
  <2> QED BY ONLY <1>5, <2>1 DEF e
<1>9. r = Tail(ks[y]) /\ r \in Seq(K) /\ VSize(h, r) <= h.blksize
  <2> DEFINE u == ks[y]
  <2>1. VSize(h, u) <= h.blksize
    BY ONLY <1>4, <1>5, <1>7 DEF TreeNode, Room, NodeSize
  <2>2. u \in Seq(K) /\ u # <<>> /\ r = Tail(u)
    BY ONLY <1>5, <1>6, <1>7
  <2> HIDE DEF u
  <2>3. Tail(u) \in Seq(K)
    BY ONLY <2>2, TailIs
  <2>4. VSize(h, Tail(u)) <= h.blksize
    BY ONLY Header(h), <2>1, <2>2, TailFits
  <2> QED BY ONLY <2>2, <2>3, <2>4 DEF u
<1>10. TreeNode(h, K, node) /\ node.keys = r /\ KidsOf(node) = <<>>
  <2> HIDE DEF r
  <2>1. r \in Seq(K) /\ VSize(h, r) <= h.blksize
    BY ONLY <1>9
  <2> QED BY ONLY <2>1, TreeNodes
<1>11. TreeNode(h, K, z) /\ HasNewKey(t.blk[b], i, e, z)
  <2> HIDE DEF e
  <2> QED BY ONLY Header(h), <1>1, <1>8, b \in W, t.blk[b].type = "U", i \in 1 .. Len(t.blk[b].keys), OtherKey
<1>12. z.keys = With(ks[b], i, e) /\ KidsOf(z) = ds[b]
  BY ONLY <1>5, <1>11 DEF HasNewKey
<1> HIDE DEF z, node, e, r
<1>13. Stored(h, K, t1, W) /\ t1.root = t.root /\ Wrote(t, t1, W, b, z)
  BY ONLY <1>1, <1>11, b \in W, StoredPut
<1> HIDE DEF t1
<1>14. Stored(h, K, t2, W) /\ t2.root = t1.root /\ Wrote(t1, t2, W, y, node)
  BY ONLY <1>3, <1>4, <1>10, <1>13, StoredPut
<1> DEFINE ks1 == KeysIn(t1, W)
           ds1 == KidsIn(t1, W)
<1> HIDE DEF t2
<1>15. ks1 = With(ks, b, z.keys) /\ ds1 = With(ds, b, KidsOf(z))
  BY ONLY <1>13, b \in W, ViewPut DEF ks, ds
<1>16. ks2 = With(ks1, y, node.keys) /\ ds2 = With(ds1, y, KidsOf(node))
  BY ONLY <1>4, <1>14, ViewPut
<1> HIDE DEF ks1, ds1, ks2, ds2
<1>17. ds2 = ds
  <2>1. With(ds, b, ds[b]) = ds
    BY ONLY <1>5 DEF With
  <2>2. With(ds, y, ds[y]) = ds
    BY ONLY <1>5 DEF With
  <2> QED BY ONLY <1>5, <1>10, <1>12, <1>15, <1>16, <2>1, <2>2
<1>18. IsHeir(ks, b, i, y, ks2)
  <2>1. ks2 = With(With(ks, b, With(ks[b], i, ks[y][1])), y, Tail(ks[y]))
    BY ONLY <1>8, <1>9, <1>10, <1>12, <1>15, <1>16
  <2> QED BY ONLY <2>1 DEF With, IsHeir
<1>19. i \in 1 .. Len(ks[b]) /\ lo[y] = ks[b][i]
  BY ONLY <1>4, <1>5, i \in 1 .. Len(t.blk[b].keys)
<1>20. HasShape(K, low, high, W, a, ks2, ds, lev, E)
  BY ONLY Ordered(K), <1>1, <1>3, <1>4, <1>6, <1>18, <1>19, b \in W, Heir
<1>21. PICK lo2 \in [W -> K], hi2 \in [W -> K] : Shape(K, low, high, W, a, ks2, ds, lev, lo2, hi2, 0, 0, E)
  BY <1>20 DEF HasShape
<1>22. lev \in [W -> Nat]
  BY ONLY <1>1 DEF Shape, ShapeTypes
<1>23. Leg(W, ks, ds, lev, a, way, y)
  BY ONLY <1>1, <1>3, <1>4, <1>22, LegJoin
<1>24. SameLengths(W, ks, lev, y, ks2)
  <2> SUFFICES ASSUME NEW c, c \in W, lev[c] > lev[y]
               PROVE  Len(ks2[c]) = Len(ks[c])
    BY DEF SameLengths
  <2>1. c # y
    BY ONLY <1>4, <1>22, c \in W, lev[c] > lev[y]
  <2>2. ks2[c] = ks1[c]
    BY ONLY <1>5, <1>15, <1>16, <2>1, c \in W DEF With
  <2>3. CASE c # b
    BY ONLY <1>5, <1>15, <2>2, <2>3, c \in W DEF With
  <2>4. CASE c = b
    <3>1. ks1[b] = z.keys
      BY ONLY <1>5, <1>15, b \in W DEF With
    <3>2. Len(With(ks[b], i, e)) = Len(ks[b])
      <4>1. ks[b] \in Seq(K)
        BY ONLY Ordered(K), <1>1, b \in W, BlockFacts
      <4> QED BY ONLY <4>1, <1>8, <1>19 DEF With
    <3> QED BY ONLY <1>12, <2>2, <2>4, <3>1, <3>2
  <2> QED BY ONLY <2>3, <2>4
<1>25. Leg(W, ks2, ds, lev, a, way, y)
  BY ONLY <1>22, <1>23, <1>24, LegKeys
<1>26. Form(h, K, low, high, t2, W, lev, lo2, hi2, 0, 0, E)
  BY ONLY <1>13, <1>14, <1>17, <1>21 DEF Form, ks2, ds2, a
<1>27. way # <<>>
  <2>1. a # y \/ way # <<>>
    <3>1. Len(q) \in Nat /\ Len(path) \in Nat /\ path \in Seq([blk : Nat, off : Nat]) /\ q \in Seq([blk : Nat, off : Nat])
      BY ONLY <1>1, <1>4 DEF Leg
    <3>2. q # <<>>
      BY ONLY <1>4, LegEmpty
    <3>3. path \o q # <<>>
      BY ONLY <3>1, <3>2
    <3> QED BY ONLY <1>3, <3>3
  <2>2. way = <<>> => a = y
    BY ONLY <1>23, LegEmpty
  <2> QED BY ONLY <2>1, <2>2
<1>28. Leg(W, KeysIn(t2, W), KidsIn(t2, W), lev, t2.root, way, y)
  BY ONLY <1>13, <1>14, <1>17, <1>25 DEF ks2, ds2, a
<1>29. Thin(h, K, low, high, t2, way, y)
  BY ONLY <1>26, <1>27, <1>28 DEF Thin, E
<1> QED BY <1>29 DEF t2

-----------------------------------------------------------------------------
(***************************************************************************)
(* A delete keeps the index sound.                                         *)
(***************************************************************************)
\* f is where a key of t is.
FoundKey(t, W, lev, f) ==
  LET s == f.spot
      ks == KeysIn(t, W)
      ds == KidsIn(t, W)
  IN /\ s.blk \in W /\ s.off \in 1 .. Len(t.blk[s.blk].keys)
     /\ t.blk[s.blk].type = "V" => Leg(W, ks, ds, lev, t.root, f.path, s.blk)
     /\ t.blk[s.blk].type = "U" => f.path # <<>> /\ Leg(W, ks, ds, lev, t.root, Front(f.path), s.blk)

\* An index without a tree, or with a good one.
Sound(h, K, low, high, t) ==
  \/ Stored(h, K, t, {}) /\ t.root = 0
  \/ Good(h, K, low, high, t)

\* The last key goes, and the tree with it.
LEMMA LastKeyGoes ==
  ASSUME NEW K, Ordered(K), NEW h, NEW low, NEW high, NEW t, NEW W, NEW lev, NEW lo, NEW hi, NEW E,
         Form(h, K, low, high, t, W, lev, lo, hi, 0, 0, E), t.blk[t.root].type = "V"
  PROVE  Stored(h, K, Trim(t), {}) /\ Trim(t).root = 0
<1> DEFINE ks == KeysIn(t, W)
           ds == KidsIn(t, W)
           a == t.root
           V == {}
<1>1. Shape(K, low, high, W, a, ks, ds, lev, lo, hi, 0, 0, E) /\ Stored(h, K, t, W)
  BY DEF Form
<1>2. a \in W
  BY ONLY <1>1 DEF Shape, ShapeTypes
<1>3. ds[a] = <<>>
  BY <1>2, ViewIs DEF KidsOf
<1> HIDE DEF ks, ds, a
<1>4. lev[a] = 0
  BY ONLY Ordered(K), <1>1, <1>2, <1>3, BlockFacts
<1>5. \A c \in W : c = a
  <2> SUFFICES ASSUME NEW c, c \in W, c # a PROVE FALSE
    OBVIOUS
  <2>1. lev[c] < lev[a]
    BY ONLY Ordered(K), <1>1, c \in W, c # a, Below
  <2>2. lev[c] \in Nat
    BY ONLY Ordered(K), <1>1, c \in W, BlockFacts
  <2> QED BY ONLY <1>4, <2>1, <2>2
<1>6. W = {t.root}
  BY ONLY <1>2, <1>5 DEF a
<1>7. PICK dl, fl : Whole(t, W, dl, fl)
  BY <1>1 DEF Stored
<1>8. t \in Indexes(h, K)
  BY <1>1 DEF Stored
<1>9. Trim(t) \in Indexes(h, K) /\ Trim(t).root = 0 /\ \E dl2, fl2 : Whole(Trim(t), {}, dl2, fl2)
  BY ONLY <1>6, <1>7, <1>8, WholeTrim
<1>10. \A c \in V : TreeNode(h, K, Trim(t).blk[c])
  OBVIOUS
<1>11. Stored(h, K, Trim(t), V)
  BY ONLY <1>9, <1>10 DEF Stored, V
<1> QED BY ONLY <1>9, <1>11 DEF V

\* Whatever is joined and shared, a delete ends in a good index, or in one without keys.
LEMMA Deleted ==
  ASSUME NEW K, Ordered(K), NEW h, Header(h), NEW low, NEW high, NEW t, NEW W, NEW lev, NEW lo, NEW hi,
         Form(h, K, low, high, t, W, lev, lo, hi, 0, 0, {}), NEW f, FoundKey(t, W, lev, f)
  PROVE  Sound(h, K, low, high, DeleteKey(t, f))
<1> DEFINE b == f.spot.blk
           i == f.spot.off
           keys == t.blk[b].keys
           path == f.path
<1>1. b \in W /\ i \in 1 .. Len(keys)
  BY DEF FoundKey
<1>2. t.blk[b].type \in {"U", "V"}
  BY <1>1, StoredBlock DEF Form
<1>3. CASE t.blk[b].type = "V" /\ path = <<>> /\ Len(keys) = 1
  <2>1. DeleteKey(t, f) = Trim(t)
    BY <1>3 DEF DeleteKey
  <2>2. Leg(W, KeysIn(t, W), KidsIn(t, W), lev, t.root, path, b)
    BY <1>3 DEF FoundKey
  <2>3. t.root = b
    BY <1>3, <2>2, LegEmpty
  <2>4. t.blk[t.root].type = "V"
    BY <1>3, <2>3
  <2>5. Stored(h, K, Trim(t), {}) /\ Trim(t).root = 0
    BY <2>4, LastKeyGoes
  <2> QED BY <2>1, <2>5 DEF Sound
<1>4. CASE t.blk[b].type = "V" /\ ~(path = <<>> /\ Len(keys) = 1)
  <2> DEFINE t2 == Put(t, b, Leaf(RemoveAt(keys, i)))
  <2>1. DeleteKey(t, f) = Collapse(Balanced(t2, path, b))
    BY <1>4 DEF DeleteKey
  <2>2. Leg(W, KeysIn(t, W), KidsIn(t, W), lev, t.root, path, b)
    BY <1>4 DEF FoundKey
  <2>3. path # <<>> \/ Len(t.blk[b].keys) # 1
    BY <1>4
  <2>4. i \in 1 .. Len(t.blk[b].keys) /\ t.blk[b].type = "V"
    BY <1>1, <1>4
  <2>5. Form(h, K, low, high, t, W, lev, lo, hi, 0, 0, {})
    OBVIOUS
  <2>6. t2 = Put(t, b, Leaf(RemoveAt(t.blk[b].keys, i)))
    OBVIOUS
  <2> HIDE DEF t2, path, b, i
  <2>7. Thin(h, K, low, high, t2, path, b)
    BY ONLY Ordered(K), Header(h), <1>1, <2>2, <2>3, <2>4, <2>5, <2>6, LeafLoses
  <2>8. Good(h, K, low, high, Collapse(Balanced(t2, path, b)))
    BY ONLY Ordered(K), Header(h), <2>7, Rebalanced
  <2> QED BY ONLY <2>1, <2>8 DEF Sound
<1>5. CASE t.blk[b].type = "U"
  <2> DEFINE child == t.blk[b].kids[i + 1]
             y == Leftmost(t, child)
             t2 == HeirTree(t, b, i, y)
             p == Front(path)
             s == Spot(b, i + 1)
             q == FirstPath(t, child)
             way == p \o (<<s>> \o q)
  <2>1. DeleteKey(t, f) = Collapse(Balanced(t2, p \o <<s>> \o q, y))
    BY <1>5 DEF DeleteKey, HeirTree, NewKey
  <2>2. Leg(W, KeysIn(t, W), KidsIn(t, W), lev, t.root, p, b)
    BY <1>5 DEF FoundKey
  <2>3. i \in 1 .. Len(t.blk[b].keys) /\ t.blk[b].type = "U"
    BY <1>1, <1>5
  <2>4. Form(h, K, low, high, t, W, lev, lo, hi, 0, 0, {}) /\ child = t.blk[b].kids[i + 1] /\ y = Leftmost(t, child)
    OBVIOUS
  <2>5. s = Spot(b, i + 1) /\ way = p \o (<<s>> \o FirstPath(t, child))
    OBVIOUS
  <2>6. p \o <<s>> \o q = way
    <3> DEFINE S == [blk : Nat, off : Nat]
               r == <<s>>
    <3>1. p \in Seq(S)
      BY ONLY <2>2 DEF Leg
    <3>2. Leg(W, KeysIn(t, W), KidsIn(t, W), lev, b, r \o q, y)
      <4> HIDE DEF child, y, s, b, i
      <4>1. Leg(W, KeysIn(t, W), KidsIn(t, W), lev, b, <<s>> \o FirstPath(t, child), y)
        BY ONLY Ordered(K), <1>1, <2>3, <2>4, <2>5, Successor
      <4> QED BY ONLY <4>1 DEF r, q
    <3>3. q \in Seq(S) /\ r \in Seq(S)
      <4>1. b \in Nat /\ i + 1 \in Nat
        <5>1. W \subseteq Nat
          BY DEF Form, Shape, ShapeTypes
        <5>2. i \in Nat
          <6>1. keys \in Seq(K)
            BY <1>1, StoredBlock DEF Form
          <6> QED BY <1>1, <6>1
        <5>3. i + 1 \in Nat
          <6> HIDE DEF i
          <6> QED BY ONLY <5>2
        <5>4. b \in Nat
          BY ONLY <1>1, <5>1
        <5> QED BY ONLY <5>3, <5>4
      <4>2. r \in Seq(S)
        BY ONLY <4>1 DEF Spot
      <4>3. child \in W
        <5>1. y \in W
          BY ONLY <3>2 DEF Leg
        <5> DEFINE ks == KeysIn(t, W)
                   ds == KidsIn(t, W)
                   j == i + 1
                   a == t.root
                   E0 == {}
        <5>2. Shape(K, low, high, W, a, ks, ds, lev, lo, hi, 0, 0, E0) /\ t.blk[b].kids # <<>>
          BY <1>1, <1>5, StoredBlock DEF Form
        <5>3. ks[b] = keys /\ ds[b] = t.blk[b].kids
          BY <1>1, <1>5, ViewIs DEF KidsOf
        <5>4. Len(ks[b]) \in Nat
          BY <1>1, <5>2, BlockFacts
        <5>5. j \in 1 .. Len(ks[b]) + 1
          BY <1>1, <5>3, <5>4
        <5> HIDE DEF ks, ds, j, b, a, E0
        <5>6. ds[b][j] \in W
          BY ONLY Ordered(K), <1>1, <5>2, <5>3, <5>5, PlaceFacts
        <5> QED BY ONLY <5>3, <5>6 DEF j
      <4>4. q \in Seq(S)
        <5> HIDE DEF child, y
        <5>1. Leg(W, KeysIn(t, W), KidsIn(t, W), lev, child, FirstPath(t, child), Leftmost(t, child))
          BY ONLY Ordered(K), <2>4, <4>3, FirstWay
        <5> QED BY ONLY <5>1 DEF Leg
      <4> QED BY <4>2, <4>4
    <3> HIDE DEF p, r, q, S
    <3>4. (p \o r) \o q = p \o (r \o q)
      BY ONLY <3>1, <3>3, ConcatAssociative
    <3> QED BY ONLY <3>4 DEF r, way
  <2> HIDE DEF t2, p, q, s, way, child, y, b, i
  <2>7. Thin(h, K, low, high, t2, way, y)
    <3>1. Thin(h, K, low, high, HeirTree(t, b, i, y), way, y)
      BY ONLY Ordered(K), Header(h), <1>1, <2>2, <2>3, <2>4, <2>5, HeirTaken
    <3> QED BY ONLY <3>1 DEF t2
  <2>8. Good(h, K, low, high, Collapse(Balanced(t2, way, y)))
    BY ONLY Ordered(K), Header(h), <2>7, Rebalanced
  <2> QED BY ONLY <2>1, <2>6, <2>8 DEF Sound
<1> QED BY ONLY <1>2, <1>3, <1>4, <1>5

-----------------------------------------------------------------------------
(***************************************************************************)
(* A search in one block.                                                  *)
(***************************************************************************)
\* What a scan gives.
ScanOn(keys, s) ==
  /\ s.off \in 1 .. Len(keys) + 1
  /\ s.flg = 1 => s.off \in 1 .. Len(keys)
  /\ s.flg = 4 => s.off = Len(keys) + 1

\* Where xioxscan stops: at an equal key, before a greater one or at the end.
LEMMA ScanIs ==
  ASSUME NEW K, NEW keys, keys \in Seq(K), NEW k, NEW exact
  PROVE  ScanOn(keys, Scan(keys, k, exact))
<1> DEFINE T == {i \in DOMAIN keys : Hit(keys, k, exact, i) \/ Less(k, keys[i])}
           n == Len(keys)
           off == IF T = {} THEN n + 1 ELSE Min(T)
           s == Scan(keys, k, exact)
<1>1. s = [off |-> off,
           flg |-> IF T = {} THEN 4
                   ELSE IF Hit(keys, k, exact, off) THEN 1
                   ELSE IF off = 1 THEN 2 ELSE 3]
  BY DEF Scan
<1>2. n \in Nat /\ T \in SUBSET (1 .. n) /\ T \in SUBSET Nat
  OBVIOUS
<1> HIDE DEF T, s, n
<1>3. T # {} => Min(T) \in 1 .. n
  BY ONLY <1>2, MinIs
<1>4. off \in 1 .. n + 1 /\ (T # {} => off \in 1 .. n) /\ (T = {} => off = n + 1)
  <2>1. (T = {} => off = n + 1) /\ (T # {} => off = Min(T))
    OBVIOUS
  <2>2. n + 1 \in 1 .. n + 1 /\ 1 .. n \subseteq 1 .. n + 1
    BY ONLY <1>2
  <2> HIDE DEF off
  <2> QED BY ONLY <1>3, <2>1, <2>2
<1> HIDE DEF off
<1>5. s.off = off /\ (s.flg = 1 => T # {}) /\ (s.flg = 4 => T = {})
  BY ONLY <1>1
<1> QED BY ONLY <1>4, <1>5 DEF ScanOn, s, n

\* xioxscan answers 1 at an equal key.
LEMMA ScanHit ==
  ASSUME NEW keys, NEW k, Scan(keys, k, TRUE).flg = 1
  PROVE  keys[Scan(keys, k, TRUE).off] = k
<1> DEFINE T == {i \in DOMAIN keys : keys[i] = k \/ Less(k, keys[i])}
           off == IF T = {} THEN Len(keys) + 1 ELSE Min(T)
           s == Scan(keys, k, TRUE)
<1>1. s = [off |-> off, flg |-> IF T = {} THEN 4 ELSE IF keys[off] = k THEN 1
                                ELSE IF off = 1 THEN 2 ELSE 3]
  BY DEF Scan, Hit
<1>2. s.flg = 1
  OBVIOUS
<1> HIDE DEF off, T, s
<1>3. s.off = off /\ s.flg = IF T = {} THEN 4 ELSE IF keys[off] = k THEN 1
                              ELSE IF off = 1 THEN 2 ELSE 3
  BY ONLY <1>1
<1>4. keys[s.off] = k
  <2>1. CASE T = {}
    BY ONLY <1>2, <1>3, <2>1
  <2>2. CASE T # {} /\ keys[off] = k
    BY ONLY <1>3, <2>2
  <2>3. CASE T # {} /\ keys[off] # k
    BY ONLY <1>2, <1>3, <2>3
  <2> QED BY ONLY <2>1, <2>2, <2>3
<1> QED BY ONLY <1>4 DEF s

\* Where a key that is not there belongs among those of a block.
Parts(keys, k, off) ==
  /\ \A j \in 1 .. Len(keys) : j < off => Less(keys[j], k)
  /\ \A j \in 1 .. Len(keys) : j >= off => Less(k, keys[j])

\* Where an exact search for a key that is not there stops, the keys before are
\* less and those after are greater.
LEMMA ScanParts ==
  ASSUME NEW K, Ordered(K), NEW keys, keys \in Seq(K), Sorted(keys), NEW k, k \in K,
         Scan(keys, k, TRUE).flg # 1
  PROVE  Parts(keys, k, Scan(keys, k, TRUE).off)
<1> DEFINE T == {i \in DOMAIN keys : keys[i] = k \/ Less(k, keys[i])}
           n == Len(keys)
           off == IF T = {} THEN n + 1 ELSE Min(T)
           s == Scan(keys, k, TRUE)
<1>1. s = [off |-> off,
           flg |-> IF T = {} THEN 4
                   ELSE IF keys[off] = k THEN 1
                   ELSE IF off = 1 THEN 2 ELSE 3]
  BY DEF Scan, Hit
<1>2. n \in Nat /\ T \in SUBSET (1 .. n) /\ T \in SUBSET Nat
  OBVIOUS
<1>3. \A i \in 1 .. n : i \in T <=> keys[i] = k \/ Less(k, keys[i])
  OBVIOUS
<1>4. \A i \in 1 .. n : keys[i] \in K
  OBVIOUS
<1>5. s.flg # 1 /\ \A i, j \in 1 .. n : i < j => Less(keys[i], keys[j])
  BY DEF Sorted
<1> HIDE DEF T, s, n
<1>6. T # {} => Min(T) \in T /\ \A y \in T : Min(T) <= y
  BY ONLY <1>2, MinIs
<1>7. /\ \A j \in 1 .. n : j < off => j \notin T
      /\ T = {} => off = n + 1
      /\ T # {} => off \in T /\ keys[off] # k
  <2>1. T # {} => off = Min(T)
    OBVIOUS
  <2>2. T = {} => off = n + 1
    OBVIOUS
  <2>3. T # {} => keys[off] # k
    BY <1>1, <1>5
  <2> HIDE DEF off
  <2>4. \A j \in 1 .. n : j < off => j \notin T
    <3> TAKE j \in 1 .. n
    <3> HAVE j < off
    <3> SUFFICES ASSUME j \in T PROVE FALSE
      OBVIOUS
    <3>1. off = Min(T) /\ Min(T) <= j /\ off \in Nat
      BY ONLY <1>2, <1>6, <2>1, j \in T
    <3> QED BY ONLY <3>1, j < off, j \in 1 .. n
  <2> QED BY ONLY <1>6, <2>1, <2>2, <2>3, <2>4
<1> HIDE DEF off
<1>8. s.off = off
  BY ONLY <1>1
<1>9. \A j \in 1 .. n : j < off => Less(keys[j], k)
  <2> TAKE j \in 1 .. n
  <2> HAVE j < off
  <2>1. ~(keys[j] = k \/ Less(k, keys[j])) /\ keys[j] \in K
    BY ONLY <1>3, <1>4, <1>7, j \in 1 .. n, j < off
  <2> QED BY ONLY <2>1, k \in K, Ordered(K) DEF Ordered
<1>10. \A j \in 1 .. n : j >= off => Less(k, keys[j])
  <2> TAKE j \in 1 .. n
  <2> HAVE j >= off
  <2>1. T # {}
    BY ONLY <1>2, <1>7, j \in 1 .. n, j >= off
  <2>2. off \in 1 .. n /\ off \in T /\ keys[off] # k
    BY ONLY <1>2, <1>7, <2>1
  <2>3. Less(k, keys[off]) /\ keys[off] \in K /\ keys[j] \in K
    BY ONLY <1>3, <1>4, <2>2, j \in 1 .. n
  <2>4. j = off \/ off < j
    BY ONLY <1>2, <2>2, j \in 1 .. n, j >= off
  <2>5. off < j => Less(keys[off], keys[j])
    BY ONLY <1>5, <2>2, j \in 1 .. n
  <2> QED BY ONLY <2>3, <2>4, <2>5, k \in K, Ordered(K) DEF Ordered
<1> QED BY ONLY <1>8, <1>9, <1>10 DEF Parts, n, s

-----------------------------------------------------------------------------
(***************************************************************************)
(* One block of a search.                                                  *)
(***************************************************************************)
ScanAt(t, k, exact, c) == Scan(t.blk[c].keys, k, exact)

\* The blocks that a search goes through.
FindDown(t, k, exact, c) ==
  IF ScanAt(t, k, exact, c).flg = 1 /\ (exact \/ ~t.dup) THEN c ELSE t.blk[c].kids[ScanAt(t, k, exact, c).off]
FindNext(t, k, exact) ==
  [c \in DOMAIN t.blk |-> IF t.blk[c].type = "U" THEN FindDown(t, k, exact, c) ELSE c]

Spans(lo, hi, k, c) == Less(lo[c], k) /\ Less(k, hi[c])

\* A step from x to c on the way down.
StepTo(W, ks, ds, lev, s, x, c) ==
  c \in W /\ lev[c] + 1 = lev[x] /\ lev[c] < lev[x] /\ LeadsTo(W, ks, ds, s, c)

\* One block of a search: it ends in a leaf or at the key, or goes to the kid
\* whose bounds hold the key.
LEMMA FindStep ==
  ASSUME NEW K, Ordered(K), NEW h, NEW low, NEW high, NEW t, NEW W, NEW lev, NEW lo, NEW hi, NEW E,
         Form(h, K, low, high, t, W, lev, lo, hi, 0, 0, E), NEW k, NEW exact, exact \in BOOLEAN, NEW x, x \in W
  PROVE  /\ x \in DOMAIN t.blk /\ FindNext(t, k, exact)[x] \in W
         /\ FindNext(t, k, exact)[x] = x => t.blk[x].type # "U" \/ ScanAt(t, k, exact, x).flg = 1
         /\ FindNext(t, k, exact)[x] # x =>
              /\ t.blk[x].type = "U"
              /\ StepTo(W, KeysIn(t, W), KidsIn(t, W), lev, Spot(x, ScanAt(t, k, exact, x).off), x, FindNext(t, k, exact)[x])
         /\ k \in K /\ exact /\ Spans(lo, hi, k, x) => Spans(lo, hi, k, FindNext(t, k, exact)[x])
<1> DEFINE ks == KeysIn(t, W)
           ds == KidsIn(t, W)
           a == t.root
           s == ScanAt(t, k, exact, x)
           i == s.off
           keys == t.blk[x].keys
           c == FindNext(t, k, exact)[x]
<1>1. Shape(K, low, high, W, a, ks, ds, lev, lo, hi, 0, 0, E) /\ Stored(h, K, t, W) /\ t \in Indexes(h, K)
  BY DEF Form, Stored
<1>2. x \in DOMAIN t.blk
  <2>1. \E dl, fl : Whole(t, W, dl, fl)
    BY ONLY <1>1 DEF Stored
  <2> QED BY ONLY x \in W, <1>1, <2>1, WholeParts
<1>3. t.blk[x].type \in {"U", "V"} /\ keys \in Seq(K) /\ (t.blk[x].type = "U" => t.blk[x].kids # <<>>)
  BY ONLY <1>1, x \in W, StoredBlock
<1>4. ks[x] = keys /\ ds[x] = KidsOf(t.blk[x])
  BY ONLY ViewIs, x \in W
<1>5. c = IF t.blk[x].type = "U"
          THEN IF s.flg = 1 /\ (exact \/ ~t.dup) THEN x ELSE t.blk[x].kids[i]
          ELSE x
  BY <1>2 DEF FindNext, FindDown
<1>6. s = Scan(keys, k, exact)
  BY DEF ScanAt
<1> HIDE DEF ks, ds, a, s, c, keys
<1>7. ScanOn(keys, s)
  BY ONLY <1>3, <1>6, ScanIs
<1>8. i \in 1 .. Len(ks[x]) + 1
  BY ONLY <1>4, <1>7 DEF ScanOn
<1> HIDE DEF i
<1>9. CASE c = x
  <2>1. t.blk[x].type # "U" \/ s.flg = 1
    <3>1. ASSUME t.blk[x].type = "U", s.flg # 1 PROVE FALSE
      <4>1. c = ds[x][i] /\ ds[x] # <<>>
        BY ONLY <1>3, <1>4, <1>5, <3>1 DEF KidsOf
      <4>2. lev[ds[x][i]] + 1 = lev[x] /\ lev[ds[x][i]] \in Nat
        BY ONLY Ordered(K), <1>1, <1>8, <4>1, x \in W, PlaceFacts
      <4>3. lev[x] + 1 = lev[x] /\ lev[x] \in Nat
        BY ONLY <1>9, <4>1, <4>2
      <4> QED BY ONLY <4>3
    <3> QED BY ONLY <3>1
  <2> QED BY ONLY <1>2, <1>9, <2>1, x \in W DEF c, s
<1>10. CASE c # x
  <2>1. t.blk[x].type = "U" /\ ~(s.flg = 1 /\ (exact \/ ~t.dup)) /\ c = t.blk[x].kids[i]
    BY ONLY <1>5, <1>10
  <2>2. ds[x] # <<>> /\ c = ds[x][i]
    BY ONLY <1>3, <1>4, <2>1 DEF KidsOf
  <2>3. /\ ds[x][i] \in W /\ lev[ds[x][i]] + 1 = lev[x] /\ lev[ds[x][i]] \in Nat
        /\ lo[ds[x][i]] = LowerAt(ks[x], lo[x], i)
        /\ EndOf(hi, 0, 0, ds[x][i]) = UpperAt(ks[x], hi[x], i)
    BY ONLY Ordered(K), <1>1, <1>8, <2>2, x \in W, PlaceFacts
  <2>4. c \in W /\ lev[c] + 1 = lev[x] /\ lev[c] \in Nat
    BY ONLY <2>2, <2>3
  <2>5. lev[c] < lev[x]
    <3> DEFINE u == lev[c]
               v == lev[x]
    <3>1. u \in Nat /\ u + 1 = v
      BY ONLY <2>4
    <3> HIDE DEF u, v
    <3>2. u < v
      BY ONLY <3>1
    <3> QED BY ONLY <3>2 DEF u, v
  <2>6. LeadsTo(W, ks, ds, Spot(x, i), c)
    BY ONLY <1>8, <2>2, x \in W DEF LeadsTo, Spot
  <2>7. StepTo(W, ks, ds, lev, Spot(x, i), x, c)
    BY ONLY <2>4, <2>5, <2>6 DEF StepTo
  <2>8. ASSUME k \in K, exact, Spans(lo, hi, k, x) PROVE Spans(lo, hi, k, c)
    <3>1. s.flg # 1
      BY ONLY <2>1, <2>8
    <3>2. Sorted(ks[x]) /\ ks[x] \in Seq(K) /\ Len(ks[x]) \in Nat
      <4>1. Sorted(ks[x])
        BY ONLY <1>1, x \in W DEF Shape, ShapeOfBlock
      <4> QED BY ONLY <4>1, Ordered(K), <1>1, x \in W, BlockFacts
    <3>3. exact = TRUE
      BY ONLY <2>8, exact \in BOOLEAN
    <3>4. s = Scan(ks[x], k, TRUE)
      BY ONLY <1>4, <1>6, <3>3
    <3>5. Parts(ks[x], k, i)
      <4>1. Scan(ks[x], k, TRUE).flg # 1
        BY ONLY <3>1, <3>4
      <4>2. Parts(ks[x], k, Scan(ks[x], k, TRUE).off)
        BY ONLY Ordered(K), <3>2, <4>1, <2>8, ScanParts
      <4> QED BY ONLY <3>4, <4>2 DEF i
    <3>6. lo[c] = LowerAt(ks[x], lo[x], i) /\ hi[c] = UpperAt(ks[x], hi[x], i)
      <4>1. c # 0
        BY ONLY Ordered(K), <1>1, <2>4, BlockFacts
      <4> QED BY ONLY <2>2, <2>3, <4>1 DEF EndOf
    <3>7. Less(lo[c], k)
      <4>1. CASE i = 1
        BY ONLY <2>8, <3>6, <4>1 DEF LowerAt, Spans
      <4>2. CASE i # 1
        <5> DEFINE j == i - 1
        <5>1. j \in 1 .. Len(ks[x]) /\ j < i
          BY ONLY <1>8, <3>2, <4>2
        <5>2. Less(ks[x][j], k)
          <6> HIDE DEF j
          <6> QED BY ONLY <3>5, <5>1 DEF Parts
        <5> QED BY ONLY <3>6, <4>2, <5>2 DEF LowerAt
      <4> QED BY ONLY <4>1, <4>2
    <3>8. Less(k, hi[c])
      <4>1. CASE i = Len(ks[x]) + 1
        BY ONLY <2>8, <3>6, <4>1 DEF UpperAt, Spans
      <4>2. CASE i # Len(ks[x]) + 1
        <5>1. i \in 1 .. Len(ks[x]) /\ i >= i
          BY ONLY <1>8, <3>2, <4>2
        <5>2. Less(k, ks[x][i])
          BY ONLY <3>5, <5>1 DEF Parts
        <5> QED BY ONLY <3>6, <4>2, <5>2 DEF UpperAt
      <4> QED BY ONLY <4>1, <4>2
    <3> QED BY ONLY <3>7, <3>8 DEF Spans
  <2> QED BY ONLY <1>2, <1>10, <2>1, <2>4, <2>7, <2>8 DEF c, s, ks, ds, i
<1> QED BY ONLY <1>9, <1>10

-----------------------------------------------------------------------------
(***************************************************************************)
(* The way of a search.                                                    *)
(***************************************************************************)
\* The spots on a way p down.
PathOn(t, k, exact, p) == [i \in 1 .. Len(p) |-> Spot(p[i], ScanAt(t, k, exact, p[i]).off)]

\* A search goes down by p.
GoesBy(t, W, lev, lo, hi, k, exact, sure, p) ==
  /\ p \in Seq(W) /\ Len(p) \in Nat /\ Len(p) >= 1 /\ Last(p) = p[Len(p)]
  /\ sure => \A i \in 1 .. Len(p) : Spans(lo, hi, k, p[i])
  /\ \A i \in 1 .. Len(p) - 1 : t.blk[p[i]].type = "U"
  /\ t.blk[Last(p)].type = "U" => ScanAt(t, k, exact, Last(p)).flg = 1
  /\ PathOn(t, k, exact, p) \in Seq([blk : Nat, off : Nat])
  /\ \A m \in 1 .. Len(p) :
       Leg(W, KeysIn(t, W), KidsIn(t, W), lev, t.root, SubSeq(PathOn(t, k, exact, p), 1, m - 1), p[m])

\* The blocks of a search are a way from the root.
LEMMA FindWay ==
  ASSUME NEW K, Ordered(K), NEW h, NEW low, NEW high, NEW t, NEW W, NEW lev, NEW lo, NEW hi, NEW E,
         Form(h, K, low, high, t, W, lev, lo, hi, 0, 0, E), NEW k, NEW exact, exact \in BOOLEAN, NEW sure,
         sure => exact /\ k \in K /\ Less(low, k) /\ Less(k, high)
  PROVE  GoesBy(t, W, lev, lo, hi, k, exact, sure, FindTrail(t, k, exact))
<1> DEFINE ks == KeysIn(t, W)
           ds == KidsIn(t, W)
           a == t.root
           B == DOMAIN t.blk
           next == FindNext(t, k, exact)
           V == {next[x] : x \in B}
           D == {c \in W : sure => Spans(lo, hi, k, c)}
           n == t.high
           p == Trail(next, a, n)
           N == Len(p)
           P == PathOn(t, k, exact, p)
           lv == [c \in D |-> lev[c]]
           S == [blk : Nat, off : Nat]
<1>1. Shape(K, low, high, W, a, ks, ds, lev, lo, hi, 0, 0, E) /\ Stored(h, K, t, W) /\ t \in Indexes(h, K)
  BY DEF Form, Stored
<1>2. n \in Nat /\ \A x \in W : lev[x] <= n
  BY ONLY Ordered(K), Form(h, K, low, high, t, W, lev, lo, hi, 0, 0, E), HeightIs
<1>3. FindTrail(t, k, exact) = p
  BY DEF FindTrail, FindNext, FindDown, ScanAt
<1>4. \A x \in W :
        /\ x \in B /\ next[x] \in W
        /\ next[x] = x => t.blk[x].type # "U" \/ ScanAt(t, k, exact, x).flg = 1
        /\ next[x] # x => t.blk[x].type = "U" /\ StepTo(W, ks, ds, lev, Spot(x, ScanAt(t, k, exact, x).off), x, next[x])
        /\ k \in K /\ exact /\ Spans(lo, hi, k, x) => Spans(lo, hi, k, next[x])
  BY ONLY Ordered(K), Form(h, K, low, high, t, W, lev, lo, hi, 0, 0, E), exact \in BOOLEAN, FindStep
<1>5. lev \in [W -> Nat] /\ W \subseteq Nat /\ a \in W /\ lo[a] = low /\ hi[a] = high
  <2>1. lev \in [W -> Nat] /\ W \in SUBSET (Nat \ {0}) /\ a \in W /\ lo[a] = low /\ EndOf(hi, 0, 0, a) = high
    BY ONLY <1>1 DEF Shape, ShapeTypes
  <2>2. a # 0
    BY ONLY <2>1
  <2> QED BY ONLY <2>1, <2>2 DEF EndOf
<1>6. next \in [B -> V]
  <2>1. next = [x \in B |-> next[x]]
    BY DEF FindNext
  <2> HIDE DEF next
  <2> QED BY <2>1
<1>7. sure => exact /\ k \in K /\ Less(low, k) /\ Less(k, high)
  OBVIOUS
<1>8. D = {c \in W : sure => Spans(lo, hi, k, c)} /\ lv = [c \in D |-> lev[c]]
  OBVIOUS
<1> HIDE DEF ks, ds, B, next, V, n, a, D, lv
<1>9. Nearer(next, D, lv)
  <2> SUFFICES ASSUME NEW x, x \in D PROVE next[x] \in D /\ (next[x] # x => lv[next[x]] < lv[x])
    BY DEF Nearer
  <2>1. x \in W /\ (sure => Spans(lo, hi, k, x))
    BY ONLY <1>8, x \in D
  <2>2. next[x] \in W /\ (sure => Spans(lo, hi, k, next[x]))
    BY ONLY <1>4, <1>7, <2>1
  <2>3. next[x] # x => lev[next[x]] < lev[x]
    BY ONLY <1>4, <2>1 DEF StepTo
  <2>4. next[x] \in D
    BY ONLY <1>8, <2>2
  <2>5. lv[x] = lev[x] /\ lv[next[x]] = lev[next[x]]
    BY ONLY <1>8, <2>4, x \in D
  <2> QED BY ONLY <2>3, <2>4, <2>5
<1>10. TrailEnds(next, D, a, p)
  <2>1. D \in SUBSET B
    BY ONLY <1>4, <1>8
  <2>2. lv \in [D -> Nat]
    <3>1. D \subseteq W
      BY ONLY <1>8
    <3>2. \A c \in D : lev[c] \in Nat
      BY ONLY <1>5, <3>1
    <3> QED BY ONLY <1>8, <3>2
  <2>3. a \in D
    BY ONLY <1>5, <1>7, <1>8 DEF Spans
  <2>4. n \in Nat
    BY ONLY <1>2
  <2>5. lv[a] <= n
    BY ONLY <1>2, <1>5, <1>8, <2>3
  <2> QED BY ONLY <1>6, <1>9, <2>1, <2>2, <2>3, <2>4, <2>5, TrailOf
<1> HIDE DEF p
<1>11. /\ p \in Seq(D) /\ N \in Nat /\ N >= 1 /\ p[1] = a /\ Last(p) = p[N] /\ next[Last(p)] = Last(p)
       /\ \A i \in 1 .. N - 1 : p[i + 1] = next[p[i]] /\ next[p[i]] # p[i]
  BY ONLY <1>10 DEF TrailEnds, IsTrail
<1> HIDE DEF N
<1>12. \A i \in 1 .. N : p[i] \in W /\ (sure => Spans(lo, hi, k, p[i]))
  <2>1. \A i \in 1 .. N : p[i] \in D
    BY ONLY <1>11, ElementOfSeq DEF N
  <2> QED BY ONLY <1>8, <2>1
<1>13. p \in Seq(W)
  <2>1. D \subseteq W
    BY ONLY <1>8
  <2>2. p = [i \in 1 .. N |-> p[i]]
    BY ONLY <1>11 DEF N
  <2>3. p \in [1 .. N -> W]
    BY ONLY <1>12, <2>2
  <2> QED BY ONLY <1>11, <2>3, IsSeq
<1>14. \A i \in 1 .. N - 1 : i \in 1 .. N /\ i + 1 \in 1 .. N
  BY ONLY <1>11
<1>15. \A i \in 1 .. N - 1 :
         t.blk[p[i]].type = "U" /\ StepTo(W, ks, ds, lev, Spot(p[i], ScanAt(t, k, exact, p[i]).off), p[i], p[i + 1])
  <2> TAKE i \in 1 .. N - 1
  <2>1. p[i] \in W /\ p[i + 1] = next[p[i]] /\ next[p[i]] # p[i]
    BY ONLY <1>11, <1>12, <1>14, i \in 1 .. N - 1
  <2> QED BY ONLY <1>4, <2>1
<1>16. t.blk[Last(p)].type = "U" => ScanAt(t, k, exact, Last(p)).flg = 1
  <2>1. Last(p) \in W
    <3>1. N \in 1 .. N
      BY ONLY <1>11
    <3> QED BY ONLY <1>11, <1>12, <3>1
  <2> QED BY ONLY <1>4, <1>11, <2>1
<1>17. \A x \in W : ScanAt(t, k, exact, x).off \in Nat
  <2> TAKE x \in W
  <2> DEFINE keys == t.blk[x].keys
  <2>1. keys \in Seq(K)
    BY ONLY <1>1, x \in W, StoredBlock
  <2> HIDE DEF keys
  <2>2. ScanOn(keys, Scan(keys, k, exact)) /\ Len(keys) \in Nat
    BY ONLY <2>1, ScanIs, LenProperties
  <2>3. Scan(keys, k, exact).off \in Nat
    BY ONLY <2>2 DEF ScanOn
  <2> QED BY ONLY <2>3 DEF ScanAt, keys
<1>18. P = [i \in 1 .. N |-> Spot(p[i], ScanAt(t, k, exact, p[i]).off)]
  BY DEF PathOn, N
<1> HIDE DEF P
<1>19. \A i \in 1 .. N : P[i] \in S /\ P[i] = Spot(p[i], ScanAt(t, k, exact, p[i]).off) /\ P[i].blk = p[i]
  <2> TAKE i \in 1 .. N
  <2>1. p[i] \in Nat /\ ScanAt(t, k, exact, p[i]).off \in Nat
    BY ONLY <1>5, <1>12, <1>17, i \in 1 .. N
  <2>2. P[i] = Spot(p[i], ScanAt(t, k, exact, p[i]).off)
    BY ONLY <1>18, i \in 1 .. N
  <2> QED BY ONLY <2>1, <2>2 DEF Spot
<1>20. P \in Seq(S) /\ Len(P) = N
  <2>1. P \in [1 .. N -> S]
    BY ONLY <1>18, <1>19
  <2> QED BY ONLY <1>11, <2>1, IsSeq
<1> HIDE DEF S
<1>21. ASSUME NEW m \in 1 .. N
       PROVE  Leg(W, ks, ds, lev, a, SubSeq(P, 1, m - 1), p[m])
  <2> DEFINE w == SubSeq(p, 1, m)
             M == m - 1
             path == SubSeq(P, 1, M)
  <2>1. m \in 0 .. Len(p) /\ M \in 0 .. Len(P) /\ 1 <= m + 1 /\ 1 <= M + 1 /\ m - 1 + 1 = m /\ M - 1 + 1 = M /\ m \in Nat /\ m >= 1
        /\ M = m - 1 /\ 1 \in 1 .. Len(p) + 1 /\ 1 \in 1 .. Len(P) + 1
    BY ONLY <1>11, <1>20, m \in 1 .. N DEF N
  <2>2. w \in Seq(W) /\ Len(w) = m /\ \A i \in 1 .. m : w[i] = p[i]
    <3>1. w \in Seq(W) /\ Len(w) = m - 1 + 1 /\ \A i \in 1 .. m - 1 + 1 : w[i] = p[1 + i - 1]
      BY ONLY <1>13, <2>1, SubSeqIs
    <3>2. \A i \in 1 .. m : 1 + i - 1 = i
      BY ONLY <2>1
    <3> HIDE DEF w
    <3> QED BY ONLY <2>1, <3>1, <3>2
  <2> HIDE DEF M
  <2>3. path \in Seq(S) /\ Len(path) = M /\ \A i \in 1 .. M : path[i] = P[i]
    <3>1. path \in Seq(S) /\ Len(path) = M - 1 + 1 /\ \A i \in 1 .. M - 1 + 1 : path[i] = P[1 + i - 1]
      BY ONLY <1>20, <2>1, SubSeqIs
    <3>2. \A i \in 1 .. M : 1 + i - 1 = i
      BY ONLY <2>1
    <3> HIDE DEF path
    <3> QED BY ONLY <2>1, <3>1, <3>2
  <2> HIDE DEF w, path
  <2>4. w # <<>>
    BY ONLY <2>1, <2>2
  <2>5. path = [i \in 1 .. Len(w) - 1 |-> path[i]]
    <3>1. path = [i \in 1 .. M |-> path[i]]
      BY ONLY <2>3
    <3> QED BY ONLY <2>1, <2>2, <3>1
  <2>6. ASSUME NEW i \in 1 .. Len(w) - 1
        PROVE  /\ path[i] \in [blk : Nat, off : Nat] /\ path[i].blk = w[i]
               /\ LeadsTo(W, ks, ds, path[i], w[i + 1]) /\ lev[w[i + 1]] + 1 = lev[w[i]]
    <3>1. i \in 1 .. M /\ i \in 1 .. m /\ i + 1 \in 1 .. m /\ i \in 1 .. N - 1 /\ i \in 1 .. N
      BY ONLY <1>11, <2>1, <2>2, i \in 1 .. Len(w) - 1, m \in 1 .. N
    <3>2. path[i] = P[i] /\ w[i] = p[i] /\ w[i + 1] = p[i + 1]
      BY ONLY <2>2, <2>3, <3>1
    <3>3. path[i] \in [blk : Nat, off : Nat] /\ path[i].blk = w[i]
      BY ONLY <1>19, <3>1, <3>2 DEF S
    <3>4. StepTo(W, ks, ds, lev, P[i], p[i], p[i + 1])
      BY ONLY <1>15, <1>19, <3>1
    <3> QED BY ONLY <3>2, <3>3, <3>4 DEF StepTo
  <2>7. W \subseteq Nat
    BY ONLY <1>5
  <2>8. lev \in [W -> Nat]
    BY ONLY <1>5
  <2>9. w \in Seq(W)
    BY ONLY <2>2
  <2>10. Leg(W, ks, ds, lev, w[1], path, w[Len(w)])
    BY ONLY <2>4, <2>5, <2>6, <2>7, <2>8, <2>9, LegOf
  <2>11. w[1] = a /\ w[Len(w)] = p[m]
    <3>1. 1 \in 1 .. m /\ m \in 1 .. m
      BY ONLY <2>1
    <3>2. p[1] = a
      BY ONLY <1>11
    <3> QED BY ONLY <2>2, <3>1, <3>2
  <2> QED BY ONLY <2>10, <2>11 DEF path, M
<1>22. GoesBy(t, W, lev, lo, hi, k, exact, sure, p)
  <2>1. N = Len(p)
    BY DEF N
  <2>2. PathOn(t, k, exact, p) = P
    BY DEF P
  <2> QED BY ONLY <1>11, <1>12, <1>13, <1>15, <1>16, <1>20, <1>21, <2>1, <2>2 DEF GoesBy, S, ks, ds, a
<1> QED BY ONLY <1>3, <1>22

-----------------------------------------------------------------------------
(***************************************************************************)
(* Where a search ends.                                                    *)
(***************************************************************************)
\* What a search ends with in the leaf b, where the scan gave s: on a key of the
\* leaf or before or behind its keys, unless the path has the key at level hit.
EndsInLeaf(f, b, s, path) ==
  /\ f.path = path /\ (f.flg = 1 <=> s.flg = 1)
  /\ \/ f.vblock = 0 /\ f.spot = Spot(b, s.off)
     \/ f.vblock = b /\ s.flg = 4
EndsAbove(f, path, hit) == f.flg = 1 /\ f.spot = path[hit] /\ f.path = SubSeq(path, 1, hit)

\* The end of a search in a leaf: in it, or at the key above that was passed.
LEMMA LeafFound ==
  ASSUME NEW t, NEW b, NEW s, NEW path, NEW hit, NEW dup, NEW f, f = FindInLeaf(t, b, s, path, hit, dup)
  PROVE  IF s.flg # 1 /\ hit # 0 THEN EndsAbove(f, path, hit) ELSE EndsInLeaf(f, b, s, path)
<1> DEFINE first == \A i \in DOMAIN path : path[i].off = 1
           last == \A i \in DOMAIN path : AtEnd(t, path[i])
           z == NextSpot(t, Spot(b, s.off), path).spot
<1>1. f = IF s.flg # 1 /\ hit # 0
          THEN Found(path[hit], 1, SubSeq(path, 1, hit), 0, dup)
          ELSE IF s.flg = 2 /\ ~first THEN Found(Spot(b, s.off), 3, path, 0, dup)
          ELSE IF s.flg # 4 \/ last THEN Found(Spot(b, s.off), s.flg, path, 0, dup)
          ELSE Found(z, 3, path, b, dup)
  BY DEF FindInLeaf
<1> HIDE DEF first, last, z
<1>2. CASE s.flg # 1 /\ hit # 0
  BY ONLY <1>1, <1>2 DEF Found, EndsAbove
<1>3. CASE ~(s.flg # 1 /\ hit # 0)
  <2>1. CASE s.flg = 2 /\ ~first
    BY ONLY <1>1, <1>3, <2>1 DEF Found, EndsInLeaf
  <2>2. CASE ~(s.flg = 2 /\ ~first) /\ (s.flg # 4 \/ last)
    BY ONLY <1>1, <1>3, <2>2 DEF Found, EndsInLeaf
  <2>3. CASE ~(s.flg = 2 /\ ~first) /\ ~(s.flg # 4 \/ last)
    BY ONLY <1>1, <1>3, <2>3 DEF Found, EndsInLeaf
  <2> QED BY ONLY <1>3, <2>1, <2>2, <2>3
<1> QED BY ONLY <1>2, <1>3

\* Where an insert puts the key k that f did not find.
Into(f) == IF f.vblock # 0 THEN f.vblock ELSE f.spot.blk
At(t, f) == IF f.vblock # 0 THEN Len(t.blk[f.vblock].keys) + 1 ELSE f.spot.off
Fitting(K, t, W, lev, lo, hi, f, k) ==
  /\ Into(f) \in W /\ Belongs(K, KeysIn(t, W), KidsIn(t, W), lo, hi, Into(f), At(t, f), k)
  /\ Leg(W, KeysIn(t, W), KidsIn(t, W), lev, t.root, f.path, Into(f))

FirstPart(P, n, F) == n \in 0 .. Len(P) /\ F = SubSeq(P, 1, n)
ShorterAre(P, F, m) == SubSeq(F, 1, m) # <<>> /\ Front(SubSeq(F, 1, m)) = SubSeq(P, 1, m - 1) /\ F[m] = P[m]
\* The first steps of a way, without the last of them.
LEMMA FrontOfFirst ==
  ASSUME NEW S, NEW P, P \in Seq(S), NEW n, NEW m, m \in 1 .. n, NEW F, FirstPart(P, n, F)
  PROVE  ShorterAre(P, F, m)
<1> DEFINE M == m - 1
           G == SubSeq(F, 1, m)
           H == SubSeq(G, 1, M)
           I == SubSeq(P, 1, M)
<1>0. n \in 0 .. Len(P) /\ F = SubSeq(P, 1, n)
  BY DEF FirstPart
<1>1. Len(P) \in Nat /\ n \in Nat /\ m \in Nat /\ m >= 1 /\ m <= n /\ n <= Len(P) /\ M \in Nat /\ M + 1 = m
  BY <1>0, LenProperties
<1>2. n \in 0 .. Len(P) /\ 1 \in 1 .. Len(P) + 1 /\ 1 <= n + 1 /\ M \in 0 .. Len(P) /\ 1 <= M + 1 /\ 1 <= m + 1
  BY ONLY <1>1
<1>3. M = m - 1
  OBVIOUS
<1> HIDE DEF M
<1>4. \A x \in Nat : x - 1 + 1 = x /\ 1 + x - 1 = x
  OBVIOUS
<1>5. F \in Seq(S) /\ Len(F) = n /\ \A i \in 1 .. n : F[i] = P[i]
  <2>1. F \in Seq(S) /\ Len(F) = n - 1 + 1 /\ \A i \in 1 .. n - 1 + 1 : F[i] = P[1 + i - 1]
    BY ONLY <1>0, <1>2, P \in Seq(S), SubSeqIs
  <2> QED BY ONLY <1>1, <1>4, <2>1
<1>6. m \in 0 .. Len(F) /\ 1 \in 1 .. Len(F) + 1
  BY ONLY <1>1, <1>5
<1>7. G \in Seq(S) /\ Len(G) = m /\ \A i \in 1 .. m : G[i] = F[i]
  <2>1. G \in Seq(S) /\ Len(G) = m - 1 + 1 /\ \A i \in 1 .. m - 1 + 1 : G[i] = F[1 + i - 1]
    BY ONLY <1>2, <1>5, <1>6, SubSeqIs
  <2> HIDE DEF G
  <2> QED BY ONLY <1>1, <1>4, <2>1
<1> HIDE DEF G
<1>8. M \in 0 .. Len(G) /\ 1 \in 1 .. Len(G) + 1
  BY ONLY <1>1, <1>7
<1>9. H \in Seq(S) /\ Len(H) = M /\ \A i \in 1 .. M : H[i] = G[i]
  <2>1. H \in Seq(S) /\ Len(H) = M - 1 + 1 /\ \A i \in 1 .. M - 1 + 1 : H[i] = G[1 + i - 1]
    BY ONLY <1>2, <1>7, <1>8, SubSeqIs
  <2> HIDE DEF H
  <2> QED BY ONLY <1>1, <1>4, <2>1
<1>10. I \in Seq(S) /\ Len(I) = M /\ \A i \in 1 .. M : I[i] = P[i]
  <2>1. I \in Seq(S) /\ Len(I) = M - 1 + 1 /\ \A i \in 1 .. M - 1 + 1 : I[i] = P[1 + i - 1]
    BY ONLY <1>2, P \in Seq(S), SubSeqIs
  <2> HIDE DEF I
  <2> QED BY ONLY <1>1, <1>4, <2>1
<1>11. Front(G) = H
  <2>1. Front(G) = SubSeq(G, 1, Len(G) - 1)
    BY DEF Front
  <2> QED BY ONLY <1>3, <1>7, <2>1
<1> HIDE DEF H, I
<1>12. H = I
  <2>1. \A i \in 1 .. M : i \in 1 .. m /\ i \in 1 .. n
    BY ONLY <1>1
  <2>2. \A i \in 1 .. M : H[i] = I[i]
    BY ONLY <1>5, <1>7, <1>9, <1>10, <2>1
  <2> QED BY ONLY <1>9, <1>10, <2>2
<1>13. G # <<>>
  BY ONLY <1>1, <1>7
<1>14. F[m] = P[m]
  BY ONLY <1>1, <1>5, m \in 1 .. n
<1> QED BY ONLY <1>3, <1>11, <1>12, <1>13, <1>14 DEF G, I, ShorterAre

-----------------------------------------------------------------------------
(***************************************************************************)
(* What a search finds.                                                    *)
(***************************************************************************)
\* A search on the way p finds a key that is there, and where one belongs that is not.
Finds(K, t, W, lev, lo, hi, k, exact, sure, f) ==
  /\ f.flg = 1 => FoundKey(t, W, lev, f)
  /\ f.flg = 1 /\ exact => t.blk[f.spot.blk].keys[f.spot.off] = k
  /\ f.flg # 1 /\ sure => Fitting(K, t, W, lev, lo, hi, f, k)

\* What a search with a given exactness finds.
LEMMA FoundOn ==
  ASSUME NEW K, Ordered(K), NEW h, NEW low, NEW high, NEW t, NEW W, NEW lev, NEW lo, NEW hi, NEW E,
         Form(h, K, low, high, t, W, lev, lo, hi, 0, 0, E), NEW k, NEW exact, exact \in BOOLEAN, NEW sure, sure => exact /\ k \in K,
         NEW p, GoesBy(t, W, lev, lo, hi, k, exact, sure, p), NEW f, f = FindOn(t, p, k, exact)
  PROVE  Finds(K, t, W, lev, lo, hi, k, exact, sure, f)
<1> DEFINE ks == KeysIn(t, W)
           ds == KidsIn(t, W)
           a == t.root
           N == Len(p)
           P == PathOn(t, k, exact, p)
           S == [blk : Nat, off : Nat]
           M == N - 1
           F == SubSeq(P, 1, M)
           b == Last(p)
           s == ScanAt(t, k, exact, b)
           dup == \E i \in DOMAIN p : Met(t.blk[p[i]].keys, k, Scan(t.blk[p[i]].keys, k, exact).off)
           hits == {i \in 1 .. M : ScanAt(t, k, exact, p[i]).flg = 1}
           hit == Max(hits \cup {0})
<1>1. Shape(K, low, high, W, a, ks, ds, lev, lo, hi, 0, 0, E) /\ Stored(h, K, t, W) /\ W \subseteq Nat \ {0}
  BY DEF Form, Shape, ShapeTypes
<1>2. /\ p \in Seq(W) /\ N \in Nat /\ N >= 1 /\ b = p[N]
      /\ sure => \A i \in 1 .. N : Spans(lo, hi, k, p[i])
      /\ \A i \in 1 .. M : t.blk[p[i]].type = "U"
      /\ t.blk[b].type = "U" => s.flg = 1
      /\ P \in Seq(S)
      /\ \A m \in 1 .. N : Leg(W, ks, ds, lev, a, SubSeq(P, 1, m - 1), p[m])
  BY DEF GoesBy
<1>3. f = IF t.blk[b].type = "U" THEN Found(Last(P), 1, P, 0, dup)
          ELSE FindInLeaf(t, b, s, Front(P), hit, dup)
  <2>1. DOMAIN p = 1 .. N
    BY ONLY <1>2
  <2>2. P = [i \in DOMAIN p |-> Spot(p[i], Scan(t.blk[p[i]].keys, k, exact).off)]
    BY ONLY <2>1 DEF PathOn, ScanAt
  <2>3. s = Scan(t.blk[p[N]].keys, k, exact)
    BY <1>2 DEF ScanAt
  <2>4. hits = {i \in 1 .. N - 1 : Scan(t.blk[p[i]].keys, k, exact).flg = 1}
    BY DEF ScanAt
  <2> HIDE DEF P, s, hits, dup
  <2>5. f = LET scan(i) == Scan(t.blk[p[i]].keys, k, exact)
                path == [i \in DOMAIN p |-> Spot(p[i], scan(i).off)]
                dup2 == \E i \in DOMAIN p : Met(t.blk[p[i]].keys, k, scan(i).off)
                hits2 == {i \in 1 .. Len(p) - 1 : scan(i).flg = 1}
            IN IF t.blk[Last(p)].type = "U" THEN Found(Last(path), 1, path, 0, dup2)
               ELSE FindInLeaf(t, Last(p), scan(Len(p)), Front(path), Max(hits2 \cup {0}), dup2)
    BY DEF FindOn
  <2> QED BY ONLY <2>2, <2>3, <2>4, <2>5 DEF dup
<1>4. \A i \in 1 .. N : P[i] = Spot(p[i], ScanAt(t, k, exact, p[i]).off)
  BY DEF PathOn
<1>5. Len(P) = N
  BY <1>2 DEF PathOn
<1>6. M \in 0 .. N /\ M = N - 1 /\ N \in 1 .. N /\ M \in Nat
  BY ONLY <1>2
<1>7. hits \in SUBSET (1 .. M) /\ \A i \in hits : ScanAt(t, k, exact, p[i]).flg = 1
  OBVIOUS
<1>8. s = ScanAt(t, k, exact, b)
  OBVIOUS
<1> HIDE DEF ks, ds, a, N, P, M, s, b, dup, hits
<1>9. hit \in 0 .. M /\ (hit # 0 => hit \in hits)
  <2> DEFINE T == hits \cup {0}
  <2>1. T \in SUBSET (0 .. M) /\ T # {}
    BY ONLY <1>6, <1>7
  <2> HIDE DEF T
  <2>2. Max(T) \in T
    BY ONLY <1>6, <2>1, MaxIs
  <2>3. hit = Max(T)
    BY DEF T
  <2> HIDE DEF hit
  <2>4. hit \in hits \cup {0}
    BY ONLY <2>2, <2>3 DEF T
  <2> QED BY ONLY <1>6, <1>7, <2>4
<1> HIDE DEF hit
<1>10. Front(P) = F
  BY ONLY <1>5, <1>6 DEF Front
<1>11. \A i \in 1 .. N : p[i] \in W
  BY ONLY <1>2, ElementOfSeq DEF N
<1>12. b \in W
  BY ONLY <1>2, <1>6, <1>11
<1>13. \A x \in W : ks[x] = t.blk[x].keys /\ ks[x] \in Seq(K) /\ t.blk[x].type \in {"U", "V"}
                    /\ ScanOn(t.blk[x].keys, ScanAt(t, k, exact, x))
  <2> TAKE x \in W
  <2>1. ks[x] = t.blk[x].keys
    BY ONLY x \in W, ViewIs DEF ks
  <2> DEFINE keys == t.blk[x].keys
  <2>2. keys \in Seq(K) /\ t.blk[x].type \in {"U", "V"}
    BY ONLY <1>1, x \in W, StoredBlock
  <2> HIDE DEF keys
  <2>3. ScanOn(keys, Scan(keys, k, exact))
    BY ONLY <2>2, ScanIs
  <2> QED BY ONLY <2>1, <2>2, <2>3 DEF keys, ScanAt
<1>13a. ASSUME NEW x, ScanAt(t, k, exact, x).flg = 1, exact
        PROVE  t.blk[x].keys[ScanAt(t, k, exact, x).off] = k
  <2>1. exact = TRUE
    BY <1>13a
  <2> DEFINE keys == t.blk[x].keys
  <2>2. Scan(keys, k, TRUE).flg = 1
    BY <1>13a, <2>1 DEF ScanAt
  <2> HIDE DEF keys
  <2>3. keys[Scan(keys, k, TRUE).off] = k
    BY ONLY <2>2, ScanHit
  <2> QED BY ONLY <2>1, <2>3 DEF keys, ScanAt
<1>14. Leg(W, ks, ds, lev, a, F, b)
  BY ONLY <1>2, <1>6
<1>15. CASE t.blk[b].type = "U"
  <2>1. f = Found(Last(P), 1, P, 0, dup) /\ s.flg = 1
    BY ONLY <1>2, <1>3, <1>15
  <2>2. Last(P) = Spot(b, s.off)
    <3>1. Last(P) = P[N]
      BY ONLY <1>5 DEF Last
    <3> QED BY ONLY <1>2, <1>4, <1>6, <1>8, <3>1
  <2>3. P # <<>>
    BY ONLY <1>2, <1>5
  <2>4. f.flg = 1 /\ f.spot = Spot(b, s.off) /\ f.path = P
    BY ONLY <2>1, <2>2 DEF Found
  <2>5. f.spot.blk = b /\ f.spot.off = s.off
    BY ONLY <2>4 DEF Spot
  <2>6. s.off \in 1 .. Len(t.blk[b].keys)
    BY ONLY <1>8, <1>12, <1>13, <2>1 DEF ScanOn
  <2>7. Leg(W, ks, ds, lev, a, Front(f.path), b)
    BY ONLY <1>10, <1>14, <2>4
  <2>8. FoundKey(t, W, lev, f)
    BY ONLY <1>12, <1>15, <2>3, <2>4, <2>5, <2>6, <2>7 DEF FoundKey, ks, ds, a
  <2>9. exact => t.blk[b].keys[s.off] = k
    BY ONLY <1>8, <1>13a, <2>1
  <2> QED BY ONLY <2>4, <2>5, <2>8, <2>9 DEF Finds
<1>16. CASE t.blk[b].type # "U"
  <2>1. f = FindInLeaf(t, b, s, F, hit, dup)
    BY ONLY <1>3, <1>10, <1>16
  <2>2. IF s.flg # 1 /\ hit # 0 THEN EndsAbove(f, F, hit) ELSE EndsInLeaf(f, b, s, F)
    <3> HIDE DEF F
    <3> QED BY ONLY <2>1, LeafFound
  <2>3. t.blk[b].type = "V"
    BY ONLY <1>12, <1>13, <1>16
  <2>4. CASE s.flg # 1 /\ hit # 0
    <3>1. f.flg = 1 /\ f.spot = F[hit] /\ f.path = SubSeq(F, 1, hit)
      BY ONLY <2>2, <2>4 DEF EndsAbove
    <3>2. hit \in 1 .. M /\ hit \in 1 .. N /\ ScanAt(t, k, exact, p[hit]).flg = 1
      BY ONLY <1>2, <1>6, <1>7, <1>9, <2>4
    <3>3. SubSeq(F, 1, hit) # <<>> /\ Front(SubSeq(F, 1, hit)) = SubSeq(P, 1, hit - 1) /\ F[hit] = P[hit]
      <4>1. P \in Seq(S)
        BY ONLY <1>2
      <4>2. M \in 0 .. Len(P)
        BY ONLY <1>5, <1>6
      <4>3. hit \in 1 .. M
        BY ONLY <3>2
      <4>4. FirstPart(P, M, F)
        BY ONLY <4>2 DEF FirstPart
      <4> HIDE DEF S, F
      <4>5. ShorterAre(P, F, hit)
        BY ONLY <4>1, <4>3, <4>4, FrontOfFirst
      <4> QED BY ONLY <4>5 DEF ShorterAre
    <3> DEFINE x == p[hit]
    <3>4. x \in W /\ t.blk[x].type = "U"
      BY ONLY <1>2, <1>11, <3>2
    <3>5. f.spot = Spot(x, ScanAt(t, k, exact, x).off)
      BY ONLY <1>4, <3>1, <3>2, <3>3
    <3>6. Leg(W, ks, ds, lev, a, Front(f.path), x) /\ f.path # <<>>
      BY ONLY <1>2, <3>1, <3>2, <3>3
    <3>7. ScanAt(t, k, exact, x).flg = 1
      BY ONLY <3>2
    <3> HIDE DEF x
    <3>8. f.spot.blk = x /\ f.spot.off = ScanAt(t, k, exact, x).off
      BY ONLY <3>5 DEF Spot
    <3>9. f.spot.off \in 1 .. Len(t.blk[x].keys)
      BY ONLY <1>13, <3>4, <3>7, <3>8 DEF ScanOn
    <3>10. FoundKey(t, W, lev, f)
      BY ONLY <3>4, <3>6, <3>8, <3>9 DEF FoundKey, ks, ds, a
    <3>11. exact => t.blk[x].keys[ScanAt(t, k, exact, x).off] = k
      BY ONLY <1>13a, <3>7
    <3> QED BY ONLY <3>1, <3>8, <3>10, <3>11 DEF Finds
  <2>5. CASE ~(s.flg # 1 /\ hit # 0)
    <3>1. EndsInLeaf(f, b, s, F)
      BY ONLY <2>2, <2>5
    <3>2. f.path = F /\ (f.flg = 1 <=> s.flg = 1)
      BY ONLY <3>1 DEF EndsInLeaf
    <3>3. (f.vblock = 0 /\ f.spot = Spot(b, s.off)) \/ (f.vblock = b /\ s.flg = 4)
      BY ONLY <3>1 DEF EndsInLeaf
    <3>4. Leg(W, ks, ds, lev, a, f.path, b)
      BY ONLY <1>14, <3>2
    <3>5. ScanOn(t.blk[b].keys, s)
      BY ONLY <1>8, <1>12, <1>13
    <3>6. ASSUME f.flg = 1 PROVE FoundKey(t, W, lev, f)
      <4>1. s.flg = 1 /\ f.spot = Spot(b, s.off)
        BY ONLY <3>2, <3>3, <3>6
      <4>2. f.spot.blk = b /\ f.spot.off = s.off
        BY ONLY <4>1 DEF Spot
      <4>3. s.off \in 1 .. Len(t.blk[b].keys)
        BY ONLY <3>5, <4>1 DEF ScanOn
      <4> QED BY ONLY <1>12, <2>3, <3>4, <4>2, <4>3 DEF FoundKey, ks, ds, a
    <3>7. ASSUME f.flg # 1, sure PROVE Fitting(K, t, W, lev, lo, hi, f, k)
      <4>1. s.flg # 1 /\ k \in K /\ exact = TRUE
        BY <3>2, <3>7
      <4>2. Into(f) = b /\ At(t, f) = s.off
        <5>1. b # 0
          BY ONLY <1>1, <1>12
        <5>2. CASE f.vblock = 0 /\ f.spot = Spot(b, s.off)
          BY ONLY <5>2 DEF Into, At, Spot
        <5>3. CASE f.vblock = b /\ s.flg = 4
          <6>1. s.off = Len(t.blk[b].keys) + 1
            BY ONLY <3>5, <5>3 DEF ScanOn
          <6> QED BY ONLY <5>1, <5>3, <6>1 DEF Into, At
        <5> QED BY ONLY <3>3, <5>2, <5>3
      <4>3. ds[b] = <<>>
        <5>1. ds[b] = KidsOf(t.blk[b])
          BY ONLY <1>12, ViewIs DEF ds
        <5> QED BY ONLY <1>16, <5>1 DEF KidsOf
      <4>4. Spans(lo, hi, k, b)
        BY ONLY <1>2, <1>6, <3>7
      <4>5. s.off \in 1 .. Len(ks[b]) + 1
        BY ONLY <1>12, <1>13, <3>5 DEF ScanOn
      <4>6. Parts(ks[b], k, s.off)
        <5>1. s = Scan(ks[b], k, TRUE)
          BY ONLY <1>8, <1>12, <1>13, <4>1 DEF ScanAt
        <5>2. Sorted(ks[b])
          BY ONLY <1>1, <1>12 DEF Shape, ShapeOfBlock
        <5>3. Scan(ks[b], k, TRUE).flg # 1
          BY ONLY <4>1, <5>1
        <5>4. ks[b] \in Seq(K) /\ k \in K
          BY ONLY <1>12, <1>13, <4>1
        <5>5. Parts(ks[b], k, Scan(ks[b], k, TRUE).off)
          BY ONLY Ordered(K), <5>2, <5>3, <5>4, ScanParts
        <5> QED BY ONLY <5>1, <5>5
      <4>7. Belongs(K, ks, ds, lo, hi, b, s.off, k)
        BY ONLY <4>1, <4>3, <4>4, <4>5, <4>6 DEF Belongs, Parts, Spans
      <4> QED BY ONLY <1>12, <3>4, <4>2, <4>7 DEF Fitting, ks, ds, a
    <3>8. ASSUME f.flg = 1, exact PROVE t.blk[f.spot.blk].keys[f.spot.off] = k
      <4>1. s.flg = 1 /\ f.spot = Spot(b, s.off)
        BY ONLY <3>2, <3>3, <3>8
      <4>2. f.spot.blk = b /\ f.spot.off = s.off
        BY ONLY <4>1 DEF Spot
      <4>3. t.blk[b].keys[s.off] = k
        BY ONLY <1>8, <1>13a, <3>8, <4>1
      <4> QED BY ONLY <4>2, <4>3
    <3> QED BY ONLY <3>6, <3>7, <3>8 DEF Finds
  <2> QED BY ONLY <2>4, <2>5
<1> QED BY ONLY <1>15, <1>16

-----------------------------------------------------------------------------
(***************************************************************************)
(* Inserts, deletes and record places keep an index sound.                 *)
(***************************************************************************)
\* What xioxfind answers: the way to a block, and the place in it where the key
\* is or would be.
THEOREM FindIs ==
  ASSUME NEW K, Ordered(K), NEW h, NEW low, NEW high, NEW t, NEW W, NEW lev, NEW lo, NEW hi, NEW E,
         Form(h, K, low, high, t, W, lev, lo, hi, 0, 0, E), NEW k, NEW exact, exact \in BOOLEAN,
         NEW sure, sure => exact /\ k \in K /\ Less(low, k) /\ Less(k, high), NEW f, f = Find(t, k, exact)
  PROVE  Finds(K, t, W, lev, lo, hi, k, exact, sure, f)
<1> DEFINE p == FindTrail(t, k, exact)
<1>1. t.root # 0
  BY DEF Form, Shape, ShapeTypes
<1>2. f = FindOn(t, p, k, exact)
  BY ONLY <1>1, f = Find(t, k, exact) DEF Find
<1>3. GoesBy(t, W, lev, lo, hi, k, exact, sure, p)
  BY ONLY Ordered(K), Form(h, K, low, high, t, W, lev, lo, hi, 0, 0, E), exact \in BOOLEAN,
     sure => exact /\ k \in K /\ Less(low, k) /\ Less(k, high), FindWay
<1>4. sure => exact /\ k \in K
  OBVIOUS
<1>5. Form(h, K, low, high, t, W, lev, lo, hi, 0, 0, E) /\ exact \in BOOLEAN
  OBVIOUS
<1> HIDE DEF p
<1> QED BY ONLY Ordered(K), <1>2, <1>3, <1>4, <1>5, FoundOn

\* An insert of a key that is not there.
THEOREM InsertSound ==
  ASSUME NEW K, Ordered(K), NEW h, Header(h), NEW low, low \in K, NEW high, high \in K, NEW m, m \in Nat,
         K \subseteq Keys(m), Len(h.parts) <= m, NEW t, Sound(h, K, low, high, t),
         NEW k, k \in K, Less(low, k), Less(k, high), NEW f, f = Find(t, k, TRUE), f.flg # 1
  PROVE  Good(h, K, low, high, InsertKey(t, f, k))
<1>1. CASE Stored(h, K, t, {}) /\ t.root = 0
  <2> DEFINE t2 == [Add(t, Leaf(<<k>>)) EXCEPT !.root = NewBlock(t)]
  <2>1. InsertKey(t, f, k) = t2
    BY ONLY <1>1 DEF InsertKey
  <2>2. t2 = [Add(t, Leaf(<<k>>)) EXCEPT !.root = NewBlock(t)]
    OBVIOUS
  <2>3. Stored(h, K, t, {})
    BY <1>1
  <2> HIDE DEF t2
  <2>4. Good(h, K, low, high, t2)
    BY ONLY Ordered(K), Header(h), low \in K, high \in K, <2>2, <2>3, k \in K, Less(low, k), Less(k, high), FirstKey
  <2> QED BY ONLY <2>1, <2>4
<1>2. CASE Good(h, K, low, high, t)
  <2>1. PICK W, lev, lo, hi : Form(h, K, low, high, t, W, lev, lo, hi, 0, 0, {})
    BY <1>2 DEF Good
  <2> DEFINE b == Into(f)
             i == At(t, f)
             path == f.path
             keys == InsertAt(t.blk[b].keys, i, k)
             fits == {n \in DOMAIN keys : VSize(t, SubSeq(keys, 1, n)) <= t.blksize}
             n == Max(fits)
             E == {}
             exact == TRUE
             sure == TRUE
  <2>2. Form(h, K, low, high, t, W, lev, lo, hi, 0, 0, E)
    BY <2>1
  <2> HIDE DEF E
  <2>3. /\ exact \in BOOLEAN /\ (sure => exact /\ k \in K /\ Less(low, k) /\ Less(k, high))
        /\ f = Find(t, k, exact) /\ sure
    OBVIOUS
  <2> HIDE DEF exact, sure
  <2>4. Finds(K, t, W, lev, lo, hi, k, exact, sure, f)
    BY ONLY Ordered(K), <2>2, <2>3, FindIs
  <2>5. Fitting(K, t, W, lev, lo, hi, f, k)
    BY ONLY <2>3, <2>4, f.flg # 1 DEF Finds
  <2>6. t.root # 0
    BY <2>1 DEF Form, Shape, ShapeTypes
  <2>7. InsertKey(t, f, k) = Inserted(t, b, keys, path, n)
    <3>1. keys = LET c == IF f.vblock # 0 THEN f.vblock ELSE f.spot.blk
                     old == t.blk[c].keys
                 IN InsertAt(old, IF f.vblock # 0 THEN Len(old) + 1 ELSE f.spot.off, k)
      BY DEF Into, At
    <3>2. b = IF f.vblock # 0 THEN f.vblock ELSE f.spot.blk
      BY DEF Into
    <3> HIDE DEF b, keys
    <3>3. InsertKey(t, f, k) = IF n = Len(keys) THEN Put(t, b, Leaf(keys)) ELSE Overflow(t, b, keys, n, path)
      BY <2>6, <3>1, <3>2 DEF InsertKey
    <3> HIDE DEF n
    <3> QED BY ONLY <3>3 DEF Inserted
  <2>8. b \in W /\ Belongs(K, KeysIn(t, W), KidsIn(t, W), lo, hi, b, i, k)
        /\ Leg(W, KeysIn(t, W), KidsIn(t, W), lev, t.root, path, b)
    BY ONLY <2>5 DEF Fitting
  <2>9. keys = InsertAt(t.blk[b].keys, i, k)
    OBVIOUS
  <2> HIDE DEF b, i, path, keys
  <2>10. fits = {x \in DOMAIN keys : VSize(t, SubSeq(keys, 1, x)) <= t.blksize}
    OBVIOUS
  <2>11. n = Max(fits)
    OBVIOUS
  <2> HIDE DEF fits, n
  <2>12. Form(h, K, low, high, t, W, lev, lo, hi, 0, 0, {})
    BY <2>1
  <2>13. Good(h, K, low, high, Inserted(t, b, keys, path, n))
    BY ONLY Ordered(K), Header(h), low \in K, high \in K, m \in Nat, K \subseteq Keys(m), Len(h.parts) <= m,
       <2>8, <2>9, <2>10, <2>11, <2>12, InsertedInto
  <2> QED BY ONLY <2>7, <2>13
<1> QED BY <1>1, <1>2 DEF Sound

\* A delete of a key that was found.
THEOREM DeleteSound ==
  ASSUME NEW K, Ordered(K), NEW h, Header(h), NEW low, NEW high, NEW t, Sound(h, K, low, high, t),
         NEW k, NEW exact, exact \in BOOLEAN, NEW f, f = Find(t, k, exact), f.flg = 1
  PROVE  Sound(h, K, low, high, DeleteKey(t, f))
<1>1. CASE Stored(h, K, t, {}) /\ t.root = 0
  <2>1. f = Found(Spot(0, 1), 2, <<>>, 0, FALSE)
    BY ONLY <1>1, f = Find(t, k, exact) DEF Find
  <2>2. FALSE
    BY ONLY <2>1, f.flg = 1 DEF Found
  <2> QED BY <2>2
<1>2. CASE Good(h, K, low, high, t)
  <2>1. PICK W, lev, lo, hi : Form(h, K, low, high, t, W, lev, lo, hi, 0, 0, {})
    BY <1>2 DEF Good
  <2> DEFINE E == {}
  <2>2. Form(h, K, low, high, t, W, lev, lo, hi, 0, 0, E)
    BY <2>1
  <2> DEFINE sure == FALSE
  <2>2a. sure => exact /\ k \in K /\ Less(low, k) /\ Less(k, high)
    OBVIOUS
  <2> HIDE DEF E, sure
  <2>3. Finds(K, t, W, lev, lo, hi, k, exact, sure, f)
    BY ONLY Ordered(K), <2>2, <2>2a, exact \in BOOLEAN, f = Find(t, k, exact), FindIs
  <2>4. FoundKey(t, W, lev, f)
    BY ONLY <2>3, f.flg = 1 DEF Finds
  <2>5. Form(h, K, low, high, t, W, lev, lo, hi, 0, 0, {})
    BY <2>1
  <2> QED BY ONLY Ordered(K), Header(h), <2>4, <2>5, Deleted
<1> QED BY <1>1, <1>2 DEF Sound

\* The record places change nothing in the tree.
Same(t, t2, W) == t2.root = t.root /\ \A b \in W : t2.blk[b] = t.blk[b]

\* What is not in the blocks of the tree does not matter to it, but for the
\* chains.
LEMMA SameSound ==
  ASSUME NEW K, NEW h, NEW low, NEW high, NEW t, NEW t2, Sound(h, K, low, high, t),
         t \in Indexes(h, K) => t2 \in Indexes(h, K),
         \A W, dl, fl : t \in Indexes(h, K) /\ Whole(t, W, dl, fl) => Same(t, t2, W) /\ \E dl2, fl2 : Whole(t2, W, dl2, fl2)
  PROVE  Sound(h, K, low, high, t2)
<1>1. ASSUME NEW W, Stored(h, K, t, W)
      PROVE  Stored(h, K, t2, W) /\ KeysIn(t2, W) = KeysIn(t, W) /\ KidsIn(t2, W) = KidsIn(t, W) /\ t2.root = t.root
  <2>1. PICK dl, fl : Whole(t, W, dl, fl)
    BY <1>1 DEF Stored
  <2>2. t \in Indexes(h, K) /\ \A b \in W : TreeNode(h, K, t.blk[b])
    BY <1>1 DEF Stored
  <2>3. Same(t, t2, W) /\ (\E dl2, fl2 : Whole(t2, W, dl2, fl2)) /\ t2 \in Indexes(h, K)
    BY <2>1, <2>2
  <2>4. \A b \in W : t2.blk[b] = t.blk[b]
    BY <2>3 DEF Same
  <2>5. Stored(h, K, t2, W)
    BY <2>2, <2>3, <2>4 DEF Stored
  <2>6. KeysIn(t2, W) = KeysIn(t, W) /\ KidsIn(t2, W) = KidsIn(t, W)
    BY <2>4 DEF KeysIn, KidsIn
  <2> QED BY <2>3, <2>5, <2>6 DEF Same
<1>2. CASE Stored(h, K, t, {}) /\ t.root = 0
  <2> DEFINE V == {}
  <2>1. Stored(h, K, t, V) /\ t.root = 0
    BY <1>2
  <2> HIDE DEF V
  <2>2. Stored(h, K, t2, V) /\ t2.root = t.root
    BY ONLY <1>1, <2>1
  <2> QED BY <2>1, <2>2 DEF Sound, V
<1>3. CASE Good(h, K, low, high, t)
  <2>1. PICK W, lev, lo, hi : Form(h, K, low, high, t, W, lev, lo, hi, 0, 0, {})
    BY <1>3 DEF Good
  <2> DEFINE E == {}
  <2>2. Stored(h, K, t, W) /\ Shape(K, low, high, W, t.root, KeysIn(t, W), KidsIn(t, W), lev, lo, hi, 0, 0, E)
    BY <2>1 DEF Form
  <2> HIDE DEF E
  <2>3. Stored(h, K, t2, W) /\ KeysIn(t2, W) = KeysIn(t, W) /\ KidsIn(t2, W) = KidsIn(t, W) /\ t2.root = t.root
    BY ONLY <1>1, <2>2
  <2>4. Form(h, K, low, high, t2, W, lev, lo, hi, 0, 0, E)
    BY ONLY <2>2, <2>3 DEF Form
  <2>5. Good(h, K, low, high, t2)
    BY ONLY <2>4 DEF Good, E
  <2> QED BY ONLY <2>5 DEF Sound
<1> QED BY <1>2, <1>3 DEF Sound

\* xiogetrec and xiodelrec change the chain of free places only.
THEOREM PlacesSound ==
  ASSUME NEW K, NEW h, h.fix, NEW low, NEW high, NEW t, Sound(h, K, low, high, t)
  PROVE  /\ t.rec # 0 => Sound(h, K, low, high, GetPlace(t))
         /\ \A place \in Int : Sound(h, K, low, high, GivePlace(t, place))
<1>0. t \in Indexes(h, K) /\ \E W, dl, fl : Whole(t, W, dl, fl)
  BY DEF Sound, Good, Form, Stored
<1>1. ASSUME t.rec # 0 PROVE Sound(h, K, low, high, GetPlace(t))
  <2> DEFINE t2 == GetPlace(t)
  <2>1. ASSUME NEW W, NEW dl, NEW fl, t \in Indexes(h, K), Whole(t, W, dl, fl)
        PROVE  t2 \in Indexes(h, K) /\ t2.root = t.root /\ (\A b \in W : t2.blk[b] = t.blk[b])
               /\ \E dl2, fl2 : Whole(t2, W, dl2, fl2)
    BY ONLY <1>1, <2>1, WholeGet
  <2> HIDE DEF t2
  <2>2. \A W, dl, fl : t \in Indexes(h, K) /\ Whole(t, W, dl, fl) => Same(t, t2, W) /\ \E dl2, fl2 : Whole(t2, W, dl2, fl2)
    BY ONLY <2>1 DEF Same
  <2>3. t2 \in Indexes(h, K)
    BY ONLY <1>0, <2>1
  <2>4. Sound(h, K, low, high, t2)
    BY ONLY Sound(h, K, low, high, t), <2>2, <2>3, SameSound
  <2> QED BY ONLY <2>4 DEF t2
<1>2. ASSUME NEW place \in Int PROVE Sound(h, K, low, high, GivePlace(t, place))
  <2> DEFINE t2 == GivePlace(t, place)
  <2>1. ASSUME NEW W, NEW dl, NEW fl, t \in Indexes(h, K), Whole(t, W, dl, fl)
        PROVE  t2 \in Indexes(h, K) /\ t2.root = t.root /\ (\A b \in W : t2.blk[b] = t.blk[b])
               /\ \E dl2, fl2 : Whole(t2, W, dl2, fl2)
    BY ONLY h.fix, place \in Int, <2>1, WholeGive
  <2> HIDE DEF t2
  <2>2. \A W, dl, fl : t \in Indexes(h, K) /\ Whole(t, W, dl, fl) => Same(t, t2, W) /\ \E dl2, fl2 : Whole(t2, W, dl2, fl2)
    BY ONLY <2>1 DEF Same
  <2>3. t2 \in Indexes(h, K)
    BY ONLY <1>0, <2>1
  <2>4. Sound(h, K, low, high, t2)
    BY ONLY Sound(h, K, low, high, t), <2>2, <2>3, SameSound
  <2> QED BY ONLY <2>4 DEF t2
<1> QED BY <1>1, <1>2

-----------------------------------------------------------------------------
(***************************************************************************)
(* Index: keys and bounds, the file that the program opens.                *)
(***************************************************************************)
\* The keys of an index with the header h, and bounds of those its users have.
FileKeys(h) == Keys(Len(h.parts) + 1)
\* Bounds that no key of a program reaches.
LowEnd(h) == [i \in 1 .. Len(h.parts) + 1 |-> -1]
HighEnd(h) == [i \in 1 .. Len(h.parts) + 1 |-> MaxPlace]
\* The inductive invariant: the index is sound for the header of its file, with
\* keys of the length its parts give.
SoundFor(h, t) == Sound(h, FileKeys(h), LowEnd(h), HighEnd(h), t)

\* Keys that the users of an index may have.
Proper(h, k) == k \in FileKeys(h) /\ \A i \in 1 .. Len(h.parts) + 1 : 0 <= k[i] /\ k[i] < MaxPlace

\* The keys that bound the whole tree.
LEMMA EndsAre ==
  ASSUME NEW h, Header(h)
  PROVE  /\ Ordered(FileKeys(h)) /\ LowEnd(h) \in FileKeys(h) /\ HighEnd(h) \in FileKeys(h)
         /\ Len(h.parts) \in Nat
<1>1. Len(h.parts) \in Nat /\ Len(h.parts) + 1 \in Nat
  BY LenProperties DEF Header
<1>2. Ordered(FileKeys(h))
  BY <1>1, KeysAreOrdered DEF FileKeys
<1> QED BY <1>1, <1>2 DEF FileKeys, Keys, LowEnd, HighEnd, MaxPlace

\* Every key of a program is between them.
LEMMA ProperBetween ==
  ASSUME NEW h, Header(h), NEW k, Proper(h, k)
  PROVE  k \in FileKeys(h) /\ Less(LowEnd(h), k) /\ Less(k, HighEnd(h))
<1> DEFINE n == Len(h.parts) + 1
<1>1. n \in Nat /\ n >= 1
  BY EndsAre
<1>2. k \in [1 .. n -> Int] /\ \A i \in 1 .. n : 0 <= k[i] /\ k[i] < 256
  BY DEF Proper, FileKeys, Keys, MaxPlace
<1>3. LowEnd(h) = [i \in 1 .. n |-> -1] /\ HighEnd(h) = [i \in 1 .. n |-> 256]
  BY DEF LowEnd, HighEnd, MaxPlace
<1> HIDE DEF n
<1>4. 1 \in 1 .. n /\ 1 .. 1 - 1 = {}
  BY ONLY <1>1
<1>5. k \in FileKeys(h)
  BY DEF Proper
<1> DEFINE a == LowEnd(h)
           b == HighEnd(h)
<1>6. a \in Seq(Int) /\ Len(a) = n /\ a[1] = -1 /\ b[1] = 256 /\ Len(k) = n
  <2>1. a \in [1 .. n -> Int] /\ a[1] = -1 /\ b[1] = 256
    BY ONLY <1>3, <1>4
  <2> HIDE DEF a, b
  <2> QED BY ONLY <1>1, <1>2, <2>1, IsSeq
<1> HIDE DEF a, b
<1>7. a[1] < k[1] /\ k[1] < b[1]
  BY ONLY <1>2, <1>4, <1>6
<1>8. Less(a, k)
  BY ONLY <1>4, <1>6, <1>7 DEF Less
<1>9. Less(k, b)
  BY ONLY <1>4, <1>6, <1>7 DEF Less
<1> QED BY ONLY <1>5, <1>8, <1>9 DEF a, b

\* An index without keys is sound.
LEMMA EmptySound ==
  ASSUME NEW h, Header(h)
  PROVE  SoundFor(h, Empty(h))
<1> DEFINE t == Empty(h)
           K == FileKeys(h)
           N == Node(K)
<1>1. /\ t = [version |-> h.version, blksize |-> h.blksize, parts |-> h.parts, dup |-> h.dup,
              fix |-> h.fix, root |-> 0, del |-> 0, rec |-> 0, high |-> 0, blk |-> t.blk]
      /\ t.blk = <<>> /\ t.root = 0 /\ t.del = 0 /\ t.rec = 0 /\ t.high = 0
  BY DEF Empty
<1>2. <<>> \in Blocks(K)
  <2>1. <<>> \in [{} -> N]
    <3> HIDE DEF N
    <3> QED OBVIOUS
  <2>2. {} \in SUBSET Nat
    OBVIOUS
  <2> HIDE DEF N
  <2>3. <<>> \in UNION {[D -> N] : D \in SUBSET Nat}
    BY ONLY <2>1, <2>2
  <2> QED BY ONLY <2>3 DEF Blocks, N
<1> HIDE DEF t, K, N
<1>3. t \in Indexes(h, K)
  BY ONLY <1>1, <1>2 DEF Indexes
<1>4. Chain(t, "D", t.del, <<>>) /\ Chain(t, "F", t.rec, <<>>)
  BY ONLY <1>1 DEF Chain
<1>5. Ran(<<>>) = {}
  BY DEF Ran
<1>6. Whole(t, {}, <<>>, <<>>)
  BY ONLY <1>1, <1>4, <1>5 DEF Whole
<1>7. Stored(h, K, t, {})
  BY ONLY <1>3, <1>6 DEF Stored
<1> QED BY ONLY <1>1, <1>7 DEF SoundFor, Sound, t, K

\* An insert of a key that is there, or that the users must not have twice, changes nothing.
LEMMA InsertNewSound ==
  ASSUME NEW h, Header(h), NEW t, SoundFor(h, t), NEW k, Proper(h, k)
  PROVE  /\ Find(t, k, TRUE).flg # 1 => SoundFor(h, InsertKey(t, Find(t, k, TRUE), k))
         /\ SoundFor(h, InsertNew(t, k))
<1> DEFINE f == Find(t, k, TRUE)
           K == FileKeys(h)
           low == LowEnd(h)
           high == HighEnd(h)
           m == Len(h.parts) + 1
<1>1. k \in K /\ Less(low, k) /\ Less(k, high)
  BY ProperBetween
<1>2. Ordered(K) /\ low \in K /\ high \in K /\ m \in Nat /\ Len(h.parts) <= m
  BY EndsAre
<1>3. K \subseteq Keys(m)
  BY DEF FileKeys
<1>4. Sound(h, K, low, high, t)
  BY DEF SoundFor
<1>5. f = Find(t, k, TRUE)
  OBVIOUS
<1> HIDE DEF f, K, low, high, m
<1>6. ASSUME f.flg # 1 PROVE SoundFor(h, InsertKey(t, f, k))
  <2>1. Good(h, K, low, high, InsertKey(t, f, k))
    BY ONLY Header(h), <1>1, <1>2, <1>3, <1>4, <1>5, <1>6, InsertSound
  <2> QED BY ONLY <2>1 DEF SoundFor, Sound, K, low, high
<1>7. InsertNew(t, k) = IF IsDuplicate(t, f) THEN t ELSE InsertKey(t, f, k)
  BY ONLY <1>5 DEF InsertNew
<1>8. SoundFor(h, InsertNew(t, k))
  <2>1. CASE IsDuplicate(t, f)
    BY ONLY <1>7, <2>1, SoundFor(h, t)
  <2>2. CASE ~IsDuplicate(t, f)
    <3>1. f.flg # 1
      BY ONLY <2>2 DEF IsDuplicate
    <3> QED BY ONLY <1>6, <1>7, <2>2, <3>1
  <2> QED BY ONLY <2>1, <2>2
<1> QED BY ONLY <1>5, <1>6, <1>8

\* An index stays sound while keys are inserted one after the other.
THEOREM LoadedSound ==
  ASSUME NEW h, Header(h), NEW load, load \in Seq(FileKeys(h)), \A i \in 1 .. Len(load) : Proper(h, load[i])
  PROVE  SoundFor(h, Loaded(h, load))
<1> DEFINE U == {t \in Indexes(h, FileKeys(h)) : SoundFor(h, t)}
           N == Len(load)
           I == (0 .. N) \X U
           a == Empty(h)
           g == [q \in I |-> InsertNew(q[2], load[q[1] + 1])]
<1>1. \A t : t \in U <=> SoundFor(h, t)
  BY DEF SoundFor, Sound, Good, Form, Stored
<1>2. N \in Nat
  OBVIOUS
<1>3. a \in U
  BY <1>1, EmptySound
<1>4. ASSUME NEW n \in 0 .. N - 1, NEW u \in U
      PROVE  g[<<n, u>>] = InsertNew(u, load[n + 1]) /\ <<n + 1, g[<<n, u>>]>> \in I
  <2>1. n + 1 \in 1 .. N /\ n + 1 \in 0 .. N /\ n \in 0 .. N
    BY ONLY <1>2, n \in 0 .. N - 1
  <2>2. SoundFor(h, u) /\ Proper(h, load[n + 1])
    BY <1>1, <2>1
  <2>3. SoundFor(h, InsertNew(u, load[n + 1]))
    BY ONLY Header(h), <2>2, InsertNewSound
  <2>4. InsertNew(u, load[n + 1]) \in U
    BY ONLY <1>1, <2>3
  <2>5. g[<<n, u>>] = InsertNew(u, load[n + 1])
    <3> HIDE DEF U, N
    <3> QED BY <2>1
  <2> HIDE DEF U, g, N
  <2> QED BY <2>1, <2>4, <2>5
<1>5. I \in SUBSET ((0 .. N) \X U)
  OBVIOUS
<1>6. <<0, a>> \in I /\ \A n \in 0 .. N - 1 : \A u \in U : <<n, u>> \in I => <<n + 1, g[<<n, u>>]>> \in I
  <2> HIDE DEF U, N, a, g
  <2>1. <<0, a>> \in I
    BY <1>2, <1>3
  <2> HIDE DEF I
  <2> QED BY ONLY <1>4, <2>1
<1> HIDE DEF I, g, U, N, a
<1>7. \E f \in [0 .. N -> U] : LoopOf(f, N, a, g) /\ \A n \in 0 .. N : <<n, f[n]>> \in I
  BY ONLY <1>2, <1>5, <1>6, UpTo
<1>8. PICK f \in [0 .. N -> U] : LoopOf(f, N, a, g)
  BY <1>7
<1>9. f[0] = a /\ \A n \in 0 .. N - 1 : f[n + 1] = InsertNew(f[n], load[n + 1])
  <2>1. f[0] = a /\ \A n \in 0 .. N - 1 : f[n + 1] = g[<<n, f[n]>>]
    BY <1>8 DEF LoopOf
  <2>2. \A n \in 0 .. N - 1 : n \in 0 .. N
    BY <1>2
  <2> QED BY <1>4, <1>8, <2>1, <2>2
<1> DEFINE Rec(W) == W = [n \in 0 .. Len(load) |-> IF n = 0 THEN Empty(h) ELSE InsertNew(W[n - 1], load[n])]
<1>10. Rec(f)
  <2>1. f = [n \in 0 .. N |-> f[n]]
    BY <1>8
  <2>2. \A n \in 0 .. N : f[n] = IF n = 0 THEN a ELSE InsertNew(f[n - 1], load[n])
    <3> TAKE n \in 0 .. N
    <3>1. n # 0 => n - 1 \in 0 .. N - 1 /\ n - 1 + 1 = n
      BY <1>2
    <3> QED BY <1>9, <3>1
  <2>3. f = [n \in 0 .. N |-> IF n = 0 THEN a ELSE InsertNew(f[n - 1], load[n])]
    BY ONLY <2>1, <2>2
  <2> QED BY <2>3 DEF N, a
<1> DEFINE W == CHOOSE w : Rec(w)
<1>11. Rec(W)
  <2> HIDE DEF Rec
  <2> QED BY <1>10
<1>12. Loaded(h, load) = W[Len(load)]
  BY DEF Loaded
<1> HIDE DEF W
<1>13. W[0] = a /\ \A n \in 0 .. N - 1 : W[n + 1] = InsertNew(W[n], load[n + 1])
  <2>1. W = [n \in 0 .. N |-> IF n = 0 THEN a ELSE InsertNew(W[n - 1], load[n])]
    BY <1>11 DEF N, a
  <2> HIDE DEF Rec
  <2>2. W[0] = a
    BY <1>2, <2>1
  <2>3. ASSUME NEW n \in 0 .. N - 1 PROVE W[n + 1] = InsertNew(W[n], load[n + 1])
    <3> DEFINE j == n + 1
    <3>1. j \in 0 .. N /\ j # 0 /\ j - 1 = n
      BY ONLY <1>2, n \in 0 .. N - 1
    <3> HIDE DEF j
    <3>2. W[j] = InsertNew(W[j - 1], load[j])
      BY ONLY <2>1, <3>1
    <3>3. W[j] = InsertNew(W[n], load[j])
      BY ONLY <3>1, <3>2
    <3> QED BY ONLY <3>3 DEF j
  <2> QED BY <2>2, <2>3
<1> HIDE DEF Rec
<1> DEFINE T == {n \in 0 .. N : W[n] = f[n]}
<1>14. 0 .. N \subseteq T
  <2>1. 0 \in T
    BY <1>2, <1>9, <1>13
  <2>2. ASSUME NEW n \in 0 .. N - 1, n \in T PROVE n + 1 \in T
    <3>1. n + 1 \in 0 .. N
      BY <1>2
    <3> QED BY <1>9, <1>13, <2>2, <3>1
  <2> HIDE DEF T
  <2> QED BY <1>2, <2>1, <2>2, NumbersUpTo
<1>15. N \in 0 .. N
  BY <1>2
<1>16. W[N] = f[N] /\ f[N] \in U
  BY <1>8, <1>14, <1>15
<1> QED BY ONLY <1>1, <1>12, <1>16 DEF N

-----------------------------------------------------------------------------
(***************************************************************************)
(* Index: its inductive invariant, step by step.                           *)
(***************************************************************************)
\* An index file in use is sound.
InUse(f) ==
  /\ use = [keys |-> f.keys, places |-> f.places, left |-> use.left]
  /\ SoundFor(f.header, idx)
IndexInv == \E f \in Files : InUse(f)

\* What the assumption says of a file.
LEMMA FileFacts ==
  ASSUME NEW f \in Files
  PROVE  /\ Header(f.header) /\ f.load \in Seq(FileKeys(f.header))
         /\ \A i \in 1 .. Len(f.load) : Proper(f.header, f.load[i])
         /\ \A bytes \in f.keys, place \in f.places : Proper(f.header, Append(bytes, place))
         /\ f.places \subseteq Int
<1> DEFINE h == f.header
           m == Len(h.parts)
           B == UNION {{Append(bytes, place) : place \in f.places} : bytes \in f.keys}
<1>1. /\ h \in [version : Nat, blksize : Nat, parts : Seq(Nat \ {0}), dup : BOOLEAN, fix : BOOLEAN]
      /\ \A bytes \in f.keys : bytes \in [1 .. m -> 0 .. 255]
      /\ f.places \subseteq 1 .. 255
      /\ f.load \in Seq(B)
      /\ USize(h, <<1, 2>>) <= h.blksize
  <2>1. /\ h \in [version : Nat, blksize : Nat, parts : Seq(Nat \ {0}), dup : BOOLEAN, fix : BOOLEAN]
        /\ \A bytes \in f.keys : bytes \in [1 .. m -> 0 .. MaxByte]
        /\ f.places \subseteq 1 .. MaxPlace - 1
        /\ f.load \in Seq(B)
        /\ USize(h, <<1, 2>>) <= h.blksize
    BY ONLY IndexAssumption
  <2>2. MaxByte = 255 /\ MaxPlace - 1 = 255
    BY DEF MaxByte, MaxPlace
  <2> HIDE DEF h, m, B
  <2> QED BY ONLY <2>1, <2>2
<1>2. Header(h)
  BY ONLY <1>1 DEF Header
<1>3. m \in Nat
  BY ONLY <1>1, LenProperties
<1> HIDE DEF h, m
<1>4. ASSUME NEW bytes \in f.keys, NEW place \in f.places PROVE Proper(h, Append(bytes, place))
  <2>1. bytes \in [1 .. m -> 0 .. 255] /\ place \in 1 .. 255
    BY ONLY <1>1, bytes \in f.keys, place \in f.places
  <2>2. bytes \in Seq(0 .. 255) /\ Len(bytes) = m
    BY ONLY <1>3, <2>1, IsSeq
  <2> DEFINE k == Append(bytes, place)
             n == m + 1
  <2>3. k \in Seq(0 .. 255) /\ Len(k) = n
    BY <2>1, <2>2
  <2>4. \A i \in 1 .. n : k[i] \in 0 .. 255
    <3> HIDE DEF k
    <3> QED BY ONLY <2>3, ElementOfSeq
  <2>5. k = [i \in 1 .. n |-> k[i]]
    <3> HIDE DEF k
    <3> QED BY ONLY <2>3
  <2> HIDE DEF k
  <2>6. k \in [1 .. n -> Int] /\ \A i \in 1 .. n : 0 <= k[i] /\ k[i] < 256
    <3>1. n \in Nat
      BY ONLY <1>3
    <3> HIDE DEF n
    <3>2. \A i \in 1 .. n : k[i] \in Int /\ 0 <= k[i] /\ k[i] < 256
      BY ONLY <2>4
    <3> QED BY ONLY <2>5, <3>2
  <2> QED BY ONLY <2>6 DEF Proper, FileKeys, Keys, MaxPlace, m, k
<1>5. \A k \in B : Proper(h, k) /\ k \in FileKeys(h)
  <2>1. \A bytes \in f.keys, place \in f.places :
          Proper(h, Append(bytes, place)) /\ Append(bytes, place) \in FileKeys(h)
    BY ONLY <1>4 DEF Proper
  <2> TAKE k \in B
  <2>2. PICK bytes \in f.keys : k \in {Append(bytes, place) : place \in f.places}
    OBVIOUS
  <2>3. PICK place \in f.places : k = Append(bytes, place)
    BY ONLY <2>2
  <2> QED BY ONLY <2>1, <2>3
<1> HIDE DEF B
<1>6. f.load \in Seq(FileKeys(h)) /\ \A i \in 1 .. Len(f.load) : Proper(h, f.load[i])
  <2> DEFINE l == f.load
             n == Len(l)
  <2>1. l \in Seq(B)
    BY <1>1
  <2> HIDE DEF l
  <2>2. n \in Nat /\ l = [i \in 1 .. n |-> l[i]] /\ \A i \in 1 .. n : l[i] \in B
    BY ONLY <2>1, ElementOfSeq, LenProperties
  <2> HIDE DEF n
  <2>3. l \in [1 .. n -> FileKeys(h)]
    BY ONLY <1>5, <2>2
  <2>4. l \in Seq(FileKeys(h))
    BY ONLY <2>2, <2>3, IsSeq
  <2> QED BY ONLY <1>5, <2>2, <2>4 DEF l, n
<1>7. f.places \subseteq Int
  <2>1. 1 .. 255 \subseteq Int
    OBVIOUS
  <2> QED BY ONLY <1>1, <2>1
<1> QED BY ONLY <1>2, <1>4, <1>6, <1>7 DEF h

\* The index of the initial states is sound.
LEMMA InitSound == Init => IndexInv
<1> SUFFICES ASSUME NEW f \in Files, idx = Loaded(f.header, f.load),
                    use = [keys |-> f.keys, places |-> f.places, left |-> f.changes]
             PROVE  IndexInv
  BY DEF Init
<1>1. SoundFor(f.header, Loaded(f.header, f.load))
  BY FileFacts, LoadedSound
<1> QED BY <1>1 DEF InUse, IndexInv

\* Every call of the program, and every insert and delete of others, keeps the
\* index sound.
LEMMA NextSound == IndexInv /\ [Next]_ivars => IndexInv'
<1> SUFFICES ASSUME NEW f \in Files, InUse(f), [Next]_ivars
             PROVE  InUse(f)'
  BY DEF IndexInv
<1> DEFINE h == f.header
<1>1. /\ Header(h) /\ f.places \subseteq Int
      /\ \A bytes \in f.keys, place \in f.places : Proper(h, Append(bytes, place))
  BY FileFacts
<1>2. use = [keys |-> f.keys, places |-> f.places, left |-> use.left] /\ SoundFor(h, idx)
  BY DEF InUse
<1>3. use.keys = f.keys /\ use.places = f.places
  BY <1>2
<1> HIDE DEF h
<1>1a. Header(h)
  BY <1>1
<1>4. (use' = use \/ Changes) /\ SoundFor(h, idx') => InUse(f)'
  <2>1. Changes => use' = [keys |-> f.keys, places |-> f.places, left |-> use'.left]
    BY <1>2 DEF Changes
  <2> QED BY <1>2, <2>1 DEF InUse, h
<1>5. Ordered(FileKeys(h)) /\ LowEnd(h) \in FileKeys(h) /\ HighEnd(h) \in FileKeys(h)
  BY ONLY <1>1, EndsAre
<1>6. ASSUME NEW k, NEW exact \in BOOLEAN, Find(idx, k, exact).flg = 1
      PROVE  SoundFor(h, DeleteKey(idx, Find(idx, k, exact)))
  <2> DEFINE g == Find(idx, k, exact)
             K == FileKeys(h)
             low == LowEnd(h)
             high == HighEnd(h)
  <2>1. g = Find(idx, k, exact) /\ g.flg = 1 /\ exact \in BOOLEAN
    BY <1>6
  <2>2. Sound(h, K, low, high, idx)
    BY <1>2 DEF SoundFor
  <2>3. Ordered(K)
    BY <1>5
  <2> HIDE DEF g, K, low, high
  <2>4. Sound(h, K, low, high, DeleteKey(idx, g))
    BY ONLY <1>1a, <2>1, <2>2, <2>3, DeleteSound
  <2> QED BY ONLY <2>4 DEF SoundFor, K, low, high, g
<1>7. \A f2, wanted : (\E k, exact : exact \in BOOLEAN /\ f2 = Find(idx, k, exact)) /\ XioDelete(f2, wanted) => InUse(f)'
  BY <1>2, <1>4, <1>6 DEF XioDelete
<1>8. TRUE \in BOOLEAN /\ FALSE \in BOOLEAN
  OBVIOUS
<1>9. CASE Read \/ UNCHANGED ivars
  <2>1. use' = use /\ idx' = idx
    BY <1>9 DEF Read, ivars
  <2> QED BY <1>2, <1>4, <2>1
<1>10. CASE XioDeleteCurrent
  BY <1>7, <1>8, <1>10 DEF XioDeleteCurrent, Exactly
<1>11. CASE XioGetRec
  <2>1. idx.fix /\ idx.rec # 0 /\ Changes /\ idx' = GetPlace(idx)
    BY <1>11 DEF XioGetRec
  <2>2. SoundFor(h, GetPlace(idx))
    <3>1. h.fix
      <4>1. idx \in Indexes(h, FileKeys(h))
        BY <1>2 DEF SoundFor, Sound, Good, Form, Stored
      <4> QED BY ONLY <2>1, <4>1, IndexTypes
    <3> QED BY <1>2, <2>1, <3>1, PlacesSound DEF SoundFor
  <2> QED BY <1>4, <2>1, <2>2
<1>12. CASE \E bytes \in use.keys : XioDeleteBytes(bytes)
  <2>1. PICK bytes \in use.keys : XioDeleteBytes(bytes)
    BY <1>12
  <2> QED BY <1>7, <1>8, <2>1 DEF XioDeleteBytes, FirstOf
<1>13. ASSUME NEW place \in use.places, XioDelRec(place)
       PROVE  InUse(f)'
  <2>1. idx.fix /\ Changes /\ idx' = GivePlace(idx, place)
    BY <1>13 DEF XioDelRec
  <2>2. SoundFor(h, GivePlace(idx, place))
    <3>1. h.fix
      <4>1. idx \in Indexes(h, FileKeys(h))
        BY <1>2 DEF SoundFor, Sound, Good, Form, Stored
      <4> QED BY ONLY <2>1, <4>1, IndexTypes
    <3>2. place \in Int
      BY <1>1, <1>3
    <3> QED BY <1>2, <3>1, <3>2, PlacesSound DEF SoundFor
  <2> QED BY <1>4, <2>1, <2>2
<1>14. ASSUME NEW k, Proper(h, k), XioInsert(k) \/ OtherInsert(k) \/ XioDeleteKey(k) \/ OtherDelete(k)
       PROVE  InUse(f)'
  <2>0. Find(idx, k, TRUE).flg # 1 => SoundFor(h, InsertKey(idx, Find(idx, k, TRUE), k))
    BY ONLY <1>1, <1>2, <1>14, InsertNewSound
  <2>1. CASE XioInsert(k)
    <3>1. CASE IsDuplicate(idx, Exactly(k))
      <4>1. use' = use /\ idx' = idx
        BY <2>1, <3>1 DEF XioInsert
      <4> QED BY <1>2, <1>4, <4>1
    <3>2. CASE ~IsDuplicate(idx, Exactly(k))
      <4>1. Changes /\ idx' = InsertKey(idx, Exactly(k), k)
        BY <2>1, <3>2 DEF XioInsert
      <4>2. Exactly(k).flg # 1
        BY <3>2 DEF IsDuplicate
      <4> QED BY <1>4, <2>0, <4>1, <4>2 DEF Exactly
    <3> QED BY <3>1, <3>2
  <2>2. CASE OtherInsert(k)
    <3>1. Changes /\ idx' = InsertKey(idx, Exactly(k), k) /\ Exactly(k).flg # 1
      BY <2>2 DEF OtherInsert, IsDuplicate
    <3> QED BY <1>4, <2>0, <3>1 DEF Exactly
  <2>3. CASE XioDeleteKey(k)
    BY <1>7, <1>8, <2>3 DEF XioDeleteKey, Exactly
  <2>4. CASE OtherDelete(k)
    <3>1. Changes /\ idx' = DeleteKey(idx, Exactly(k)) /\ Exactly(k).flg = 1
      BY <2>4 DEF OtherDelete
    <3> QED BY <1>4, <1>6, <1>8, <3>1 DEF Exactly
  <2> QED BY <1>14, <2>1, <2>2, <2>3, <2>4
<1>15. \A bytes \in use.keys, place \in use.places : Proper(h, Append(bytes, place))
  BY <1>1, <1>3
<1>16. CASE \E place \in use.places :
              \/ XioDelRec(place)
              \/ /\ place \notin FreePlaces
                 /\ \E bytes \in use.keys : LET k == Append(bytes, place)
                      IN XioInsert(k) \/ OtherInsert(k) \/ XioDeleteKey(k) \/ OtherDelete(k)
  BY <1>13, <1>14, <1>15, <1>16
<1> QED BY <1>9, <1>10, <1>11, <1>12, <1>16 DEF Next

\* The index file is sound in every reachable state: its tree has a shape with
\* keys in order inside of the bounds of their blocks and all leaves at one
\* level, every block but the root has a key, all fit in their blocks, and the
\* tree and the chains of deleted blocks and free places share no block.
THEOREM IndexStaysSound == Spec => []IndexInv
BY InitSound, NextSound, PTL DEF Spec

-----------------------------------------------------------------------------
(***************************************************************************)
(* Index: each block of a sound index has one place.                       *)
(***************************************************************************)
\* The parts of an index: the blocks W of its tree and its chains dl and fl.
Plan(h, W, dl, fl, lev, lo, hi) ==
  /\ idx \in Indexes(h, FileKeys(h)) /\ Whole(idx, W, dl, fl)
  /\ \A b \in W : TreeNode(h, FileKeys(h), idx.blk[b])
  /\ W = {} => idx.root = 0
  /\ W # {} => Form(h, FileKeys(h), LowEnd(h), HighEnd(h), idx, W, lev, lo, hi, 0, 0, {})

\* A sound index has a plan: the blocks of its tree, both chains, levels and
\* bounds.
LEMMA PlanOf ==
  ASSUME NEW h, SoundFor(h, idx)
  PROVE  \E W, dl, fl, lev, lo, hi : Plan(h, W, dl, fl, lev, lo, hi)
<1> DEFINE K == FileKeys(h)
           low == LowEnd(h)
           high == HighEnd(h)
<1>1. CASE Stored(h, K, idx, {}) /\ idx.root = 0
  <2>1. PICK dl, fl : Whole(idx, {}, dl, fl)
    BY <1>1 DEF Stored
  <2>2. Plan(h, {}, dl, fl, 0, 0, 0)
    BY <1>1, <2>1 DEF Plan, Stored
  <2> QED BY ONLY <2>2
<1>2. CASE Good(h, K, low, high, idx)
  <2>1. PICK W, lev, lo, hi : Form(h, K, low, high, idx, W, lev, lo, hi, 0, 0, {})
    BY <1>2 DEF Good
  <2>2. Stored(h, K, idx, W) /\ W # {}
    BY <2>1 DEF Form, Shape, ShapeTypes
  <2>3. PICK dl, fl : Whole(idx, W, dl, fl)
    BY <2>2 DEF Stored
  <2>4. Plan(h, W, dl, fl, lev, lo, hi)
    BY <2>1, <2>2, <2>3 DEF Plan, Stored
  <2> QED BY ONLY <2>4
<1> QED BY <1>1, <1>2 DEF SoundFor, Sound

\* Block c names b at i; so does a chain s whose head the header has at n.
PlaceIn(c, i, b) == c \in 0 .. idx.high /\ i \in DOMAIN Named(c) /\ Named(c)[i] = b
LinkOf(s, n, c, i, b) ==
  \/ c = 0 /\ i = n /\ s # <<>> /\ b = s[1]
  \/ \E m \in 1 .. Len(s) - 1 : c = s[m] /\ i = 1 /\ b = s[m + 1]
KidAt(W, ks, ds, root, c, i, b) ==
  \/ c = 0 /\ i = 1 /\ b = root
  \/ c \in W /\ ds[c] # <<>> /\ i \in 1 .. Len(ks[c]) + 1 /\ ds[c][i] = b /\ b # root

\* The tree and the chains are the file, and share nothing.
LEMMA PlanFacts ==
  ASSUME NEW h, NEW W, NEW dl, NEW fl, NEW lev, NEW lo, NEW hi, Plan(h, W, dl, fl, lev, lo, hi)
  PROVE  /\ idx.high \in Nat /\ idx.root \in Nat
         /\ Chain(idx, "D", idx.del, dl) /\ Chain(idx, "F", idx.rec, fl)
         /\ W \cup Ran(dl) \cup Ran(fl) = 1 .. idx.high
         /\ W \cap Ran(dl) = {} /\ W \cap Ran(fl) = {} /\ Ran(dl) \cap Ran(fl) = {}
         /\ \A b \in W : idx.blk[b].type \in {"U", "V"}
         /\ W = {} => idx.root = 0
         /\ W # {} => idx.root \in W
<1>1. idx \in Indexes(h, FileKeys(h)) /\ Whole(idx, W, dl, fl) /\ (W = {} => idx.root = 0)
  BY DEF Plan
<1>2. W # {} => idx.root \in W
  BY DEF Plan, Form, Shape, ShapeTypes
<1>3. idx.high \in Nat /\ idx.root \in Nat
  BY ONLY <1>1, IndexTypes
<1> QED BY ONLY <1>1, <1>2, <1>3 DEF Whole

\* What a link of a chain names.
LEMMA LinkNames ==
  ASSUME NEW type, type \in {"D", "F"}, NEW first, NEW s, Chain(idx, type, first, s),
         NEW c, c \in Ran(s), c # 0, NEW i, i \in DOMAIN Named(c), NEW n
  PROVE  /\ Named(c)[i] # 0 => Named(c)[i] \in Ran(s) /\ LinkOf(s, n, c, i, Named(c)[i])
         /\ i = 1
<1>1. s \in Seq(Nat) /\ \A m \in 1 .. Len(s) : /\ idx.blk[s[m]].type = type
                                               /\ idx.blk[s[m]].next = IF m = Len(s) THEN 0 ELSE s[m + 1]
  BY ONLY Chain(idx, type, first, s) DEF Chain
<1>2. PICK m \in 1 .. Len(s) : c = s[m]
  BY DEF Ran
<1>3. Named(c) = <<idx.blk[c].next>>
  BY <1>1, <1>2 DEF Named
<1>4. i = 1 /\ Named(c)[i] = IF m = Len(s) THEN 0 ELSE s[m + 1]
  BY <1>1, <1>2, <1>3
<1>5. CASE m = Len(s)
  BY ONLY <1>4, <1>5
<1>6. CASE m # Len(s)
  <2>1. Len(s) \in Nat
    BY ONLY <1>1, LenProperties
  <2>2. m \in 1 .. Len(s) - 1 /\ m + 1 \in 1 .. Len(s)
    BY ONLY <1>2, <1>6, <2>1
  <2> QED BY ONLY <1>2, <1>4, <1>6, <2>2 DEF LinkOf, Ran
<1> QED BY ONLY <1>5, <1>6

-----------------------------------------------------------------------------
(***************************************************************************)
(* Index: what names a block.                                              *)
(***************************************************************************)
Shaped(h, W, lev, lo, hi) ==
  Shape(FileKeys(h), LowEnd(h), HighEnd(h), W, idx.root, KeysIn(idx, W), KidsIn(idx, W), lev, lo, hi, 0, 0, {})

\* The blocks of the plan have the keys and kids of the index.
LEMMA PlanShape ==
  ASSUME NEW h, NEW W, NEW dl, NEW fl, NEW lev, NEW lo, NEW hi, Plan(h, W, dl, fl, lev, lo, hi), NEW b \in W
  PROVE  /\ Shaped(h, W, lev, lo, hi)
         /\ Named(b) = KidsIn(idx, W)[b] /\ b # 0
<1>1. Shaped(h, W, lev, lo, hi)
  BY DEF Plan, Form, Shaped
<1>2. idx.blk[b].type \in {"U", "V"} /\ b # 0
  BY PlanFacts
<1>3. KidsIn(idx, W)[b] = KidsOf(idx.blk[b])
  BY ViewIs
<1>4. Named(b) = KidsOf(idx.blk[b])
  <2>1. CASE idx.blk[b].type = "U"
    BY <1>2, <2>1 DEF Named, KidsOf
  <2>2. CASE idx.blk[b].type = "V"
    BY <1>2, <2>2 DEF Named, KidsOf
  <2> QED BY <1>2, <2>1, <2>2
<1> QED BY <1>1, <1>2, <1>3, <1>4

\* What a block of the tree names are its kids.
LEMMA KidNames ==
  ASSUME NEW h, Header(h), NEW W, NEW dl, NEW fl, NEW lev, NEW lo, NEW hi, Plan(h, W, dl, fl, lev, lo, hi),
         NEW c \in W, NEW i \in DOMAIN Named(c)
  PROVE  /\ Named(c)[i] \in W
         /\ KidAt(W, KeysIn(idx, W), KidsIn(idx, W), idx.root, c, i, Named(c)[i])
         /\ lev[Named(c)[i]] + 1 = lev[c]
<1> DEFINE K == FileKeys(h)
           low == LowEnd(h)
           high == HighEnd(h)
           root == idx.root
           ks == KeysIn(idx, W)
           ds == KidsIn(idx, W)
           E == {}
<1>1. Shape(K, low, high, W, root, ks, ds, lev, lo, hi, 0, 0, E) /\ Named(c) = ds[c]
  BY PlanShape DEF Shaped
<1>2. Ordered(K)
  BY EndsAre
<1> HIDE DEF K, low, high, root, ks, ds, E
<1>3. /\ Len(ds[c]) \in Nat /\ ds[c] \in Seq(W) /\ lev[root] \in Nat /\ ks[c] \in Seq(K)
      /\ ds[c] # <<>> => Len(ds[c]) = Len(ks[c]) + 1
      /\ \A b \in W : lev[b] <= lev[root]
  BY ONLY <1>1, <1>2, c \in W, BlockFacts
<1>4. i \in 1 .. Len(ds[c]) /\ ds[c] # <<>>
  BY <1>1, <1>3
<1>5. i \in 1 .. Len(ks[c]) + 1
  BY ONLY <1>3, <1>4
<1>6. ds[c][i] \in W /\ lev[ds[c][i]] + 1 = lev[c] /\ lev[ds[c][i]] \in Nat
  BY ONLY <1>1, <1>2, <1>4, <1>5, c \in W, PlaceFacts
<1>7. ds[c][i] # root
  <2>1. lev[c] <= lev[root] /\ lev[root] \in Nat
    BY ONLY <1>3, c \in W
  <2>2. ASSUME ds[c][i] = root PROVE FALSE
    <3>1. lev[root] + 1 <= lev[root]
      BY ONLY <1>6, <2>1, <2>2
    <3> QED BY ONLY <2>1, <3>1
  <2> QED BY ONLY <2>2
<1> QED BY ONLY <1>1, <1>4, <1>5, <1>6, <1>7, c \in W DEF KidAt, ks, ds, root

\* By which block one is named.
Namer(W, dl, fl, c, i, b) ==
  \/ b \in W /\ KidAt(W, KeysIn(idx, W), KidsIn(idx, W), idx.root, c, i, b)
  \/ b \in Ran(dl) /\ LinkOf(dl, 2, c, i, b)
  \/ b \in Ran(fl) /\ LinkOf(fl, 3, c, i, b)

\* What names a block: the header, a branch, or the block before it in a chain.
LEMMA NamerOf ==
  ASSUME NEW h, Header(h), NEW W, NEW dl, NEW fl, NEW lev, NEW lo, NEW hi, Plan(h, W, dl, fl, lev, lo, hi),
         NEW c, NEW i, NEW b, b # 0, PlaceIn(c, i, b)
  PROVE  Namer(W, dl, fl, c, i, b)
<1>1. /\ idx.high \in Nat /\ c \in 0 .. idx.high /\ i \in DOMAIN Named(c) /\ Named(c)[i] = b
      /\ Chain(idx, "D", idx.del, dl) /\ Chain(idx, "F", idx.rec, fl)
      /\ W \cup Ran(dl) \cup Ran(fl) = 1 .. idx.high
      /\ W = {} => idx.root = 0
      /\ W # {} => idx.root \in W
  BY PlanFacts DEF PlaceIn
<1>2. CASE c = 0
  <2>1. Named(c) = <<idx.root, idx.del, idx.rec>>
    BY <1>2 DEF Named
  <2>2. i \in {1, 2, 3}
    BY <1>1, <2>1
  <2>3. CASE i = 1
    <3>1. b = idx.root
      BY <1>1, <2>1, <2>3
    <3> QED BY <1>1, <1>2, <2>3, <3>1 DEF Namer, KidAt
  <2>4. CASE i = 2
    <3>1. b = idx.del
      BY <1>1, <2>1, <2>4
    <3>2. dl # <<>> /\ b = dl[1] /\ dl \in Seq(Nat)
      BY <1>1, <3>1 DEF Chain
    <3>3. 1 \in 1 .. Len(dl)
      BY <3>2
    <3>4. b \in Ran(dl)
      BY ONLY <3>2, <3>3 DEF Ran
    <3> QED BY <1>2, <2>4, <3>2, <3>4 DEF Namer, LinkOf
  <2>5. CASE i = 3
    <3>1. b = idx.rec
      BY <1>1, <2>1, <2>5
    <3>2. fl # <<>> /\ b = fl[1] /\ fl \in Seq(Nat)
      BY <1>1, <3>1 DEF Chain
    <3>3. 1 \in 1 .. Len(fl)
      BY <3>2
    <3>4. b \in Ran(fl)
      BY ONLY <3>2, <3>3 DEF Ran
    <3> QED BY <1>2, <2>5, <3>2, <3>4 DEF Namer, LinkOf
  <2> QED BY ONLY <2>2, <2>3, <2>4, <2>5
<1>3. CASE c \in W
  BY <1>1, <1>3, KidNames DEF Namer
<1>4. CASE c \in Ran(dl) /\ c # 0
  <2> DEFINE type == "D"
             n == 2
  <2>1. type \in {"D", "F"} /\ Chain(idx, type, idx.del, dl)
    BY <1>1
  <2> HIDE DEF type, n
  <2>2. b \in Ran(dl) /\ LinkOf(dl, n, c, i, b)
    BY ONLY <1>1, <1>4, <2>1, b # 0, LinkNames
  <2> QED BY <2>2 DEF Namer, n
<1>5. CASE c \in Ran(fl) /\ c # 0
  <2> DEFINE type == "F"
             n == 3
  <2>1. type \in {"D", "F"} /\ Chain(idx, type, idx.rec, fl)
    BY <1>1
  <2> HIDE DEF type, n
  <2>2. b \in Ran(fl) /\ LinkOf(fl, n, c, i, b)
    BY ONLY <1>1, <1>5, <2>1, b # 0, LinkNames
  <2> QED BY <2>2 DEF Namer, n
<1>6. c = 0 \/ c \in W \/ (c \in Ran(dl) /\ c # 0) \/ (c \in Ran(fl) /\ c # 0)
  <2>1. c = 0 \/ c \in 1 .. idx.high
    BY ONLY <1>1
  <2>2. 0 \notin 1 .. idx.high
    BY ONLY <1>1
  <2> QED BY ONLY <1>1, <2>1, <2>2
<1> QED BY ONLY <1>2, <1>3, <1>4, <1>5, <1>6

-----------------------------------------------------------------------------
(***************************************************************************)
(* Index: nothing else names it.                                           *)
(***************************************************************************)
\* No block is linked twice in a chain.
LEMMA OneLink ==
  ASSUME NEW t, NEW type, NEW first, NEW s, Chain(t, type, first, s), \A j \in 1 .. Len(s) : s[j] # 0,
         NEW n, NEW c, NEW i, NEW d, NEW j, NEW b, LinkOf(s, n, c, i, b), LinkOf(s, n, d, j, b)
  PROVE  c = d /\ i = j
<1>1. s \in Seq(Nat) /\ Len(s) \in Nat /\ \A x, y \in 1 .. Len(s) : s[x] = s[y] => x = y
  BY LenProperties DEF Chain
<1>2. \A m \in 1 .. Len(s) - 1 : m \in 1 .. Len(s) /\ m + 1 \in 1 .. Len(s) /\ m + 1 # 1
  BY ONLY <1>1
<1>3. s # <<>> => 1 \in 1 .. Len(s)
  BY ONLY <1>1
<1>4. ~ (s # <<>> /\ b = s[1] /\ \E m \in 1 .. Len(s) - 1 : b = s[m + 1])
  BY ONLY <1>1, <1>2, <1>3
<1>5. \A x, y \in 1 .. Len(s) - 1 : s[x + 1] = s[y + 1] => x = y
  <2> TAKE x, y \in 1 .. Len(s) - 1
  <2>1. x + 1 = y + 1 => x = y
    BY ONLY <1>2, x \in 1 .. Len(s) - 1, y \in 1 .. Len(s) - 1
  <2> QED BY ONLY <1>1, <1>2, <2>1, x \in 1 .. Len(s) - 1, y \in 1 .. Len(s) - 1
<1>6. CASE s # <<>> /\ b = s[1]
  BY ONLY <1>4, <1>6, LinkOf(s, n, c, i, b), LinkOf(s, n, d, j, b) DEF LinkOf
<1>7. CASE ~ (s # <<>> /\ b = s[1])
  <2>1. PICK x \in 1 .. Len(s) - 1 : c = s[x] /\ i = 1 /\ b = s[x + 1]
    BY ONLY <1>7, LinkOf(s, n, c, i, b) DEF LinkOf
  <2>2. PICK y \in 1 .. Len(s) - 1 : d = s[y] /\ j = 1 /\ b = s[y + 1]
    BY ONLY <1>7, LinkOf(s, n, d, j, b) DEF LinkOf
  <2>3. x = y
    BY ONLY <1>5, <2>1, <2>2
  <2> QED BY ONLY <2>1, <2>2, <2>3
<1> QED BY ONLY <1>6, <1>7

\* No block is named twice in the file.
LEMMA OneNamer ==
  ASSUME NEW h, Header(h), NEW W, NEW dl, NEW fl, NEW lev, NEW lo, NEW hi, Plan(h, W, dl, fl, lev, lo, hi),
         NEW c, NEW i, NEW d, NEW j, NEW b, b # 0, PlaceIn(c, i, b), PlaceIn(d, j, b)
  PROVE  c = d /\ i = j
<1>1. Namer(W, dl, fl, c, i, b) /\ Namer(W, dl, fl, d, j, b)
  BY NamerOf
<1>2. /\ Chain(idx, "D", idx.del, dl) /\ Chain(idx, "F", idx.rec, fl)
      /\ W \cup Ran(dl) \cup Ran(fl) = 1 .. idx.high
      /\ W \cap Ran(dl) = {} /\ W \cap Ran(fl) = {} /\ Ran(dl) \cap Ran(fl) = {} /\ idx.high \in Nat
  BY PlanFacts
<1>3. CASE b \in W
  <2> DEFINE K == FileKeys(h)
             low == LowEnd(h)
             high == HighEnd(h)
             root == idx.root
             ks == KeysIn(idx, W)
             ds == KidsIn(idx, W)
             E == {}
  <2>1. KidAt(W, ks, ds, root, c, i, b) /\ KidAt(W, ks, ds, root, d, j, b)
    BY ONLY <1>1, <1>2, <1>3 DEF Namer
  <2>2. Shape(K, low, high, W, root, ks, ds, lev, lo, hi, 0, 0, E)
    BY <1>3, PlanShape DEF Shaped
  <2>3. Ordered(K)
    BY EndsAre
  <2> HIDE DEF K, low, high, root, ks, ds, E
  <2>4. CASE b = root
    BY ONLY <2>1, <2>4 DEF KidAt
  <2>5. CASE b # root
    <3>1. /\ c \in W /\ ds[c] # <<>> /\ i \in 1 .. Len(ks[c]) + 1 /\ ds[c][i] = b
          /\ d \in W /\ ds[d] # <<>> /\ j \in 1 .. Len(ks[d]) + 1 /\ ds[d][j] = b
      BY ONLY <2>1, <2>5 DEF KidAt
    <3>2. ds[c][i] = ds[d][j]
      BY ONLY <3>1
    <3> QED BY ONLY <2>2, <2>3, <3>1, <3>2, OnePlace
  <2> QED BY ONLY <2>4, <2>5
<1>4. CASE b \in Ran(dl)
  <2> DEFINE n == 2
             type == "D"
             first == idx.del
  <2>1. LinkOf(dl, n, c, i, b) /\ LinkOf(dl, n, d, j, b)
    BY ONLY <1>1, <1>2, <1>4 DEF Namer
  <2>2. Chain(idx, type, first, dl) /\ \A x \in 1 .. Len(dl) : dl[x] # 0
    BY ONLY <1>2 DEF Ran
  <2> HIDE DEF n, type, first
  <2> QED BY ONLY <2>1, <2>2, OneLink
<1>5. CASE b \in Ran(fl)
  <2> DEFINE n == 3
             type == "F"
             first == idx.rec
  <2>1. LinkOf(fl, n, c, i, b) /\ LinkOf(fl, n, d, j, b)
    BY ONLY <1>1, <1>2, <1>5 DEF Namer
  <2>2. Chain(idx, type, first, fl) /\ \A x \in 1 .. Len(fl) : fl[x] # 0
    BY ONLY <1>2 DEF Ran
  <2> HIDE DEF n, type, first
  <2> QED BY ONLY <2>1, <2>2, OneLink
<1> QED BY ONLY <1>1, <1>3, <1>4, <1>5 DEF Namer

\* A link of a chain is named by the one before it, or by the header.
LEMMA LinkNamed ==
  ASSUME NEW type, type \in {"D", "F"}, NEW first, NEW s, Chain(idx, type, first, s),
         Ran(s) \subseteq 1 .. idx.high, idx.high \in Nat,
         NEW n, n \in DOMAIN Named(0), Named(0)[n] = first, NEW b \in Ran(s)
  PROVE  \E c, i : PlaceIn(c, i, b)
<1>1. /\ s \in Seq(Nat) /\ first = IF s = <<>> THEN 0 ELSE s[1]
      /\ \A m \in 1 .. Len(s) : /\ idx.blk[s[m]].type = type
                                /\ idx.blk[s[m]].next = IF m = Len(s) THEN 0 ELSE s[m + 1]
  BY ONLY Chain(idx, type, first, s) DEF Chain
<1>2. PICK m \in 1 .. Len(s) : b = s[m]
  BY DEF Ran
<1>3. Len(s) \in Nat
  BY ONLY <1>1, LenProperties
<1>4. CASE m = 1
  <2>1. Named(0)[n] = b
    BY <1>1, <1>2, <1>3, <1>4
  <2>2. 0 \in 0 .. idx.high
    BY ONLY idx.high \in Nat
  <2>3. PlaceIn(0, n, b)
    BY <2>1, <2>2 DEF PlaceIn
  <2> QED BY ONLY <2>3
<1>5. CASE m # 1
  <2> DEFINE j == m - 1
             c == s[j]
  <2>1. j \in 1 .. Len(s) /\ j # Len(s) /\ j + 1 = m
    BY ONLY <1>2, <1>3, <1>5
  <2> HIDE DEF j
  <2>2. idx.blk[c].type = type /\ idx.blk[c].next = b
    BY <1>1, <1>2, <2>1
  <2>3. c \in Ran(s)
    BY <2>1 DEF Ran
  <2> HIDE DEF c
  <2>4. c # 0 /\ c \in 0 .. idx.high
    BY ONLY <2>3, Ran(s) \subseteq 1 .. idx.high, idx.high \in Nat
  <2>5. Named(c) = <<b>>
    BY ONLY <2>2, <2>4, type \in {"D", "F"} DEF Named
  <2>6. PlaceIn(c, 1, b)
    BY ONLY <2>4, <2>5 DEF PlaceIn
  <2> QED BY ONLY <2>6
<1> QED BY ONLY <1>4, <1>5

\* Every block of the file is named.
LEMMA HasPlace ==
  ASSUME NEW h, Header(h), NEW W, NEW dl, NEW fl, NEW lev, NEW lo, NEW hi, Plan(h, W, dl, fl, lev, lo, hi),
         NEW b \in 1 .. idx.high
  PROVE  \E c, i : PlaceIn(c, i, b)
<1>1. /\ idx.high \in Nat /\ Chain(idx, "D", idx.del, dl) /\ Chain(idx, "F", idx.rec, fl)
      /\ W \cup Ran(dl) \cup Ran(fl) = 1 .. idx.high
  BY PlanFacts
<1>2. Named(0) = <<idx.root, idx.del, idx.rec>>
  BY DEF Named
<1>3. CASE b \in W
  <2> DEFINE K == FileKeys(h)
             low == LowEnd(h)
             high == HighEnd(h)
             root == idx.root
             ks == KeysIn(idx, W)
             ds == KidsIn(idx, W)
             E == {}
  <2>1. Shape(K, low, high, W, root, ks, ds, lev, lo, hi, 0, 0, E)
    BY <1>3, PlanShape DEF Shaped
  <2>2. Ordered(K) /\ \A p \in W : Named(p) = ds[p]
    BY EndsAre, PlanShape
  <2> HIDE DEF K, low, high, ks, ds, E
  <2>3. CASE b = root
    <3>1. PlaceIn(0, 1, b)
      BY <1>1, <1>2, <2>3 DEF PlaceIn
    <3> QED BY ONLY <3>1
  <2>4. CASE b # root
    <3> HIDE DEF root
    <3>1. b \in {root, 0} \/ \E p \in W : IsKidOf(ds, b, p)
      BY ONLY <1>3, <2>1 DEF Shape
    <3>2. PICK p \in W : IsKidOf(ds, b, p)
      BY ONLY <1>1, <2>4, <3>1, b \in 1 .. idx.high
    <3>3. PICK i \in 1 .. Len(ds[p]) : ds[p][i] = b
      BY ONLY <3>2 DEF IsKidOf
    <3>3a. ds[p] \in Seq(W)
      BY ONLY <2>1, <2>2, BlockFacts
    <3>4. i \in DOMAIN Named(p) /\ Named(p)[i] = b
      BY ONLY <2>2, <3>3, <3>3a
    <3>5. p \in 0 .. idx.high
      BY ONLY <1>1, p \in W
    <3>6. PlaceIn(p, i, b)
      BY ONLY <3>4, <3>5 DEF PlaceIn
    <3> QED BY ONLY <3>6
  <2> QED BY ONLY <2>3, <2>4
<1>4. CASE b \in Ran(dl)
  <2> DEFINE n == 2
             type == "D"
             first == idx.del
  <2>1. /\ n \in DOMAIN Named(0) /\ Named(0)[n] = first /\ type \in {"D", "F"}
        /\ Chain(idx, type, first, dl) /\ Ran(dl) \subseteq 1 .. idx.high
    BY <1>1, <1>2
  <2> HIDE DEF n, type, first
  <2> QED BY ONLY <1>1, <1>4, <2>1, LinkNamed
<1>5. CASE b \in Ran(fl)
  <2> DEFINE n == 3
             type == "F"
             first == idx.rec
  <2>1. /\ n \in DOMAIN Named(0) /\ Named(0)[n] = first /\ type \in {"D", "F"}
        /\ Chain(idx, type, first, fl) /\ Ran(fl) \subseteq 1 .. idx.high
    BY <1>1, <1>2
  <2> HIDE DEF n, type, first
  <2> QED BY ONLY <1>1, <1>5, <2>1, LinkNamed
<1> QED BY <1>1, <1>3, <1>4, <1>5

\* Every block of the file is named once.
LEMMA OnePlaceOf ==
  ASSUME NEW h, Header(h), NEW W, NEW dl, NEW fl, NEW lev, NEW lo, NEW hi, Plan(h, W, dl, fl, lev, lo, hi),
         NEW b \in 1 .. idx.high
  PROVE  Cardinality(PlacesOf(b)) = 1
<1>1. b # 0
  BY PlanFacts
<1>2. \A p : p \in PlacesOf(b) <=> \E c, i : p = <<c, i>> /\ PlaceIn(c, i, b)
  BY DEF PlacesOf, PlaceIn
<1>3. PICK c, i : PlaceIn(c, i, b)
  BY HasPlace
<1>4. \A d, j : PlaceIn(d, j, b) => c = d /\ i = j
  BY ONLY Header(h), Plan(h, W, dl, fl, lev, lo, hi), <1>1, <1>3, OneNamer
<1>5. PlacesOf(b) = {<<c, i>>}
  BY ONLY <1>2, <1>3, <1>4
<1> QED BY ONLY <1>5, FS_Singleton

-----------------------------------------------------------------------------
(***************************************************************************)
(* Index: the way back to the header.                                      *)
(***************************************************************************)
\* The block that names c, and how far it is from the header.
NamersOf(c) == {d \in 0 .. idx.high : c \in ToSet(Named(d))}
Upward ==
  [c \in 0 .. idx.high |-> IF c = 0 \/ NamersOf(c) = {} THEN c ELSE CHOOSE d \in NamersOf(c) : TRUE]
NumberIn(s, c) == CHOOSE j \in 1 .. Len(s) : s[j] = c
\* A number that falls with every step back to the header.
Depth(W, dl, fl, lev, c) ==
  IF c = 0 THEN 0
  ELSE IF c \in W THEN lev[idx.root] - lev[c] + 1
  ELSE IF c \in Ran(dl) THEN NumberIn(dl, c) ELSE NumberIn(fl, c)

\* Back goes upward, block by block.
LEMMA BackIs ==
  ASSUME NEW b
  PROVE  Back(b) = Trail(Upward, b, idx.high)
BY DEF Back, Upward, NamersOf

\* Upward goes to the block that names it.
LEMMA UpwardIs ==
  ASSUME NEW h, Header(h), NEW W, NEW dl, NEW fl, NEW lev, NEW lo, NEW hi, Plan(h, W, dl, fl, lev, lo, hi)
  PROVE  /\ Upward[0] = 0 /\ Upward \in [0 .. idx.high -> 0 .. idx.high]
         /\ \A c \in 1 .. idx.high :
              Upward[c] \in 0 .. idx.high /\ \E i : Namer(W, dl, fl, Upward[c], i, c)
<1>1. idx.high \in Nat
  BY PlanFacts
<1>2. Upward[0] = 0
  BY <1>1 DEF Upward
<1>3. ASSUME NEW c \in 1 .. idx.high
      PROVE  Upward[c] \in 0 .. idx.high /\ \E i : Namer(W, dl, fl, Upward[c], i, c)
  <2>1. c # 0 /\ c \in 0 .. idx.high
    BY ONLY <1>1, c \in 1 .. idx.high
  <2>2. \A d : d \in NamersOf(c) <=> \E i : PlaceIn(d, i, c)
    BY DEF NamersOf, PlaceIn, ToSet
  <2>3. NamersOf(c) # {}
    <3>1. \E d, i : PlaceIn(d, i, c)
      BY HasPlace
    <3> QED BY ONLY <2>2, <3>1
  <2>4. Upward[c] \in NamersOf(c)
    <3>1. Upward[c] = CHOOSE d \in NamersOf(c) : TRUE
      BY <2>1, <2>3 DEF Upward
    <3> QED BY <2>3, <3>1
  <2> DEFINE d == Upward[c]
  <2>5. d \in NamersOf(c)
    BY <2>4
  <2> HIDE DEF d
  <2>6. PICK i : PlaceIn(d, i, c)
    BY ONLY <2>2, <2>5
  <2>7. d \in 0 .. idx.high
    BY ONLY <2>6 DEF PlaceIn
  <2>8. Namer(W, dl, fl, d, i, c)
    BY <2>1, <2>6, NamerOf
  <2> QED BY ONLY <2>7, <2>8 DEF d
<1>4. Upward \in [0 .. idx.high -> 0 .. idx.high]
  <2>1. Upward = [c \in 0 .. idx.high |-> Upward[c]]
    BY DEF Upward
  <2>2. \A c \in 0 .. idx.high : Upward[c] \in 0 .. idx.high
    <3> TAKE c \in 0 .. idx.high
    <3>1. c = 0 \/ c \in 1 .. idx.high
      BY ONLY <1>1, c \in 0 .. idx.high
    <3>2. 0 \in 0 .. idx.high
      BY ONLY <1>1
    <3> QED BY ONLY <1>2, <1>3, <3>1, <3>2
  <2> QED BY ONLY <2>1, <2>2
<1> QED BY ONLY <1>2, <1>3, <1>4

\* The number of a block in a chain.
LEMMA NumberIs ==
  ASSUME NEW t, NEW type, NEW first, NEW s, Chain(t, type, first, s), NEW m, m \in 1 .. Len(s)
  PROVE  NumberIn(s, s[m]) = m
<1>1. \A i, j \in 1 .. Len(s) : s[i] = s[j] => i = j
  BY DEF Chain
<1> DEFINE c == s[m]
<1>2. \E j \in 1 .. Len(s) : s[j] = c
  BY m \in 1 .. Len(s)
<1> HIDE DEF c
<1>3. NumberIn(s, c) \in 1 .. Len(s) /\ s[NumberIn(s, c)] = c
  BY ONLY <1>2 DEF NumberIn
<1> QED BY ONLY <1>1, <1>3, m \in 1 .. Len(s) DEF c

\* A chain has not more links than the file has blocks.
LEMMA ChainLength ==
  ASSUME NEW t, NEW type, NEW first, NEW s, Chain(t, type, first, s), NEW n, n \in Nat, Ran(s) \subseteq 1 .. n
  PROVE  Len(s) \in Nat /\ Len(s) <= n
<1> DEFINE l == Len(s)
<1>1. s \in Seq(Nat) /\ \A i, j \in 1 .. Len(s) : s[i] = s[j] => i = j
  BY DEF Chain
<1>2. l \in Nat /\ s = [i \in 1 .. l |-> s[i]]
  BY <1>1
<1>3. \A i \in 1 .. l : s[i] \in 1 .. n
  BY DEF Ran
<1>4. \A i, j \in 1 .. l : s[i] = s[j] => i = j
  BY ONLY <1>1
<1> HIDE DEF l
<1>5. s \in Injection(1 .. l, 1 .. n)
  <2>1. s \in [1 .. l -> 1 .. n]
    BY ONLY <1>2, <1>3
  <2> QED BY ONLY <1>4, <2>1 DEF Injection, IsInjective
<1>6. \A x \in Nat : IsFiniteSet(1 .. x) /\ Cardinality(1 .. x) = x
  <2> TAKE x \in Nat
  <2>1. 1 \in Int /\ x \in Int
    OBVIOUS
  <2>2. IsFiniteSet(1 .. x) /\ Cardinality(1 .. x) = IF 1 > x THEN 0 ELSE x - 1 + 1
    BY ONLY <2>1, FS_Interval
  <2> QED BY ONLY <2>2, x \in Nat
<1>7. IsFiniteSet(1 .. n)
  BY ONLY <1>6, n \in Nat
<1>8. Cardinality(1 .. l) <= Cardinality(1 .. n)
  BY ONLY <1>5, <1>7, FS_Injection
<1> QED BY ONLY <1>2, <1>6, <1>8, n \in Nat DEF l

-----------------------------------------------------------------------------
(***************************************************************************)
(* Index: the way back ends.                                               *)
(***************************************************************************)
\* Links go to blocks with higher numbers.
LEMMA LinkDepth ==
  ASSUME NEW t, NEW type, NEW first, NEW s, Chain(t, type, first, s), NEW n, n \in Nat, Ran(s) \subseteq 1 .. n,
         NEW c, c \in Ran(s)
  PROVE  /\ NumberIn(s, c) \in Nat /\ NumberIn(s, c) > 0 /\ NumberIn(s, c) <= n
         /\ \A d, i, at : LinkOf(s, at, d, i, c) => d = 0 \/ (d \in Ran(s) /\ NumberIn(s, d) < NumberIn(s, c))
<1>1. Len(s) \in Nat /\ Len(s) <= n
  BY ONLY Chain(t, type, first, s), n \in Nat, Ran(s) \subseteq 1 .. n, ChainLength
<1>2. \A m \in 1 .. Len(s) : NumberIn(s, s[m]) = m
  BY ONLY Chain(t, type, first, s), NumberIs
<1>3. PICK m \in 1 .. Len(s) : c = s[m]
  BY ONLY c \in Ran(s) DEF Ran
<1>4. NumberIn(s, c) = m /\ m \in Nat /\ m > 0 /\ m <= n
  <2>1. m \in Nat /\ m > 0 /\ m <= n
    BY ONLY <1>1, n \in Nat, m \in 1 .. Len(s)
  <2> QED BY ONLY <1>2, <1>3, <2>1
<1>5. ASSUME NEW d, NEW i, NEW at, LinkOf(s, at, d, i, c)
      PROVE  d = 0 \/ (d \in Ran(s) /\ NumberIn(s, d) < NumberIn(s, c))
  <2>1. CASE d = 0
    BY ONLY <2>1
  <2>2. CASE d # 0
    <3>1. PICK x \in 1 .. Len(s) - 1 : d = s[x] /\ c = s[x + 1]
      BY ONLY <1>5, <2>2 DEF LinkOf
    <3>2. x \in 1 .. Len(s) /\ x + 1 \in 1 .. Len(s) /\ x < x + 1
      BY ONLY <1>1, x \in 1 .. Len(s) - 1
    <3>3. NumberIn(s, d) = x /\ NumberIn(s, c) = x + 1
      BY ONLY <1>2, <3>1, <3>2
    <3>4. d \in Ran(s)
      BY ONLY <3>1, <3>2 DEF Ran
    <3> QED BY ONLY <3>2, <3>3, <3>4
  <2> QED BY ONLY <2>1, <2>2
<1> QED BY ONLY <1>4, <1>5

\* Levels fall by one from a block to its kids, and are less than the blocks of
\* the file.
LEMMA TreeDepth ==
  ASSUME NEW h, Header(h), NEW W, NEW dl, NEW fl, NEW lev, NEW lo, NEW hi, Plan(h, W, dl, fl, lev, lo, hi),
         NEW c \in W
  PROVE  /\ lev[c] \in Nat /\ lev[idx.root] \in Nat /\ lev[c] <= lev[idx.root] /\ lev[idx.root] + 1 <= idx.high
         /\ \A d, i : Namer(W, dl, fl, d, i, c) =>
              \/ d = 0 /\ c = idx.root
              \/ d \in W /\ i \in DOMAIN Named(d) /\ Named(d)[i] = c /\ lev[c] + 1 = lev[d]
<1> DEFINE K == FileKeys(h)
           low == LowEnd(h)
           high == HighEnd(h)
           root == idx.root
           ks == KeysIn(idx, W)
           ds == KidsIn(idx, W)
           E == {}
<1>1. Form(h, K, low, high, idx, W, lev, lo, hi, 0, 0, E)
  BY DEF Plan
<1>2. Shape(K, low, high, W, root, ks, ds, lev, lo, hi, 0, 0, E) /\ \A d \in W : Named(d) = ds[d]
  BY PlanShape DEF Shaped
<1>3. Ordered(K)
  BY EndsAre
<1>4. W \cap Ran(dl) = {} /\ W \cap Ran(fl) = {}
  BY PlanFacts
<1>5. \A d, i : Namer(W, dl, fl, d, i, c) => KidAt(W, ks, ds, root, d, i, c)
  BY ONLY <1>4, c \in W DEF Namer
<1> HIDE DEF K, low, high, ks, ds, E
<1>6. lev[root] + 1 <= idx.high
  BY ONLY <1>1, <1>3, HeightIs
<1> HIDE DEF root
<1>7. lev[c] \in Nat /\ lev[root] \in Nat /\ lev[c] <= lev[root]
  BY ONLY <1>2, <1>3, c \in W, BlockFacts
<1>8. ASSUME NEW d, NEW i, KidAt(W, ks, ds, root, d, i, c)
      PROVE  \/ d = 0 /\ c = root
             \/ d \in W /\ i \in DOMAIN Named(d) /\ Named(d)[i] = c /\ lev[c] + 1 = lev[d]
  <2>1. CASE d = 0 /\ c = root
    BY ONLY <2>1
  <2>2. CASE ~ (d = 0 /\ c = root)
    <3>1. d \in W /\ ds[d] # <<>> /\ i \in 1 .. Len(ks[d]) + 1 /\ ds[d][i] = c
      BY ONLY <1>8, <2>2 DEF KidAt
    <3>2. lev[ds[d][i]] + 1 = lev[d] /\ i \in 1 .. Len(ds[d])
      BY ONLY <1>2, <1>3, <3>1, PlaceFacts
    <3>3. ds[d] \in Seq(W)
      BY ONLY <1>2, <1>3, <3>1, BlockFacts
    <3>4. i \in DOMAIN ds[d]
      BY ONLY <3>2, <3>3
    <3> QED BY ONLY <1>2, <3>1, <3>2, <3>4
  <2> QED BY ONLY <2>1, <2>2
<1> QED BY ONLY <1>5, <1>6, <1>7, <1>8 DEF root

\* The way back from every block ends in the header: there are no cycles.
LEMMA BackEnds ==
  ASSUME NEW h, Header(h), NEW W, NEW dl, NEW fl, NEW lev, NEW lo, NEW hi, Plan(h, W, dl, fl, lev, lo, hi),
         NEW b \in 1 .. idx.high
  PROVE  TrailEnds(Upward, 0 .. idx.high, b, Back(b)) /\ Last(Back(b)) = 0
<1> DEFINE n == idx.high
           D == 0 .. n
           dep == [c \in D |-> Depth(W, dl, fl, lev, c)]
           next == Upward
           root == idx.root
<1>1. /\ n \in Nat /\ Chain(idx, "D", idx.del, dl) /\ Chain(idx, "F", idx.rec, fl)
      /\ W \cup Ran(dl) \cup Ran(fl) = 1 .. n
      /\ W \cap Ran(dl) = {} /\ W \cap Ran(fl) = {} /\ Ran(dl) \cap Ran(fl) = {}
  BY PlanFacts
<1>2. /\ next[0] = 0 /\ next \in [D -> D]
      /\ \A c \in 1 .. n : next[c] \in D /\ \E i : Namer(W, dl, fl, next[c], i, c)
  BY UpwardIs
<1>3. Ran(dl) \subseteq 1 .. n /\ Ran(fl) \subseteq 1 .. n
  BY ONLY <1>1
<1> DEFINE Dep(c) == Depth(W, dl, fl, lev, c)
<1>4. ASSUME NEW c, c \in W
      PROVE  /\ Dep(c) \in Nat /\ Dep(c) > 0 /\ Dep(c) <= n
             /\ \A d, i : Namer(W, dl, fl, d, i, c) => Dep(d) < Dep(c)
  <2>1. /\ lev[c] \in Nat /\ lev[root] \in Nat /\ lev[c] <= lev[root] /\ lev[root] + 1 <= n
        /\ \A d, i : Namer(W, dl, fl, d, i, c) => (d = 0 /\ c = root) \/ (d \in W /\ lev[c] + 1 = lev[d])
    BY <1>4, TreeDepth
  <2>2. 0 \notin W
    BY ONLY <1>1
  <2>3. Dep(0) = 0 /\ \A d \in W : Dep(d) = lev[root] - lev[d] + 1
    BY ONLY <2>2 DEF Depth, root
  <2> HIDE DEF Dep, n, root
  <2>4. Dep(c) = lev[root] - lev[c] + 1 /\ Dep(c) \in Nat /\ Dep(c) > 0 /\ Dep(c) <= n
    BY ONLY <1>1, <1>4, <2>1, <2>3
  <2>5. ASSUME NEW d, NEW i, Namer(W, dl, fl, d, i, c) PROVE Dep(d) < Dep(c)
    <3>1. CASE d = 0
      BY ONLY <2>3, <2>4, <3>1
    <3>2. CASE d \in W /\ lev[c] + 1 = lev[d]
      BY ONLY <2>1, <2>3, <2>4, <3>2
    <3> QED BY ONLY <2>1, <2>5, <3>1, <3>2
  <2> QED BY ONLY <2>4, <2>5
<1>5. ASSUME NEW c, c \in Ran(dl)
      PROVE  /\ Dep(c) \in Nat /\ Dep(c) > 0 /\ Dep(c) <= n
             /\ \A d, i : Namer(W, dl, fl, d, i, c) => Dep(d) < Dep(c)
  <2> DEFINE type == "D"
             first == idx.del
  <2>1. Chain(idx, type, first, dl)
    BY <1>1
  <2> HIDE DEF type, first, n
  <2>2. /\ NumberIn(dl, c) \in Nat /\ NumberIn(dl, c) > 0 /\ NumberIn(dl, c) <= n
        /\ \A d, i, at : LinkOf(dl, at, d, i, c) => d = 0 \/ (d \in Ran(dl) /\ NumberIn(dl, d) < NumberIn(dl, c))
    BY ONLY <1>1, <1>3, <1>5, <2>1, LinkDepth
  <2>3. \A d \in Ran(dl) : d # 0 /\ d \notin W
    BY ONLY <1>1
  <2>4. Dep(0) = 0 /\ \A d \in Ran(dl) : Dep(d) = NumberIn(dl, d)
    BY ONLY <2>3 DEF Depth
  <2>5. \A d, i : Namer(W, dl, fl, d, i, c) => LinkOf(dl, 2, d, i, c)
    BY ONLY <1>1, <1>5 DEF Namer
  <2> HIDE DEF Dep
  <2>6. ASSUME NEW d, NEW i, Namer(W, dl, fl, d, i, c) PROVE Dep(d) < Dep(c)
    <3>1. d = 0 \/ (d \in Ran(dl) /\ NumberIn(dl, d) < NumberIn(dl, c))
      BY ONLY <2>2, <2>5, <2>6
    <3> QED BY ONLY <1>5, <2>2, <2>4, <3>1
  <2> QED BY ONLY <1>5, <2>2, <2>4, <2>6
<1>6. ASSUME NEW c, c \in Ran(fl)
      PROVE  /\ Dep(c) \in Nat /\ Dep(c) > 0 /\ Dep(c) <= n
             /\ \A d, i : Namer(W, dl, fl, d, i, c) => Dep(d) < Dep(c)
  <2> DEFINE type == "F"
             first == idx.rec
  <2>1. Chain(idx, type, first, fl)
    BY <1>1
  <2> HIDE DEF type, first, n
  <2>2. /\ NumberIn(fl, c) \in Nat /\ NumberIn(fl, c) > 0 /\ NumberIn(fl, c) <= n
        /\ \A d, i, at : LinkOf(fl, at, d, i, c) => d = 0 \/ (d \in Ran(fl) /\ NumberIn(fl, d) < NumberIn(fl, c))
    BY ONLY <1>1, <1>3, <1>6, <2>1, LinkDepth
  <2>3. \A d \in Ran(fl) : d # 0 /\ d \notin W /\ d \notin Ran(dl)
    BY ONLY <1>1
  <2>4. Dep(0) = 0 /\ \A d \in Ran(fl) : Dep(d) = NumberIn(fl, d)
    BY ONLY <2>3 DEF Depth
  <2>5. \A d, i : Namer(W, dl, fl, d, i, c) => LinkOf(fl, 3, d, i, c)
    BY ONLY <1>1, <1>6 DEF Namer
  <2> HIDE DEF Dep
  <2>6. ASSUME NEW d, NEW i, Namer(W, dl, fl, d, i, c) PROVE Dep(d) < Dep(c)
    <3>1. d = 0 \/ (d \in Ran(fl) /\ NumberIn(fl, d) < NumberIn(fl, c))
      BY ONLY <2>2, <2>5, <2>6
    <3> QED BY ONLY <1>6, <2>2, <2>4, <3>1
  <2> QED BY ONLY <1>6, <2>2, <2>4, <2>6
<1>7. Dep(0) = 0
  BY DEF Depth
<1>8. dep = [c \in D |-> Dep(c)] /\ b \in 1 .. n
  OBVIOUS
<1>9. Back(b) = Trail(next, b, n)
  BY BackIs
<1> HIDE DEF Dep, dep, next, root, n
<1>10. \A c \in D : c = 0 \/ c \in 1 .. n
  BY ONLY <1>1
<1>11. \A c \in 1 .. n : /\ Dep(c) \in Nat /\ Dep(c) > 0 /\ Dep(c) <= n
                         /\ \A d, i : Namer(W, dl, fl, d, i, c) => Dep(d) < Dep(c)
  BY ONLY <1>1, <1>4, <1>5, <1>6
<1>12. b \in D /\ \A c \in D : Dep(c) \in Nat
  BY ONLY <1>1, <1>7, <1>8, <1>10, <1>11
<1> HIDE DEF D
<1>13. dep \in [D -> Nat] /\ \A c \in D : dep[c] = Dep(c)
  BY ONLY <1>8, <1>12
<1>14. ASSUME NEW c, c \in D
       PROVE  next[c] \in D /\ (c = 0 => next[c] = c) /\ (c # 0 => Dep(next[c]) < Dep(c))
  BY ONLY <1>2, <1>10, <1>11, <1>14
<1>15. Nearer(next, D, dep)
  BY ONLY <1>13, <1>14 DEF Nearer
<1>16. dep[b] <= n
  BY ONLY <1>8, <1>11, <1>12, <1>13
<1>17. D \in SUBSET D
  OBVIOUS
<1>18. TrailEnds(next, D, b, Back(b))
  <2> DEFINE w == Trail(next, b, n)
  <2>1. TrailEnds(next, D, b, Trail(next, b, n))
    BY ONLY <1>1, <1>2, <1>12, <1>13, <1>15, <1>16, <1>17, TrailOf
  <2> QED BY ONLY <1>9, <2>1
<1>19. Last(Back(b)) = 0
  <2> DEFINE z == Last(Back(b))
  <2>1. z \in D /\ next[z] = z
    BY ONLY <1>18 DEF TrailEnds
  <2> HIDE DEF z
  <2>2. \A v \in Nat : ~ (v < v)
    OBVIOUS
  <2>3. z = 0
    BY ONLY <1>12, <1>14, <2>1, <2>2
  <2> QED BY ONLY <2>3 DEF z
<1> QED BY ONLY <1>18, <1>19 DEF next, D, n

-----------------------------------------------------------------------------
(***************************************************************************)
(* Index: BlocksHaveOnePlace.                                              *)
(***************************************************************************)
\* The type of a block that b names at i.
TypeBy(b, i) ==
  IF b # 0 /\ idx.blk[b].type # "U" THEN {idx.blk[b].type}
  ELSE IF b # 0 \/ i = 1 THEN {"U", "V"}
  ELSE IF i = 2 THEN {"D"} ELSE {"F"}

Typed(b, i, c, n, type) == idx.blk[c].type = type /\ (b # 0 => TypeBy(b, i) = {type}) /\ (b = 0 => i = n)

\* What a chain names is of its type.
LEMMA LinkType ==
  ASSUME NEW type, type \in {"D", "F"}, NEW first, NEW s, Chain(idx, type, first, s),
         \A x \in Ran(s) : x # 0, NEW b, NEW i, NEW c, c \in Ran(s), NEW n, LinkOf(s, n, b, i, c)
  PROVE  Typed(b, i, c, n, type)
<1>1. s \in Seq(Nat) /\ \A m \in 1 .. Len(s) : idx.blk[s[m]].type = type
  BY ONLY Chain(idx, type, first, s) DEF Chain
<1>2. \A d \in Ran(s) : idx.blk[d].type = type
  BY ONLY <1>1 DEF Ran
<1>3. Len(s) \in Nat
  BY ONLY <1>1, LenProperties
<1>4. (b = 0 /\ i = n) \/ (b \in Ran(s) /\ b # 0)
  <2>1. CASE b = 0 /\ i = n
    BY ONLY <2>1
  <2>2. CASE ~ (b = 0 /\ i = n)
    <3>1. PICK m \in 1 .. Len(s) - 1 : b = s[m]
      BY ONLY <2>2, LinkOf(s, n, b, i, c) DEF LinkOf
    <3>2. m \in 1 .. Len(s)
      BY ONLY <1>3, m \in 1 .. Len(s) - 1
    <3>3. b \in Ran(s)
      BY ONLY <3>1, <3>2 DEF Ran
    <3> QED BY ONLY <3>3, \A x \in Ran(s) : x # 0
  <2> QED BY ONLY <2>1, <2>2
<1>5. b \in Ran(s) /\ b # 0 => TypeBy(b, i) = {type}
  BY ONLY <1>2, type \in {"D", "F"} DEF TypeBy
<1> QED BY ONLY <1>2, <1>4, <1>5, c \in Ran(s) DEF Typed

\* What a block names is of the type it should have.
LEMMA NamedTypes ==
  ASSUME NEW h, Header(h), NEW W, NEW dl, NEW fl, NEW lev, NEW lo, NEW hi, Plan(h, W, dl, fl, lev, lo, hi),
         NEW b \in 0 .. idx.high, NEW i \in DOMAIN Named(b), NEW c, c = Named(b)[i], c # 0
  PROVE  idx.blk[c].type \in TypeBy(b, i)
<1>1. Namer(W, dl, fl, b, i, c)
  <2>1. PlaceIn(b, i, c)
    BY DEF PlaceIn
  <2> QED BY <2>1, NamerOf
<1>2. /\ idx.high \in Nat /\ Chain(idx, "D", idx.del, dl) /\ Chain(idx, "F", idx.rec, fl)
      /\ W \cup Ran(dl) \cup Ran(fl) = 1 .. idx.high
      /\ \A d \in W : idx.blk[d].type \in {"U", "V"}
  BY PlanFacts
<1>3. CASE c \in W /\ KidAt(W, KeysIn(idx, W), KidsIn(idx, W), idx.root, b, i, c)
  <2>1. CASE b = 0 /\ i = 1
    BY ONLY <1>2, <1>3, <2>1 DEF TypeBy
  <2>2. CASE ~ (b = 0 /\ i = 1)
    <3>1. b \in W
      BY ONLY <1>3, <2>2 DEF KidAt
    <3>2. b # 0 /\ idx.blk[b].type \in {"U", "V"}
      BY ONLY <1>2, <3>1
    <3>3. idx.blk[b].type # "V"
      <4>1. ASSUME idx.blk[b].type = "V" PROVE FALSE
        <5>1. Named(b) = <<>>
          BY ONLY <3>2, <4>1 DEF Named
        <5> QED BY <5>1
      <4> QED BY ONLY <4>1
    <3> QED BY ONLY <1>2, <1>3, <3>2, <3>3 DEF TypeBy
  <2> QED BY ONLY <2>1, <2>2
<1>4. CASE c \in Ran(dl) /\ LinkOf(dl, 2, b, i, c)
  <2> DEFINE type == "D"
             n == 2
             first == idx.del
  <2>1. /\ type \in {"D", "F"} /\ Chain(idx, type, first, dl) /\ c \in Ran(dl) /\ LinkOf(dl, n, b, i, c)
        /\ \A x \in Ran(dl) : x # 0
    BY ONLY <1>2, <1>4
  <2> HIDE DEF type, n, first
  <2>2. Typed(b, i, c, n, type)
    BY ONLY <2>1, LinkType
  <2> QED BY ONLY <2>2 DEF type, n, TypeBy, Typed
<1>5. CASE c \in Ran(fl) /\ LinkOf(fl, 3, b, i, c)
  <2> DEFINE type == "F"
             n == 3
             first == idx.rec
  <2>1. /\ type \in {"D", "F"} /\ Chain(idx, type, first, fl) /\ c \in Ran(fl) /\ LinkOf(fl, n, b, i, c)
        /\ \A x \in Ran(fl) : x # 0
    BY ONLY <1>2, <1>5
  <2> HIDE DEF type, n, first
  <2>2. Typed(b, i, c, n, type)
    BY ONLY <2>1, LinkType
  <2> QED BY ONLY <2>2 DEF type, n, TypeBy, Typed
<1> QED BY ONLY <1>1, <1>3, <1>4, <1>5 DEF Namer

\* In a sound index every block has one place.
LEMMA SoundPlaces == IndexInv => BlocksHaveOnePlace
<1> SUFFICES ASSUME NEW f \in Files, InUse(f) PROVE BlocksHaveOnePlace
  BY DEF IndexInv
<1> DEFINE h == f.header
<1>1. Header(h) /\ SoundFor(h, idx)
  BY FileFacts DEF InUse
<1> HIDE DEF h
<1>2. PICK W, dl, fl, lev, lo, hi : Plan(h, W, dl, fl, lev, lo, hi)
  BY ONLY <1>1, PlanOf
<1>3. \A b \in 1 .. idx.high : Cardinality(PlacesOf(b)) = 1
  BY ONLY <1>1, <1>2, OnePlaceOf
<1>4. \A b \in 1 .. idx.high : Last(Back(b)) = 0
  BY ONLY <1>1, <1>2, BackEnds
<1>5. \A b \in 0 .. idx.high : \A i \in DOMAIN Named(b) : LET c == Named(b)[i] IN
        c # 0 => idx.blk[c].type \in TypeBy(b, i)
  BY ONLY <1>1, <1>2, NamedTypes
<1> QED BY ONLY <1>3, <1>4, <1>5 DEF BlocksHaveOnePlace, TypeBy

\* Every block of the index file is named once, by the header, a branch or a
\* chain, leads back to the header, and is of the type that what names it
\* expects: splits, joins and lists of free blocks and record places leak none
\* and share none, for keys, blocks and trees of any size.
THEOREM OnePlaceForBlocks == Spec => []BlocksHaveOnePlace
BY IndexStaysSound, SoundPlaces, PTL

-----------------------------------------------------------------------------
(***************************************************************************)
(* Index: the way back climbs the tree.                                    *)
(***************************************************************************)
\* What is true of the blocks on the way up from c.
Over(W, lev, lo, hi, c, x, j) ==
  /\ x \in W /\ lev[x] = lev[c] + j
  /\ Leq(lo[x], lo[c]) /\ Leq(hi[c], hi[x])

\* One step up the tree from a block keeps its bounds inside of those above.
LEMMA StepUp ==
  ASSUME NEW h, Header(h), NEW W, NEW dl, NEW fl, NEW lev, NEW lo, NEW hi, Plan(h, W, dl, fl, lev, lo, hi),
         NEW c, c \in W, NEW x, NEW j, j \in Nat, Over(W, lev, lo, hi, c, x, j)
  PROVE  \/ Upward[x] = 0 /\ x = idx.root
         \/ Upward[x] # 0 /\ Over(W, lev, lo, hi, c, Upward[x], j + 1)
<1> DEFINE K == FileKeys(h)
           low == LowEnd(h)
           high == HighEnd(h)
           root == idx.root
           ks == KeysIn(idx, W)
           ds == KidsIn(idx, W)
           E == {}
           d == Upward[x]
<1>1. x \in W /\ x \in 1 .. idx.high /\ 0 \notin W
  BY PlanFacts DEF Over
<1>2. PICK i : Namer(W, dl, fl, d, i, x)
  BY <1>1, UpwardIs
<1>3. \/ d = 0 /\ x = root
      \/ d \in W /\ i \in DOMAIN Named(d) /\ Named(d)[i] = x /\ lev[x] + 1 = lev[d]
  BY <1>1, <1>2, TreeDepth
<1>4. Shape(K, low, high, W, root, ks, ds, lev, lo, hi, 0, 0, E) /\ \A p \in W : Named(p) = ds[p]
  BY <1>1, PlanShape DEF Shaped
<1>5. Ordered(K)
  BY EndsAre
<1>6. lev[c] \in Nat /\ lev[x] = lev[c] + j /\ Leq(lo[x], lo[c]) /\ Leq(hi[c], hi[x])
  <2>1. lev[c] \in Nat
    BY TreeDepth
  <2> QED BY <2>1 DEF Over
<1> HIDE DEF K, low, high, root, ks, ds, E, d
<1>7. CASE d = 0 /\ x = root
  BY ONLY <1>7 DEF d, root
<1>8. CASE d \in W /\ i \in DOMAIN Named(d) /\ Named(d)[i] = x /\ lev[x] + 1 = lev[d]
  <2>1. d \in W /\ i \in DOMAIN ds[d] /\ ds[d][i] = x
    BY ONLY <1>4, <1>8
  <2>2. ds[d] \in Seq(W) /\ Len(ds[d]) \in Nat /\ (ds[d] # <<>> => Len(ds[d]) = Len(ks[d]) + 1)
    BY ONLY <1>4, <1>5, <2>1, BlockFacts
  <2>3. i \in 1 .. Len(ds[d]) /\ ds[d] # <<>>
    BY <2>1, <2>2
  <2>4. i \in 1 .. Len(ks[d]) + 1
    BY ONLY <2>2, <2>3
  <2>5. /\ lo[ds[d][i]] = LowerAt(ks[d], lo[d], i)
        /\ EndOf(hi, 0, 0, ds[d][i]) = UpperAt(ks[d], hi[d], i)
        /\ Leq(lo[d], LowerAt(ks[d], lo[d], i)) /\ Leq(UpperAt(ks[d], hi[d], i), hi[d])
    BY ONLY <1>4, <1>5, <2>1, <2>3, <2>4, PlaceFacts
  <2>6. EndOf(hi, 0, 0, x) = hi[x]
    BY ONLY <1>1 DEF EndOf
  <2>7. Leq(lo[d], lo[x]) /\ Leq(hi[x], hi[d])
    BY ONLY <2>1, <2>5, <2>6
  <2>8. /\ lo[d] \in K /\ lo[x] \in K /\ lo[c] \in K /\ hi[d] \in K /\ hi[x] \in K /\ hi[c] \in K
    BY ONLY <1>1, <1>4, <1>5, <2>1, c \in W, BlockFacts
  <2>9. Leq(lo[d], lo[c]) /\ Leq(hi[c], hi[d])
    BY ONLY <1>5, <1>6, <2>7, <2>8 DEF Leq, Ordered
  <2>10. lev[d] = lev[c] + (j + 1)
    BY ONLY <1>6, <1>8, j \in Nat
  <2>11. Over(W, lev, lo, hi, c, d, j + 1)
    BY ONLY <2>1, <2>9, <2>10 DEF Over
  <2> QED BY ONLY <1>1, <2>1, <2>11 DEF d
<1> QED BY ONLY <1>3, <1>7, <1>8

\* The way back from the block c of the tree.
ClimbsTo(W, lev, lo, hi, c, w) ==
  /\ Len(w) = lev[idx.root] - lev[c] + 2
  /\ \A x \in ToSet(w) : x = 0 \/ (x \in W /\ Leq(lo[x], lo[c]) /\ Leq(hi[c], hi[x]))

\* The way back from a block of the tree climbs to the root.
LEMMA BackFrom ==
  ASSUME NEW h, Header(h), NEW W, NEW dl, NEW fl, NEW lev, NEW lo, NEW hi, Plan(h, W, dl, fl, lev, lo, hi),
         NEW c, c \in W
  PROVE  ClimbsTo(W, lev, lo, hi, c, Back(c))
<1> DEFINE w == Back(c)
           N == Len(w)
           D == 0 .. idx.high
           next == Upward
           root == idx.root
           Ov(x, j) == Over(W, lev, lo, hi, c, x, j)
<1>1. c \in 1 .. idx.high /\ 0 \notin W
  BY PlanFacts
<1>2. TrailEnds(next, D, c, w) /\ Last(w) = 0
  BY <1>1, BackEnds
<1>3. next[0] = 0
  BY UpwardIs
<1>4. \A x : \A j \in Nat : Ov(x, j) => (next[x] = 0 /\ x = root) \/ (next[x] # 0 /\ Ov(next[x], j + 1))
  BY StepUp
<1>5. lev[c] \in Nat
  BY TreeDepth
<1>6. Ov(c, 0)
  BY <1>5 DEF Over, Leq
<1>7. \A x, j : Ov(x, j) => x \in W /\ lev[x] = lev[c] + j /\ Leq(lo[x], lo[c]) /\ Leq(hi[c], hi[x])
  BY DEF Over
<1> HIDE DEF next, D, w, Ov
<1>8. /\ w \in Seq(D) /\ N \in Nat /\ N >= 1 /\ w[1] = c /\ w[N] = 0
      /\ \A i \in 1 .. N - 1 : w[i + 1] = next[w[i]] /\ next[w[i]] # w[i]
  BY ONLY <1>2 DEF TrailEnds, IsTrail
<1> HIDE DEF N
<1> DEFINE M == N - 2
<1>9. N # 1 /\ M \in Nat /\ M + 2 = N
  BY ONLY <1>1, <1>8, c \in W
<1> DEFINE T == {n \in 0 .. M : Ov(w[n + 1], n)}
<1>10. 0 .. M \subseteq T
  <2>1. 0 \in T
    <3>1. 0 \in 0 .. M /\ 0 + 1 = 1
      BY ONLY <1>9
    <3> QED BY ONLY <1>6, <1>8, <3>1
  <2>2. ASSUME NEW n \in 0 .. M - 1, n \in T PROVE n + 1 \in T
    <3> DEFINE i == n + 1
    <3>1. i \in 1 .. N - 1 /\ i + 1 \in 1 .. N - 1 /\ n \in Nat /\ i \in 0 .. M
      BY ONLY <1>8, <1>9, n \in 0 .. M - 1
    <3>2. Ov(w[i], n)
      BY <2>2
    <3> HIDE DEF i, T, M
    <3>3. w[i + 1] = next[w[i]] /\ next[w[i + 1]] # w[i + 1]
      BY ONLY <1>8, <3>1
    <3>4. w[i + 1] # 0
      BY ONLY <1>3, <3>3
    <3>5. Ov(w[i + 1], n + 1)
      BY ONLY <1>4, <3>1, <3>2, <3>3, <3>4
    <3> QED BY ONLY <3>1, <3>5 DEF i, T
  <2> HIDE DEF T, M
  <2> QED BY ONLY <1>9, <2>1, <2>2, NumbersUpTo
<1>11. \A n \in 0 .. M : Ov(w[n + 1], n)
  BY ONLY <1>10
<1>12. N = lev[root] - lev[c] + 2
  <2>1. M \in 0 .. M /\ M + 1 \in 1 .. N - 1 /\ M + 1 + 1 = N
    BY ONLY <1>8, <1>9
  <2>2. Ov(w[M + 1], M)
    BY ONLY <1>11, <2>1
  <2> HIDE DEF M
  <2>3. next[w[M + 1]] = 0
    BY ONLY <1>8, <2>1
  <2>4. w[M + 1] = root
    BY ONLY <1>4, <1>9, <2>2, <2>3
  <2>5. lev[root] = lev[c] + M
    BY ONLY <1>7, <2>2, <2>4
  <2> QED BY ONLY <1>5, <1>9, <2>5
<1>13. ASSUME NEW x, x \in ToSet(w), x # 0
       PROVE  x \in W /\ Leq(lo[x], lo[c]) /\ Leq(hi[c], hi[x])
  <2>1. PICK i \in 1 .. N : x = w[i]
    <3>1. ToSet(w) = {w[i] : i \in 1 .. N}
      BY ONLY <1>8 DEF ToSet, N
    <3> QED BY ONLY <1>13, <3>1
  <2> DEFINE n == i - 1
  <2>2. i # N
    BY ONLY <1>8, <1>13, <2>1
  <2>3. n \in 0 .. M /\ n + 1 = i
    BY ONLY <1>8, <1>9, <2>1, <2>2
  <2> HIDE DEF n, M
  <2>4. Ov(x, n)
    BY ONLY <1>11, <2>1, <2>3
  <2> QED BY ONLY <1>7, <2>4
<1> QED BY ONLY <1>12, <1>13 DEF ClimbsTo, N, root, w

-----------------------------------------------------------------------------
(***************************************************************************)
(* Index: TreeIsBalanced.                                                  *)
(***************************************************************************)
KeysBelow(b) == UNION {ToSet(idx.blk[c].keys) : c \in Under(b)}

\* What TreeIsBalanced says of one block.
IsNode(b) ==
  LET node == idx.blk[b]
  IN /\ node.keys # <<>> /\ NodeSize(idx, node) <= idx.blksize
     /\ \A i, j \in DOMAIN node.keys : i < j => Less(node.keys[i], node.keys[j])
IsParent(b) ==
  LET node == idx.blk[b]
  IN node.type = "U" =>
       \A i \in DOMAIN node.kids : \A k \in KeysBelow(node.kids[i]) :
         /\ i > 1 => Less(node.keys[i - 1], k)
         /\ i < Len(node.kids) => Less(k, node.keys[i])

\* The blocks whose way back is through the root are those of the plan.
LEMMA TreeIs ==
  ASSUME NEW h, NEW W, NEW dl, NEW fl, NEW lev, NEW lo, NEW hi, Plan(h, W, dl, fl, lev, lo, hi)
  PROVE  Tree = W
<1>1. /\ Chain(idx, "D", idx.del, dl) /\ Chain(idx, "F", idx.rec, fl)
      /\ W \cup Ran(dl) \cup Ran(fl) = 1 .. idx.high
      /\ \A b \in W : idx.blk[b].type \in {"U", "V"}
  BY PlanFacts
<1>2. \A b \in Ran(dl) : idx.blk[b].type = "D"
  BY ONLY <1>1 DEF Ran, Chain
<1>3. \A b \in Ran(fl) : idx.blk[b].type = "F"
  BY ONLY <1>1 DEF Ran, Chain
<1> QED BY ONLY <1>1, <1>2, <1>3 DEF Tree

\* Every block of the tree has its keys in order and fits.
LEMMA NodesAre ==
  ASSUME NEW h, Header(h), NEW W, NEW dl, NEW fl, NEW lev, NEW lo, NEW hi, Plan(h, W, dl, fl, lev, lo, hi),
         NEW b, b \in W
  PROVE  IsNode(b)
<1> DEFINE K == FileKeys(h)
           low == LowEnd(h)
           high == HighEnd(h)
           root == idx.root
           ks == KeysIn(idx, W)
           ds == KidsIn(idx, W)
           node == idx.blk[b]
           E == {}
<1>1. Shape(K, low, high, W, root, ks, ds, lev, lo, hi, 0, 0, E)
  BY PlanShape DEF Shaped
<1>2. Ordered(K)
  BY EndsAre
<1>3. ks[b] = node.keys
  BY ViewIs
<1>4. idx \in Indexes(h, K) /\ TreeNode(h, K, node)
  BY DEF Plan
<1>5. ks[b] # <<>> /\ Sorted(ks[b])
  <2>1. ks[b] = <<>> => b \in E
    <3> HIDE DEF E, ks, ds, K, low, high, root
    <3> QED BY ONLY <1>1, b \in W DEF Shape
  <2> HIDE DEF ks, ds, K, low, high, root
  <2>2. Sorted(ks[b])
    BY ONLY <1>1, b \in W DEF Shape, ShapeOfBlock
  <2> QED BY <2>1, <2>2
<1>6. NodeSize(idx, node) <= idx.blksize
  <2>1. NodeSize(h, node) <= h.blksize
    BY ONLY <1>4 DEF TreeNode, Room
  <2>2. idx.blksize = h.blksize /\ idx.version = h.version /\ idx.parts = h.parts
    BY ONLY <1>4 DEF Indexes
  <2> HIDE DEF node
  <2>3. NodeSize(idx, node) = NodeSize(h, node)
    BY ONLY <2>2 DEF NodeSize, VSize, USize, EntrySize, KeySize, PosSize, Repeats, Terminator, Compressed
  <2> QED BY ONLY <2>1, <2>2, <2>3
<1>7. ks[b] \in Seq(K)
  <2> HIDE DEF ks, ds, K, low, high, root, E
  <2> QED BY ONLY <1>1, <1>2, b \in W, BlockFacts
<1>8. \A i, j \in DOMAIN node.keys : i < j => Less(node.keys[i], node.keys[j])
  <2>1. DOMAIN node.keys = 1 .. Len(node.keys)
    BY ONLY <1>3, <1>7
  <2> HIDE DEF ks, node
  <2> QED BY ONLY <1>3, <1>5, <2>1 DEF Sorted
<1> QED BY ONLY <1>3, <1>5, <1>6, <1>8 DEF IsNode

\* The keys below each kid are between those beside it.
LEMMA ParentsAre ==
  ASSUME NEW h, Header(h), NEW W, NEW dl, NEW fl, NEW lev, NEW lo, NEW hi, Plan(h, W, dl, fl, lev, lo, hi),
         NEW b, b \in W
  PROVE  IsParent(b)
<1> DEFINE K == FileKeys(h)
           low == LowEnd(h)
           high == HighEnd(h)
           root == idx.root
           ks == KeysIn(idx, W)
           ds == KidsIn(idx, W)
           node == idx.blk[b]
           E == {}
<1>1. Shape(K, low, high, W, root, ks, ds, lev, lo, hi, 0, 0, E)
  BY PlanShape DEF Shaped
<1>2. Ordered(K)
  BY EndsAre
<1>3. /\ ks[b] = node.keys /\ ds[b] = KidsOf(node) /\ 0 \notin W /\ Tree = W
      /\ \A c \in W : ks[c] = idx.blk[c].keys
  BY ViewIs, PlanFacts, TreeIs
<1>4. \A c \in W : ClimbsTo(W, lev, lo, hi, c, Back(c))
  BY BackFrom
<1>5. SUFFICES ASSUME node.type = "U", NEW i \in DOMAIN node.kids, NEW k \in KeysBelow(node.kids[i])
               PROVE  /\ i > 1 => Less(node.keys[i - 1], k)
                      /\ i < Len(node.kids) => Less(k, node.keys[i])
  BY DEF IsParent
<1> DEFINE x == node.kids[i]
<1>6. PICK c \in Under(x) : k \in ToSet(idx.blk[c].keys)
  BY <1>5 DEF KeysBelow
<1>7. c \in W /\ x \in ToSet(Back(c)) /\ k \in ToSet(ks[c])
  BY <1>3, <1>6 DEF Under
<1>8. ds[b] = node.kids /\ i \in DOMAIN ds[b] /\ ds[b][i] = x /\ ks[b] = node.keys
  BY <1>3, <1>5 DEF KidsOf
<1>9. k \in KeysBelow(x)
  BY <1>5
<1> HIDE DEF K, low, high, root, ks, ds, E, x, node
<1>10. /\ ds[b] \in Seq(W) /\ Len(ds[b]) \in Nat /\ ks[b] \in Seq(K) /\ Len(ks[b]) \in Nat
       /\ ds[b] # <<>> => Len(ds[b]) = Len(ks[b]) + 1
  BY ONLY <1>1, <1>2, b \in W, BlockFacts
<1>11. i \in 1 .. Len(ds[b]) /\ ds[b] # <<>>
  BY <1>8, <1>10
<1>12. i \in 1 .. Len(ks[b]) + 1
  BY ONLY <1>10, <1>11
<1>13. /\ ds[b][i] \in W /\ lo[ds[b][i]] = LowerAt(ks[b], lo[b], i)
       /\ EndOf(hi, 0, 0, ds[b][i]) = UpperAt(ks[b], hi[b], i)
  BY ONLY <1>1, <1>2, <1>11, <1>12, b \in W, PlaceFacts
<1>14. x \in W /\ x # 0
  BY ONLY <1>3, <1>8, <1>13
<1>15. lo[x] = LowerAt(ks[b], lo[b], i) /\ hi[x] = UpperAt(ks[b], hi[b], i)
  BY ONLY <1>8, <1>13, <1>14 DEF EndOf
<1>16. Leq(lo[x], lo[c]) /\ Leq(hi[c], hi[x])
  BY ONLY <1>4, <1>7, <1>14 DEF ClimbsTo
<1>17. /\ lo[c] \in K /\ hi[c] \in K /\ ks[c] \in Seq(K)
       /\ \A j \in 1 .. Len(ks[c]) : ks[c][j] \in K /\ Less(lo[c], ks[c][j]) /\ Less(ks[c][j], hi[c])
  BY ONLY <1>1, <1>2, <1>7, BlockFacts
<1>18. k \in K /\ Less(lo[c], k) /\ Less(k, hi[c])
  <2>1. ToSet(ks[c]) = {ks[c][j] : j \in 1 .. Len(ks[c])}
    BY ONLY <1>17 DEF ToSet
  <2> QED BY ONLY <1>7, <1>17, <2>1
<1>19. lo[x] \in K /\ hi[x] \in K
  BY ONLY <1>1, <1>2, <1>14, BlockFacts
<1>20. Less(lo[x], k) /\ Less(k, hi[x])
  BY ONLY <1>2, <1>16, <1>17, <1>18, <1>19 DEF Leq, Ordered
<1>21. i > 1 => Less(ks[b][i - 1], k)
  <2>1. i > 1 => i # 1
    BY ONLY <1>12
  <2> QED BY ONLY <1>15, <1>20, <2>1 DEF LowerAt
<1>22. i < Len(ds[b]) => Less(k, ks[b][i])
  <2>1. i < Len(ds[b]) => i # Len(ks[b]) + 1
    BY ONLY <1>10, <1>11, <1>12
  <2> QED BY ONLY <1>15, <1>20, <2>1 DEF UpperAt
<1> QED BY ONLY <1>8, <1>21, <1>22

\* All leaves are as far from the root.
LEMMA LeavesLevel ==
  ASSUME NEW h, Header(h), NEW W, NEW dl, NEW fl, NEW lev, NEW lo, NEW hi, Plan(h, W, dl, fl, lev, lo, hi),
         NEW b, b \in W, idx.blk[b].type = "V"
  PROVE  Len(Back(b)) = lev[idx.root] - 0 + 2
<1> DEFINE K == FileKeys(h)
           low == LowEnd(h)
           high == HighEnd(h)
           root == idx.root
           ks == KeysIn(idx, W)
           ds == KidsIn(idx, W)
           E == {}
<1>1. Shape(K, low, high, W, root, ks, ds, lev, lo, hi, 0, 0, E)
  BY PlanShape DEF Shaped
<1>2. Ordered(K)
  BY EndsAre
<1>3. ds[b] = <<>>
  BY ViewIs DEF KidsOf
<1> HIDE DEF K, low, high, root, ks, ds, E
<1>4. lev[b] = 0
  BY ONLY <1>1, <1>2, <1>3, b \in W, BlockFacts
<1>5. ClimbsTo(W, lev, lo, hi, b, Back(b))
  BY BackFrom
<1> QED BY ONLY <1>4, <1>5 DEF ClimbsTo

\* In a sound index the tree is balanced.
LEMMA SoundTree == IndexInv => TreeIsBalanced
<1> SUFFICES ASSUME NEW f \in Files, InUse(f) PROVE TreeIsBalanced
  BY DEF IndexInv
<1> DEFINE h == f.header
<1>1. Header(h) /\ SoundFor(h, idx)
  BY FileFacts DEF InUse
<1> HIDE DEF h
<1>2. PICK W, dl, fl, lev, lo, hi : Plan(h, W, dl, fl, lev, lo, hi)
  BY ONLY <1>1, PlanOf
<1>3. Tree = W
  BY ONLY <1>1, <1>2, TreeIs
<1>4. \A b \in Tree : IsNode(b) /\ IsParent(b)
  BY ONLY <1>1, <1>2, <1>3, NodesAre, ParentsAre
<1>5. \A b \in Tree : idx.blk[b].type = "V" => Len(Back(b)) = lev[idx.root] - 0 + 2
  BY ONLY <1>1, <1>2, <1>3, LeavesLevel
<1>6. \A b, c \in Tree : idx.blk[b].type = "V" /\ idx.blk[c].type = "V" => Len(Back(b)) = Len(Back(c))
  BY ONLY <1>5
<1> QED BY ONLY <1>4, <1>6 DEF TreeIsBalanced, IsNode, IsParent, KeysBelow

\* The tree is balanced, ordered and fits in its blocks in every reachable
\* state: for keys of any parts, blocks and trees of any size, both formats,
\* and every order of inserts and deletes of this program and of others.
THEOREM BalancedTree == Spec => []TreeIsBalanced
BY IndexStaysSound, SoundTree, PTL

=============================================================================
