---------------------------- MODULE IndexTree ----------------------------
(***************************************************************************)
(* The tree of an index file (xio.c).                                      *)
(*                                                                         *)
(* A 'V' block is a leaf, a 'U' block has one more child than keys; every  *)
(* key is in one block only, also those of the U blocks.  From version 9   *)
(* on a leaf leaves out the bytes a key shares with the one before it.     *)
(*                                                                         *)
(* An index t is a record: the parts of its header that never change       *)
(* (version, blksize, dup, fix, and parts, the lengths of the parts of a   *)
(* key), those that do (root, the head of the deleted blocks del, the head *)
(* of the free record places rec, the highest block high; 0 is none), and  *)
(* blk, its blocks by number.                                              *)
(***************************************************************************)
EXTENDS IndexKeys

(***************************************************************************)
(* Sizes.                                                                  *)
(***************************************************************************)
Compressed(t) == t.version >= 9
PosSize(t) == IF Compressed(t) THEN 6 ELSE 9
Terminator(t) == IF Compressed(t) THEN 0 ELSE 1  \* DBCEOR

\* The sum of the first n of the numbers f.
Total(f, n) ==
  LET Sum[i \in 0 .. n] == IF i = 0 THEN 0 ELSE Sum[i - 1] + f[i]
  IN Sum[n]

KeySize(t) == PosSize(t) + Total(t.parts, Len(t.parts))

\* The bytes that k leaves out behind a: those of the parts that are the same.
Repeats(t, a, k) ==
  Total([i \in DOMAIN t.parts |-> IF \A j \in 1 .. i : a[j] = k[j]
                                  THEN t.parts[i] ELSE 0], Len(t.parts))

EntrySize(t, keys, i) ==
  IF i > 1 /\ Compressed(t) THEN KeySize(t) - Repeats(t, keys[i - 1], keys[i]) + 1
                            ELSE KeySize(t)
VSize(t, keys) ==
  1 + Total([i \in DOMAIN keys |-> EntrySize(t, keys, i)], Len(keys)) + Terminator(t)

USize(t, keys) ==
  1 + PosSize(t) + Len(keys) * (KeySize(t) + PosSize(t)) + Terminator(t)

FSize(t, places) == 1 + PosSize(t) * (1 + Len(places)) + Terminator(t)

Leaf(keys) == [type |-> "V", keys |-> keys]
Branch(keys, kids) == [type |-> "U", keys |-> keys, kids |-> kids]

NodeSize(t, node) ==
  IF node.type = "V" THEN VSize(t, node.keys) ELSE USize(t, node.keys)

(***************************************************************************)
(* Blocks.                                                                 *)
(***************************************************************************)
Store(blk, b, node) ==
  [c \in DOMAIN blk \cup {b} |-> IF c = b THEN node ELSE blk[c]]
Put(t, b, node) == [t EXCEPT !.blk = Store(@, b, node)]

NewBlock(t) == IF t.del # 0 THEN t.del ELSE t.high + 1

\* t with node in the block NewBlock(t).
Add(t, node) ==
  LET b == NewBlock(t)
  IN IF t.del # 0 THEN Put([t EXCEPT !.del = t.blk[b].next], b, node)
                  ELSE Put([t EXCEPT !.high = b], b, node)

Free(t, b) == Put([t EXCEPT !.del = b], b, [type |-> "D", next |-> t.del])

(***************************************************************************)
(* Where keys are.  A spot is a block and the number of a key in it, one   *)
(* more than the keys at its end.  The path to a block has a spot for each *)
(* U block above it: the key behind the child that was taken.              *)
(* flg: 1 on a key, 2 before the first, 3 between two, 4 after the last.   *)
(***************************************************************************)
Spot(b, off) == [blk |-> b, off |-> off]
AtEnd(t, s) == s.off > Len(t.blk[s.blk].keys)

Hit(keys, k, exact, i) == IF exact THEN keys[i] = k ELSE Bytes(keys[i]) = Bytes(k)

\* xioxscan: the first key that is k (in all but the place) or above it.
Scan(keys, k, exact) ==
  LET above == {i \in DOMAIN keys : Hit(keys, k, exact, i) \/ Less(k, keys[i])}
      off == IF above = {} THEN Len(keys) + 1 ELSE Min(above)
  IN [off |-> off,
      flg |-> IF above = {} THEN 4
              ELSE IF Hit(keys, k, exact, off) THEN 1
              ELSE IF off = 1 THEN 2 ELSE 3]

\* The blocks on the way from b to where next, a block for each block, stays,
\* which takes at most n steps.
Trail(next, b, n) ==
  LET Way[i \in Nat] ==
        IF i = 0 THEN <<b>>
        ELSE LET w == Way[i - 1]
                 c == next[Last(w)]
             IN IF c = Last(w) THEN w ELSE Append(w, c)
  IN Way[n]

\* The ways down from b to the first and to the last leaf below it.
LeftTrail(t, b) ==
  Trail([c \in DOMAIN t.blk |-> IF t.blk[c].type = "U" THEN t.blk[c].kids[1] ELSE c],
        b, t.high)
RightTrail(t, b) ==
  Trail([c \in DOMAIN t.blk |-> IF t.blk[c].type = "U" THEN Last(t.blk[c].kids) ELSE c],
        b, t.high)
Leftmost(t, b) == Last(LeftTrail(t, b))
Rightmost(t, b) == Last(RightTrail(t, b))

\* The lowest spot of path whose key is a successor; flg 4 if there is none.
Climb(t, path) ==
  LET up == {i \in DOMAIN path : ~AtEnd(t, path[i])}
  IN IF up = {} THEN [spot |-> path[1], flg |-> 4]
                ELSE [spot |-> path[Max(up)], flg |-> 1]

\* xioxnxt: the spot behind s.
NextSpot(t, s, path) ==
  IF t.blk[s.blk].type = "U"
  THEN [spot |-> Spot(Leftmost(t, t.blk[s.blk].kids[s.off + 1]), 1), flg |-> 1]
  ELSE IF s.off < Len(t.blk[s.blk].keys)
  THEN [spot |-> Spot(s.blk, s.off + 1), flg |-> 1]
  ELSE IF path = <<>> THEN [spot |-> s, flg |-> 4]
  ELSE Climb(t, path)

\* xioxprv: the spot before s.
PrevSpot(t, s, path) ==
  LET node == t.blk[s.blk]
      low == IF node.type = "V" THEN s
             ELSE LET b == Rightmost(t, node.kids[s.off])
                  IN Spot(b, Len(t.blk[b].keys) + 1)
      up == {i \in DOMAIN path : path[i].off > 1}
  IN IF low.off > 1 THEN [spot |-> Spot(low.blk, low.off - 1), flg |-> 1]
     ELSE IF up = {} THEN [spot |-> low, flg |-> 2]
     ELSE [spot |-> Spot(path[Max(up)].blk, path[Max(up)].off - 1), flg |-> 1]

(***************************************************************************)
(* xioxfind: where k is or belongs.  Of several keys with the bytes of k   *)
(* the first one counts, unless k has a place too (exact).  vblock is the  *)
(* leaf whose end k belongs to when spot is the key behind that leaf, dup  *)
(* says that one of the keys compared has the bytes of k.                  *)
(***************************************************************************)
Found(spot, flg, path, vblock, dup) ==
  [spot |-> spot, flg |-> flg, path |-> path, vblock |-> vblock, dup |-> dup]

Met(keys, k, off) == \E i \in 1 .. Min({off, Len(keys)}) : Bytes(keys[i]) = Bytes(k)

\* The way down: through the U blocks, until one of them has k.
FindTrail(t, k, exact) ==
  LET next(c) ==
        LET s == Scan(t.blk[c].keys, k, exact)
        IN IF s.flg = 1 /\ (exact \/ ~t.dup) THEN c ELSE t.blk[c].kids[s.off]
  IN Trail([c \in DOMAIN t.blk |-> IF t.blk[c].type = "U" THEN next(c) ELSE c],
           t.root, t.high)

\* In a leaf b, where s is what Scan gave; hit is the lowest level of the path
\* where the bytes of k are.
FindInLeaf(t, b, s, path, hit, dup) ==
  LET first == \A i \in DOMAIN path : path[i].off = 1
      last == \A i \in DOMAIN path : AtEnd(t, path[i])
  IN IF s.flg # 1 /\ hit # 0
     THEN Found(path[hit], 1, SubSeq(path, 1, hit), 0, dup)
     ELSE IF s.flg = 2 /\ ~first THEN Found(Spot(b, s.off), 3, path, 0, dup)
     ELSE IF s.flg # 4 \/ last THEN Found(Spot(b, s.off), s.flg, path, 0, dup)
     ELSE Found(NextSpot(t, Spot(b, s.off), path).spot, 3, path, b, dup)

\* On the way p down.
FindOn(t, p, k, exact) ==
  LET scan(i) == Scan(t.blk[p[i]].keys, k, exact)
      path == [i \in DOMAIN p |-> Spot(p[i], scan(i).off)]
      dup == \E i \in DOMAIN p : Met(t.blk[p[i]].keys, k, scan(i).off)
      hits == {i \in 1 .. Len(p) - 1 : scan(i).flg = 1}
  IN IF t.blk[Last(p)].type = "U" THEN Found(Last(path), 1, path, 0, dup)
     ELSE FindInLeaf(t, Last(p), scan(Len(p)), Front(path), Max(hits \cup {0}), dup)

Find(t, k, exact) ==
  IF t.root = 0 THEN Found(Spot(0, 1), 2, <<>>, 0, FALSE)
                ELSE FindOn(t, FindTrail(t, k, exact), k, exact)

(***************************************************************************)
(* xioxins: k, which t has not, at the place f that Find gave.             *)
(***************************************************************************)
\* The key u.k goes up from a block that was split, with the new block u.kid
\* to its right.  A U block that overflows keeps all but its last two keys: the
\* last goes to a new block, the one before it goes up.
NewTop(u) ==
  [u EXCEPT !.more = FALSE,
     !.t = [Add(u.t, Branch(<<u.k>>, <<u.t.root, u.kid>>)) EXCEPT !.root = NewBlock(u.t)]]

PushOne(u) ==
  LET s == Last(u.path)
      keys == InsertAt(u.t.blk[s.blk].keys, s.off, u.k)
      kids == InsertAt(u.t.blk[s.blk].kids, s.off + 1, u.kid)
      n == Len(keys)
      split == Put(u.t, s.blk, Branch(SubSeq(keys, 1, n - 2), SubSeq(kids, 1, n - 1)))
      right == Branch(<<keys[n]>>, <<kids[n], kids[n + 1]>>)
  IN IF ~u.more THEN u
     ELSE IF u.path = <<>> THEN NewTop(u)
     ELSE IF USize(u.t, keys) <= u.t.blksize
     THEN [u EXCEPT !.t = Put(u.t, s.blk, Branch(keys, kids)), !.more = FALSE]
     ELSE [t |-> Add(split, right), path |-> Front(u.path), k |-> keys[n - 1],
           kid |-> NewBlock(split), more |-> TRUE]

PushUp(t, path, k, kid) ==
  LET Up[n \in 0 .. Len(path) + 1] ==
        IF n = 0 THEN [t |-> t, path |-> path, k |-> k, kid |-> kid, more |-> TRUE]
                 ELSE PushOne(Up[n - 1])
  IN Up[Len(path) + 1].t

\* A leaf b with too many keys, the first n of which fit.
Overflow(t, b, keys, n, path) ==
  LET up == Last(path)
      parent == t.blk[up.blk]
      brother == parent.kids[up.off + 1]
      moved == SubSeq(keys, n + 2, Len(keys)) \o <<parent.keys[up.off]>>
                 \o t.blk[brother].keys
      split == Put(t, b, Leaf(SubSeq(keys, 1, n - 1)))
  IN IF path # <<>> /\ ~AtEnd(t, up) /\ VSize(t, moved) <= t.blksize
     THEN Put(Put(Put(t, b, Leaf(SubSeq(keys, 1, n))), brother, Leaf(moved)),
              up.blk, [parent EXCEPT !.keys[up.off] = keys[n + 1]])
     ELSE PushUp(Add(split, Leaf(SubSeq(keys, n + 1, Len(keys)))),
                 path, keys[n], NewBlock(split))

InsertKey(t, f, k) ==
  IF t.root = 0 THEN [Add(t, Leaf(<<k>>)) EXCEPT !.root = NewBlock(t)]
  ELSE LET b == IF f.vblock # 0 THEN f.vblock ELSE f.spot.blk
           old == t.blk[b].keys
           keys == InsertAt(old, IF f.vblock # 0 THEN Len(old) + 1 ELSE f.spot.off, k)
           fits == {n \in DOMAIN keys : VSize(t, SubSeq(keys, 1, n)) <= t.blksize}
       IN IF Max(fits) = Len(keys) THEN Put(t, b, Leaf(keys))
          ELSE Overflow(t, b, keys, Max(fits), f.path)

(***************************************************************************)
(* xiodelete: the key that f found.                                        *)
(***************************************************************************)
\* A block that may be too small, its brother and the key between them:
\* become one block (a deleted one more), or give a key to an empty one.
Joined(left, k, right) ==
  IF left.type = "V" THEN Leaf(left.keys \o <<k>> \o right.keys)
  ELSE Branch(left.keys \o <<k>> \o right.keys, left.kids \o right.kids)

CanJoin(t, left, k, right) ==
  NodeSize(t, Joined(left, k, right))
    + (IF left.type = "V" /\ Compressed(t) /\ left.keys = <<>> THEN 1 ELSE 0)
    <= t.blksize

\* The first key of right goes up, k comes down to the empty left, and back.
TakeFirst(left, k, right) ==
  IF left.type = "V"
  THEN [left |-> Leaf(<<k>>), up |-> Head(right.keys), right |-> Leaf(Tail(right.keys))]
  ELSE [left |-> Branch(<<k>>, left.kids \o <<Head(right.kids)>>),
        up |-> Head(right.keys), right |-> Branch(Tail(right.keys), Tail(right.kids))]
TakeLast(left, k, right) ==
  IF left.type = "V"
  THEN [left |-> Leaf(Front(left.keys)), up |-> Last(left.keys), right |-> Leaf(<<k>>)]
  ELSE [left |-> Branch(Front(left.keys), Front(left.kids)),
        up |-> Last(left.keys), right |-> Branch(<<k>>, <<Last(left.kids)>> \o right.kids)]

\* One level: u.more says that u.b and its brother were joined, and the loop
\* goes on with their parent.
Balance(u) ==
  LET s == Last(u.path)
      parent == u.t.blk[s.blk]
      i == IF AtEnd(u.t, s) THEN s.off - 1 ELSE s.off
      k == parent.keys[i]
      l == parent.kids[i]
      r == parent.kids[i + 1]
      left == u.t.blk[l]
      right == u.t.blk[r]
      Rotated(m) == Put(Put(Put(u.t, l, m.left), r, m.right),
                        s.blk, [parent EXCEPT !.keys[i] = m.up])
  IN IF ~u.more THEN u
     ELSE IF CanJoin(u.t, left, k, right)
     THEN [t |-> Free(Put(Put(u.t, l, Joined(left, k, right)), s.blk,
                          Branch(RemoveAt(parent.keys, i), RemoveAt(parent.kids, i + 1))), r),
           path |-> Front(u.path), b |-> s.blk, more |-> TRUE]
     ELSE [u EXCEPT !.more = FALSE,
             !.t = IF left.keys = <<>> THEN Rotated(TakeFirst(left, k, right))
                   ELSE IF right.keys = <<>> THEN Rotated(TakeLast(left, k, right))
                   ELSE @]

Balanced(t, path, b) ==
  LET Up[n \in 0 .. Len(path)] ==
        IF n = 0 THEN [t |-> t, path |-> path, b |-> b, more |-> TRUE]
                 ELSE Balance(Up[n - 1])
  IN Up[Len(path)]

\* Mutant of Collapse: the loop ends one level below the top.
CollapseOnce(u) == u.t
\* A top that lost its last key goes.
Collapse(u) ==
  IF u.more /\ u.t.blk[u.b].keys = <<>>
  THEN [Free(u.t, u.b) EXCEPT !.root = u.t.blk[u.b].kids[1]]
  ELSE u.t

\* Mutant of Trim: the last key of the index leaves its block in the tree of
\* an index that keeps free record places.
TrimLeaks(t) ==
  IF t.fix THEN [t EXCEPT !.root = 0]
  ELSE [t EXCEPT !.root = 0, !.del = 0, !.high = 0]
\* The last key of the index goes.  Without free record places all blocks go.
Trim(t) ==
  IF t.fix THEN [Free(t, t.root) EXCEPT !.root = 0]
  ELSE [t EXCEPT !.root = 0, !.del = 0, !.high = 0]

\* The path from the right child of s, a spot of a U block, to its first leaf.
FirstPath(t, b) ==
  LET p == LeftTrail(t, b)
  IN [i \in 1 .. Len(p) - 1 |-> Spot(p[i], 1)]

\* A key of a U block is replaced by the next one, the first of a leaf.
DeleteKey(t, f) ==
  LET s == f.spot
      node == t.blk[s.blk]
      child == node.kids[s.off + 1]
      b == Leftmost(t, child)
      low == t.blk[b].keys
      heir == Put(Put(t, s.blk, [node EXCEPT !.keys[s.off] = Head(low)]), b, Leaf(Tail(low)))
  IN IF node.type = "U"
     THEN Collapse(Balanced(heir, Front(f.path) \o <<Spot(s.blk, s.off + 1)>>
                                    \o FirstPath(t, child), b))
     ELSE IF f.path = <<>> /\ Len(node.keys) = 1 THEN Trim(t)
     ELSE Collapse(Balanced(Put(t, s.blk, Leaf(RemoveAt(node.keys, s.off))), f.path, s.blk))

(***************************************************************************)
(* xiogetrec and xiodelrec: places of deleted records, first the oldest    *)
(* one of the newest block.                                                *)
(***************************************************************************)
GetPlace(t) ==
  LET places == Tail(t.blk[t.rec].places)
  IN IF places # <<>> THEN Put(t, t.rec, [t.blk[t.rec] EXCEPT !.places = places])
     ELSE [Free(t, t.rec) EXCEPT !.rec = t.blk[t.rec].next]

GivePlace(t, place) ==
  LET head == t.blk[t.rec]
  IN IF t.rec # 0 /\ FSize(t, Append(head.places, place)) <= t.blksize
     THEN Put(t, t.rec, [head EXCEPT !.places = Append(@, place)])
     ELSE [Add(t, [type |-> "F", next |-> t.rec, places |-> <<place>>])
             EXCEPT !.rec = NewBlock(t)]
=============================================================================
