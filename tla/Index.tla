------------------------------- MODULE Index -------------------------------
(***************************************************************************)
(* An index file of xio.c in use: the calls of one program, whose position *)
(* among the keys is followed, and those of others that share the file.    *)
(* Every call runs under the lock of the data file, so calls do not        *)
(* overlap; but a position is kept from one call to the next.              *)
(***************************************************************************)
EXTENDS IndexTree

CONSTANT Files
\* Index files, each with its header, the keys it has at first (load), the
\* keys and record places that are used (keys, places), and a bound for the
\* number of changes (changes, Unbounded if there is none).

ASSUME IndexAssumption ==
  \A f \in Files :
    LET h == f.header
        Byte == 0 .. MaxByte
    IN /\ h \in [version : Nat, blksize : Nat, parts : Seq(Nat \ {0}), dup : BOOLEAN,
                 fix : BOOLEAN]
       /\ \A bytes \in f.keys : bytes \in [1 .. Len(h.parts) -> Byte]
       /\ f.places \subseteq 1 .. MaxPlace - 1
       /\ f.load \in Seq(UNION {{Append(bytes, place) : place \in f.places} : bytes \in f.keys})
       /\ USize(h, <<1, 2>>) <= h.blksize  \* a block has room for two keys
       /\ f.changes \in Int

Unbounded == -1

\* An index file without keys.
Empty(header) ==
  [version |-> header.version, blksize |-> header.blksize, parts |-> header.parts,
   dup |-> header.dup, fix |-> header.fix,
   root |-> 0, del |-> 0, rec |-> 0, high |-> 0, blk |-> <<>>]

VARIABLES
  idx,  \* the file
  use,  \* keys and places that its users have, and the changes that are left
  cur   \* x->keyflg, x->curkey and x->curblk of the program; the block is
        \* used on a key only (0 if not)

ivars == <<idx, use, cur>>

KeyLength == Len(idx.parts)

\* f is what an exact search in t gave.
\* Mutant of IsDuplicate: a key that is there with another record is let in.
IsDuplicateRecord(t, f) == f.flg = 1
IsDuplicate(t, f) == f.flg = 1 \/ (~t.dup /\ f.dup)

\* An index file in which the keys of load were inserted one after the other.
InsertNew(t, k) ==
  LET f == Find(t, k, TRUE)
  IN IF IsDuplicate(t, f) THEN t ELSE InsertKey(t, f, k)

Loaded(header, load) ==
  LET File[n \in 0 .. Len(load)] ==
        IF n = 0 THEN Empty(header) ELSE InsertNew(File[n - 1], load[n])
  IN File[Len(load)]

Init ==
  /\ \E f \in Files :
       /\ idx = Loaded(f.header, f.load)
       /\ use = [keys |-> f.keys, places |-> f.places, left |-> f.changes]
  /\ cur = [flg |-> 2, key |-> [i \in 1 .. KeyLength + 1 |-> 0], blk |-> 0]

FreePlaces ==
  UNION {ToSet(idx.blk[b].places) : b \in {c \in 1 .. idx.high : idx.blk[c].type = "F"}}

KeyAt(s) == idx.blk[s.blk].keys[s.off]
OnKey(s) == [flg |-> 1, key |-> KeyAt(s), blk |-> s.blk]
Is(flg) == [cur EXCEPT !.flg = flg, !.blk = 0]
NotFound(key) == [flg |-> 3, key |-> key, blk |-> 0]

\* An exact search ends on a spot; spot 1 of no block in an empty index.
Exactly(k) == Find(idx, k, TRUE)
FirstOf(bytes) == Find(idx, Append(bytes, 0), FALSE)

(***************************************************************************)
(* Reads: the position after each.                                         *)
(***************************************************************************)
XioFind(bytes) ==
  LET f == FirstOf(bytes)
  IN IF f.flg = 1 THEN OnKey(f.spot) ELSE NotFound(Filled(bytes, KeyLength, 0))

\* The bytes right above those that begin with part, or only MaxByte.
Above(part) ==
  LET i == Max({0} \cup {j \in DOMAIN part : part[j] # MaxByte})
  IN [j \in 1 .. KeyLength |-> IF i = 0 THEN MaxByte ELSE IF j < i THEN part[j]
                               ELSE IF j = i THEN part[i] + 1 ELSE 0]

XioFindLast(part) ==
  LET f == FirstOf(Above(part))
      p == PrevSpot(idx, f.spot, f.path)
      back == ~(f.flg = 1 /\ \A i \in DOMAIN part : part[i] = MaxByte)
      s == IF back THEN p.spot ELSE f.spot
      flg == IF f.flg # 2 /\ back THEN p.flg ELSE f.flg
  IN IF flg = 1 /\ IsPrefix(part, KeyAt(s)) THEN OnKey(s)
     ELSE NotFound(Filled(part, KeyLength, MaxByte))

\* The block of the last hit still has the key, and one behind it.
Shortcut ==
  /\ cur.flg = 1 /\ cur.blk # 0
  /\ idx.blk[cur.blk].type \in {"U", "V"}
  /\ Contains(idx.blk[cur.blk].keys, cur.key)
  /\ idx.blk[cur.blk].type = "U" \/ Last(idx.blk[cur.blk].keys) # cur.key
NextInBlock ==
  LET node == idx.blk[cur.blk]
      i == CHOOSE j \in DOMAIN node.keys : node.keys[j] = cur.key
  IN IF node.type = "V"
     THEN [cur EXCEPT !.key = node.keys[i + 1]]
     ELSE [flg |-> 1, blk |-> node.kids[i + 1],
           key |-> Head(idx.blk[Leftmost(idx, node.kids[i + 1])].keys)]

\* Mutant of NextByKey: one key too far from a key that was deleted.
NextByKeySkips ==
  LET f == Exactly(cur.key)
      n == NextSpot(idx, f.spot, f.path)
  IN IF f.flg \in {1, 3}
     THEN IF n.flg = 1 THEN OnKey(n.spot) ELSE Is(4)
     ELSE IF f.flg = 2 /\ f.spot.blk # 0 THEN OnKey(f.spot) ELSE Is(f.flg)
NextByKey ==
  LET f == Exactly(cur.key)
      n == NextSpot(idx, f.spot, f.path)
  IN IF f.flg = 1
     THEN IF n.flg = 1 THEN OnKey(n.spot) ELSE Is(4)
     ELSE IF f.flg = 3 \/ (f.flg = 2 /\ f.spot.blk # 0) THEN OnKey(f.spot)
     ELSE Is(f.flg)

XioNext ==
  IF cur.flg \in {1, 3} THEN IF Shortcut THEN NextInBlock ELSE NextByKey
  ELSE IF cur.flg = 4 THEN cur
  ELSE IF idx.root = 0 THEN Is(4)
  ELSE OnKey(Spot(Leftmost(idx, idx.root), 1))

PrevByKey ==
  LET f == Exactly(cur.key)
      p == PrevSpot(idx, f.spot, f.path)
  IN IF f.flg # 2 /\ p.flg = 1 THEN OnKey(p.spot) ELSE Is(2)

XioPrev ==
  LET b == Rightmost(idx, idx.root)
  IN IF cur.flg \in {1, 3} THEN PrevByKey
     ELSE IF cur.flg = 2 THEN cur
     ELSE IF idx.root = 0 THEN Is(2)
     ELSE OnKey(Spot(b, Len(idx.blk[b].keys)))

Read ==
  /\ \/ cur' = XioNext
     \/ cur' = XioPrev
     \/ \E bytes \in use.keys :
          \/ cur' = XioFind(bytes)
          \/ \E n \in DOMAIN bytes : cur' = XioFindLast(SubSeq(bytes, 1, n))
  /\ UNCHANGED <<idx, use>>

(***************************************************************************)
(* Writes.  Those of others leave the position of the program alone.      *)
(***************************************************************************)
Changes ==
  /\ use.left # 0
  /\ use' = [use EXCEPT !.left = IF @ = Unbounded THEN @ ELSE @ - 1]

XioInsert(k) ==
  LET f == Exactly(k)
      g == Find(idx', k, TRUE)
  IN IF IsDuplicate(idx, f)
     THEN /\ UNCHANGED <<idx, use>>
          /\ cur' = [cur EXCEPT !.flg = f.flg, !.blk = IF f.flg = 1 THEN f.spot.blk ELSE 0]
     ELSE /\ Changes /\ idx' = InsertKey(idx, f, k)
          /\ cur' = [flg |-> 1, key |-> k, blk |-> g.spot.blk]

OtherInsert(k) ==
  LET f == Exactly(k)
  IN ~IsDuplicate(idx, f) /\ Changes /\ idx' = InsertKey(idx, f, k) /\ UNCHANGED cur

\* After the delete of the key that f found, by the way it was looked for.
XioDelete(f, wanted) ==
  IF f.flg # 1 THEN cur' = NotFound(wanted) /\ UNCHANGED <<idx, use>>
  ELSE /\ Changes /\ idx' = DeleteKey(idx, f)
       /\ cur' = NotFound(KeyAt(f.spot))

XioDeleteBytes(bytes) == XioDelete(FirstOf(bytes), Filled(bytes, KeyLength, 0))
XioDeleteKey(k) == XioDelete(Exactly(k), k)
XioDeleteCurrent == cur.flg = 1 /\ XioDelete(Exactly(cur.key), cur.key)

OtherDelete(k) ==
  LET f == Exactly(k)
  IN f.flg = 1 /\ Changes /\ idx' = DeleteKey(idx, f) /\ UNCHANGED cur

XioGetRec ==
  /\ idx.fix /\ idx.rec # 0
  /\ Changes /\ idx' = GetPlace(idx)
  /\ UNCHANGED cur

\* A program gives back the place of a record that is deleted and no key has.
XioDelRec(place) ==
  /\ idx.fix /\ place \notin FreePlaces
  /\ \A bytes \in use.keys : Exactly(Append(bytes, place)).flg # 1
  /\ Changes /\ idx' = GivePlace(idx, place)
  /\ UNCHANGED cur

Next ==
  \/ Read \/ XioDeleteCurrent \/ XioGetRec
  \/ \E bytes \in use.keys : XioDeleteBytes(bytes)
  \/ \E place \in use.places :
       \/ XioDelRec(place)
       \/ /\ place \notin FreePlaces
          /\ \E bytes \in use.keys : LET k == Append(bytes, place)
               IN XioInsert(k) \/ OtherInsert(k) \/ XioDeleteKey(k) \/ OtherDelete(k)

Spec == Init /\ [][Next]_ivars

(***************************************************************************)
(* Properties.                                                             *)
(***************************************************************************)
Tree == {b \in 1 .. idx.high : idx.blk[b].type \in {"U", "V"}}
TreeKeys == UNION {ToSet(idx.blk[b].keys) : b \in Tree}

\* The blocks that the block b names, block 0 being the header.
Named(b) ==
  IF b = 0 THEN <<idx.root, idx.del, idx.rec>>
  ELSE CASE idx.blk[b].type = "U" -> idx.blk[b].kids
         [] idx.blk[b].type = "V" -> <<>>
         [] OTHER -> <<idx.blk[b].next>>
PlacesOf(b) ==
  UNION {{<<c, i>> : i \in {j \in DOMAIN Named(c) : Named(c)[j] = b}} : c \in 0 .. idx.high}

\* The way from b back to the header, or to a block that none names.
Back(b) ==
  LET Naming(c) == LET S == {d \in 0 .. idx.high : c \in ToSet(Named(d))}
                   IN IF c = 0 \/ S = {} THEN c ELSE CHOOSE d \in S : TRUE
  IN Trail([c \in 0 .. idx.high |-> Naming(c)], b, idx.high)
Under(b) == {c \in Tree : b \in ToSet(Back(c))}

\* The tree of an index: its keys are in order, its leaves on one level, and
\* no block of it is empty or too large, whatever way keys were pushed up and
\* blocks joined (xioxins, xioxinsv, xiodelete).
TreeIsBalanced ==
  LET KeysUnder(b) == UNION {ToSet(idx.blk[c].keys) : c \in Under(b)}
  IN /\ \A b \in Tree : LET node == idx.blk[b] IN
          /\ node.keys # <<>> /\ NodeSize(idx, node) <= idx.blksize
          /\ \A i, j \in DOMAIN node.keys : i < j => Less(node.keys[i], node.keys[j])
          /\ node.type = "U" =>
               \A i \in DOMAIN node.kids : \A k \in KeysUnder(node.kids[i]) :
                 /\ i > 1 => Less(node.keys[i - 1], k)
                 /\ i < Len(node.kids) => Less(k, node.keys[i])
     /\ \A b, c \in Tree : idx.blk[b].type = "V" /\ idx.blk[c].type = "V"
                           => Len(Back(b)) = Len(Back(c))

\* Every block of the file is once in the tree, in the chain of deleted blocks
\* or in the chain of blocks with record places: none is lost, none is used
\* twice (xioxnewb, xioxdelb, xiogetrec, xiodelrec).
BlocksHaveOnePlace ==
  /\ \A b \in 1 .. idx.high : Cardinality(PlacesOf(b)) = 1
  /\ \A b \in 1 .. idx.high : Last(Back(b)) = 0
  /\ \A b \in 0 .. idx.high : \A i \in DOMAIN Named(b) : LET c == Named(b)[i] IN
       c # 0 => idx.blk[c].type \in IF b # 0 /\ idx.blk[b].type # "U" THEN {idx.blk[b].type}
                                   ELSE IF b # 0 \/ i = 1 THEN {"U", "V"}
                                   ELSE IF i = 2 THEN {"D"} ELSE {"F"}

\* The file behaves like an ordered list of keys and a set of free places: an
\* insert, a delete and the record places change what they say and nothing
\* else, and the position of a program moves with its own calls only (xioinsert,
\* xiodelete, xiogetrec, xiodelrec).
KL == INSTANCE KeyList WITH
  kind <- [dup |-> idx.dup,
           keys |-> {Append(bytes, place) : bytes \in use.keys, place \in use.places}],
  keys <- TreeKeys, free <- FreePlaces,
  at <- [flg |-> cur.flg, key |-> cur.key]
IsKeyList == KL!KeyListSpec

\* Whatever was split, joined or deleted since the position was taken, and by
\* whom, the next read finds the next key, never one again or one too far, and
\* so for every other read (xionext, xioprev, xiofind, xiofindlast).
ReadsInOrder ==
  LET Position(c) == [flg |-> c.flg, key |-> c.key]
  IN /\ Position(XioNext) = KL!Next
     /\ Position(XioPrev) = KL!Previous
     /\ \A bytes \in use.keys :
          /\ Position(XioFind(bytes)) = KL!First(bytes)
          /\ \A n \in DOMAIN bytes : LET part == SubSeq(bytes, 1, n)
               IN Position(XioFindLast(part)) = KL!LastWith(part)
=============================================================================
