-------------------------- MODULE KeyedFileProofs --------------------------
(***************************************************************************)
(* Proofs about KeyedFile: for processes, keys and places without bound,   *)
(* no call leaves a lock behind, and until a step fails or a process dies  *)
(* keys and records belong together, reads answer the key they were asked  *)
(* for and no update is lost.                                              *)
(*                                                                         *)
(* The invariant says which locks a process has at each step of its call,  *)
(* whatever failed (LockRow), that places are used once and only the key   *)
(* or the record in work is without the other (FileInv), and that a record *)
(* a program has locked is as it has read it (Seen).                       *)
(***************************************************************************)
EXTENDS KeyedFile, SequenceTheorems, TLAPS

Rec == {Deleted} \cup [key : Key, version : {0, 1}]
Calling == [at : {"idle", "lock", "get", "again", "insert", "put", "delete", "give"},
            by : {"", "key", "next", "prev"}, key : 0 .. Keys, place : 0 .. MaxPlace,
            lock : BOOLEAN, tried : 0 .. MaxPlace]
\* A record that a program has locked exists.
Having == {h \in [place : 0 .. MaxPlace, rec : Rec, locked : BOOLEAN] :
             h.locked => h.place \in Place /\ h.rec # Deleted}
\* A call that is not idle is for a key, and has a place.
CallStates == {c \in Calling : c.at # "idle" => c.key \in Key /\ c.place \in Place}

KeyedTypeOK ==
  /\ keys \in [Key -> 0 .. MaxPlace]
  /\ free \in Seq(Place)
  /\ data \in Seq(Rec) /\ Len(data) <= MaxPlace
  /\ flock \in Proc \cup {NoOne}
  /\ rlock \in [Place -> Proc \cup {NoOne}]
  /\ call \in [Proc -> CallStates]
  /\ have \in [Proc -> Having]
  /\ faults \in Nat

\* The locks a process has at each step of its call, whatever failed before.
HasFile(p) == \/ call[p].at \in {"insert", "put", "delete", "give"}
              \/ call[p].at = "get" /\ ~call[p].lock
LockRow(p) ==
  /\ flock = p <=> HasFile(p)
  /\ call[p].at \in {"lock", "again"} => call[p].lock /\ \A q \in Place : rlock[q] # p
  /\ \A q, r \in Place : rlock[q] = p /\ rlock[r] = p => q = r
  /\ \A q \in Place : call[p].at = "get" /\ call[p].lock /\ call[p].place = q => rlock[q] = p

\* The record at a place.
RecordAt(q) == IF q \in DOMAIN data THEN data[q] ELSE Deleted
IsFree(q) == \E i \in DOMAIN free : free[i] = q
FreeOnce == \A i, j \in DOMAIN free : free[i] = free[j] => i = j

\* The key or the record that the process with the file lock still has to write
\* or to delete.
Writing(k, q) ==
  flock # NoOne /\ call[flock].at = "put" /\ call[flock].key = k /\ call[flock].place = q
Deleting(q) == flock # NoOne /\ call[flock].at = "delete" /\ call[flock].place = q

\* Places are used once, and keys and records belong together but for those in
\* work.
FileInv ==
  /\ FreeOnce
  /\ \A q \in Place : IsFree(q) => RecordAt(q) = Deleted /\ q <= Len(data) + 1
  /\ \A p \in Proc, q \in Place :
       flock = p /\ call[p].at \in {"insert", "put", "give"} /\ call[p].place = q =>
         ~IsFree(q) /\ RecordAt(q) = Deleted
  /\ \A p \in Proc : flock = p /\ call[p].at \in {"insert", "put", "give"} =>
       call[p].place <= Len(data) + 1
  /\ \A k \in Key, q \in Place : keys[k] = q =>
       Writing(k, q) \/ (RecordAt(q) # Deleted /\ RecordAt(q).key = k)
  /\ \A q \in Place : RecordAt(q) # Deleted => keys[RecordAt(q).key] = q \/ Deleting(q)
  /\ \A p \in Proc : flock = p /\ call[p].at \in {"put", "get"} => keys[call[p].key] = call[p].place
  /\ \A p \in Proc, q \in Place : flock = p /\ call[p].at = "delete" /\ call[p].place = q =>
       keys[call[p].key] = 0 /\ RecordAt(q) # Deleted /\ RecordAt(q).key = call[p].key

\* What a program has locked is what it has read.
Seen(p) ==
  /\ have[p].locked => call[p].at \in {"idle", "delete"}
  /\ \A q \in Place : have[p].locked /\ have[p].place = q =>
       rlock[q] = p /\ RecordAt(q) = have[p].rec
  /\ call[p].at = "delete" => have[p].locked /\ call[p].place = have[p].place

LockInv == KeyedTypeOK /\ \A p \in Proc : LockRow(p)
KeyedInv == LockInv /\ (faults = 0 => FileInv /\ \A p \in Proc : Seen(p))

-----------------------------------------------------------------------------
LEMMA Bounds == /\ Keys \in Nat /\ MaxPlace \in Nat /\ MaxFaults \in Nat
                /\ NoOne \notin Proc /\ Server \subseteq Proc
BY KeyedFileAssumption DEF NoOne

LEMMA IdleFields ==
  /\ Idle \in CallStates
  /\ Idle.at = "idle" /\ Idle.lock = FALSE
<1>1. Idle \in Calling
  BY Bounds DEF Idle, Calling
<1>2. Idle.at = "idle" /\ Idle.lock = FALSE
  BY DEF Idle
<1> QED BY <1>1, <1>2 DEF CallStates

LEMMA NothingFields == Nothing \in Having /\ Nothing.locked = FALSE
BY Bounds DEF Nothing, Having, Rec

\* What a record is: the key says whether there is one.
LEMMA Records ==
  /\ Deleted \in Rec
  /\ \A rec \in Rec : rec # Deleted => rec.key \in Key /\ Newer(rec) \in Rec
                        /\ Newer(rec) # Deleted /\ Newer(rec).key = rec.key
  /\ \A k \in Key : Record(k) \in Rec /\ Record(k) # Deleted /\ Record(k).key = k
<1>1. Deleted \in Rec
  BY DEF Rec
<1>2. ASSUME NEW k \in Key PROVE Record(k) \in Rec /\ Record(k) # Deleted /\ Record(k).key = k
  BY Bounds DEF Rec, Record, Deleted, Key
<1>3. ASSUME NEW rec \in Rec, rec # Deleted
      PROVE  rec.key \in Key /\ Newer(rec) \in Rec /\ Newer(rec) # Deleted /\ Newer(rec).key = rec.key
  <2>1. rec \in [key : Key, version : {0, 1}]
    BY <1>3 DEF Rec
  <2>2. Newer(rec).key = rec.key /\ rec.key \in Key /\ rec.key # 0
    BY <2>1, Bounds DEF Newer, Key
  <2>3. Newer(rec) \in [key : Key, version : {0, 1}]
    BY <2>1 DEF Newer
  <2>4. Newer(rec) # Deleted
    BY <2>2 DEF Deleted
  <2> QED BY <2>1, <2>2, <2>3, <2>4 DEF Rec
<1> QED BY <1>1, <1>2, <1>3

\* The call of p changes, to c.
LEMMA CallsTo ==
  ASSUME KeyedTypeOK, NEW p \in Proc, NEW c \in CallStates, Calls(p, c)
  PROVE  call' \in [Proc -> CallStates] /\ call'[p] = c /\ \A q \in Proc \ {p} : call'[q] = call[q]
BY DEF KeyedTypeOK, Calls

LEMMA ReturnsTo ==
  ASSUME KeyedTypeOK, NEW p \in Proc, Returns(p)
  PROVE  /\ call' \in [Proc -> CallStates] /\ call'[p].at = "idle"
         /\ \A q \in Proc \ {p} : call'[q] = call[q]
BY CallsTo, IdleFields DEF Returns

LEMMA GoesTo ==
  ASSUME KeyedTypeOK, NEW p \in Proc, call[p].at # "idle",
         NEW at \in {"lock", "get", "again", "insert", "put", "delete", "give"}, Goes(p, at)
  PROVE  /\ call' \in [Proc -> CallStates]
         /\ call'[p].at = at /\ call'[p].key = call[p].key /\ call'[p].place = call[p].place
         /\ call'[p].lock = call[p].lock
         /\ \A q \in Proc \ {p} : call'[q] = call[q]
<1>1. call[p] \in Calling /\ call[p].key \in Key /\ call[p].place \in Place
  BY DEF KeyedTypeOK, CallStates
<1> DEFINE c == [call[p] EXCEPT !.at = at]
<1>2. /\ c \in CallStates /\ c.at = at /\ c.key = call[p].key /\ c.place = call[p].place
      /\ c.lock = call[p].lock
  BY <1>1 DEF CallStates, Calling
<1>3. call' = [call EXCEPT ![p] = c]
  BY DEF Goes
<1> HIDE DEF c
<1> QED BY <1>2, <1>3 DEF KeyedTypeOK

LEMMA HasIt ==
  ASSUME KeyedTypeOK, NEW p \in Proc, NEW h \in Having, Has(p, h)
  PROVE  have' \in [Proc -> Having] /\ have'[p] = h /\ \A q \in Proc \ {p} : have'[q] = have[q]
BY DEF KeyedTypeOK, Has

LEMMA UnlocksThem ==
  ASSUME KeyedTypeOK, NEW p \in Proc, NEW Q, Unlocks(p, Q)
  PROVE  /\ rlock' \in [Place -> Proc \cup {NoOne}]
         /\ \A q \in Place : rlock'[q] = IF q \in Q /\ rlock[q] = p THEN NoOne ELSE rlock[q]
BY DEF KeyedTypeOK, Unlocks

LEMMA RecordAtType ==
  ASSUME KeyedTypeOK, NEW q
  PROVE  RecordAt(q) \in Rec /\ (Exists(q) <=> RecordAt(q) # Deleted)
<1>1. q \in DOMAIN data => data[q] \in Rec
  BY ElementOfSeq, LenProperties DEF KeyedTypeOK
<1> QED BY <1>1, Records DEF RecordAt, Exists

\* One record changes or is added.
LEMMA OneRecord ==
  ASSUME KeyedTypeOK, NEW q \in Place, NEW rec \in Rec,
         data' = IF q \in DOMAIN data THEN [data EXCEPT ![q] = rec] ELSE Append(data, rec)
  PROVE  /\ data' \in Seq(Rec) /\ Len(data') <= MaxPlace /\ Len(data') >= Len(data)
         /\ q <= Len(data) + 1 =>
              \A r \in Place : RecordAt(r)' = IF r = q THEN rec ELSE RecordAt(r)
<1>0. data \in Seq(Rec) /\ Len(data) \in Nat /\ Len(data) <= MaxPlace /\ DOMAIN data = 1 .. Len(data)
  BY LenProperties DEF KeyedTypeOK
<1>1. CASE q \in DOMAIN data
  <2>1. /\ data' \in Seq(Rec) /\ Len(data') = Len(data) /\ DOMAIN data' = DOMAIN data
        /\ \A r \in DOMAIN data : data'[r] = IF r = q THEN rec ELSE data[r]
    BY <1>0, <1>1, ExceptSeq
  <2> QED BY <1>0, <1>1, <2>1 DEF RecordAt
<1>2. CASE q \notin DOMAIN data
  <2>1. data' = Append(data, rec)
    BY <1>2
  <2> DEFINE d == Append(data, rec)
  <2>7. d \in Seq(Rec) /\ Len(d) = Len(data) + 1
    BY <1>0, AppendProperties
  <2>8. d[Len(data) + 1] = rec /\ \A r \in 1 .. Len(data) : d[r] = data[r]
    BY <1>0, AppendProperties
  <2>2. /\ data' \in Seq(Rec) /\ Len(data') = Len(data) + 1
        /\ \A r \in 1 .. Len(data) : data'[r] = data[r]
        /\ data'[Len(data) + 1] = rec
    BY <2>1, <2>7, <2>8
  <2>3. Len(data) < q /\ q <= MaxPlace /\ q \in Nat
    BY <1>0, <1>2, Bounds DEF Place
  <2>4. DOMAIN data' = 1 .. Len(data) + 1
    BY <2>2, LenProperties
  <2>5. ASSUME q <= Len(data) + 1, NEW r \in Place
        PROVE  RecordAt(r)' = IF r = q THEN rec ELSE RecordAt(r)
    <3>1. q = Len(data) + 1 /\ r \in Nat
      BY <2>5, <2>3, <1>0, Bounds DEF Place
    <3>2. r \in DOMAIN data' <=> r \in DOMAIN data \/ r = q
      BY <3>1, <2>4, <1>0, <2>3
    <3> QED BY <3>1, <3>2, <2>2, <1>0, <1>2 DEF RecordAt
  <2>6. Len(data') <= MaxPlace /\ Len(data') >= Len(data)
    BY <1>0, <2>2, <2>3, Bounds
  <2> QED BY <2>2, <2>5, <2>6
<1> QED BY <1>1, <1>2

\* One record changes.
LEMMA OneChange ==
  ASSUME KeyedTypeOK, NEW q \in Place, NEW rec \in Rec, data' = [data EXCEPT ![q] = rec]
  PROVE  /\ data' \in Seq(Rec) /\ Len(data') = Len(data)
         /\ q \in DOMAIN data => \A r \in Place : RecordAt(r)' = IF r = q THEN rec ELSE RecordAt(r)
<1>1. data \in Seq(Rec) /\ Len(data) \in Nat /\ DOMAIN data = 1 .. Len(data)
  BY LenProperties DEF KeyedTypeOK
<1>2. CASE q \in DOMAIN data
  <2>1. /\ data' \in Seq(Rec) /\ Len(data') = Len(data)
        /\ \A r \in 1 .. Len(data) : data'[r] = IF r = q THEN rec ELSE data[r]
    BY <1>1, <1>2, ExceptSeq
  <2>2. DOMAIN data' = 1 .. Len(data)
    BY <2>1, LenProperties
  <2> QED BY <1>1, <1>2, <2>1, <2>2 DEF RecordAt
<1>3. CASE q \notin DOMAIN data
  <2>1. data \in [1 .. Len(data) -> Rec]
    BY <1>1, LenProperties
  <2>2. data' = data
    BY <1>1, <1>3, <2>1
  <2> QED BY <1>1, <1>3, <2>2
<1> QED BY <1>2, <1>3

\* A place is taken from those that are free.
LEMMA TakesPlace ==
  ASSUME KeyedTypeOK, free # <<>>, free' = Tail(free)
  PROVE  /\ free' \in Seq(Place) /\ Head(free) \in Place /\ IsFree(Head(free))
         /\ FreeOnce => /\ FreeOnce'
                        /\ \A q \in Place : IsFree(q)' <=> IsFree(q) /\ q # Head(free)
<1>1. /\ free \in Seq(Place) /\ Len(free) \in Nat \ {0} /\ DOMAIN free = 1 .. Len(free)
      /\ Head(free) = free[1]
  BY LenProperties, EmptySeq, HeadTailProperties DEF KeyedTypeOK
<1>2. /\ free' \in Seq(Place) /\ Len(free') = Len(free) - 1
      /\ \A i \in 1 .. Len(free) - 1 : free'[i] = free[i + 1]
  BY HeadTailProperties DEF KeyedTypeOK
<1>3. DOMAIN free' = 1 .. Len(free) - 1
  BY <1>2, LenProperties
<1>4. free[1] \in Place
  BY <1>1, ElementOfSeq
<1>5. ASSUME FreeOnce PROVE FreeOnce'
  <2>1. \A i, j \in 1 .. Len(free) - 1 : free[i + 1] = free[j + 1] => i = j
    BY <1>1, <1>5 DEF FreeOnce
  <2> QED BY <2>1, <1>2, <1>3 DEF FreeOnce
<1>6. ASSUME FreeOnce, NEW q \in Place PROVE IsFree(q)' <=> IsFree(q) /\ q # Head(free)
  <2>1. ASSUME IsFree(q)' PROVE IsFree(q) /\ q # Head(free)
    <3>1. PICK i \in 1 .. Len(free) - 1 : free'[i] = q
      BY <2>1, <1>3 DEF IsFree
    <3>2. i + 1 \in DOMAIN free /\ free[i + 1] = q /\ i + 1 # 1 /\ 1 \in DOMAIN free
      BY <3>1, <1>1, <1>2
    <3> QED BY <3>2, <1>1, <1>6 DEF IsFree, FreeOnce
  <2>2. ASSUME IsFree(q), q # Head(free) PROVE IsFree(q)'
    <3>1. PICK i \in 1 .. Len(free) : free[i] = q
      BY <2>2, <1>1 DEF IsFree
    <3>2. i - 1 \in 1 .. Len(free) - 1 /\ (i - 1) + 1 = i
      BY <3>1, <2>2, <1>1
    <3>3. free'[i - 1] = q
      BY <3>1, <3>2, <1>2
    <3> QED BY <3>2, <3>3, <1>3 DEF IsFree
  <2> QED BY <2>1, <2>2
<1>7. IsFree(Head(free))
  BY <1>1 DEF IsFree
<1> QED BY <1>1, <1>2, <1>4, <1>5, <1>6, <1>7

\* A place is given back.
LEMMA GivesPlace ==
  ASSUME KeyedTypeOK, NEW q \in Place, free' = Append(free, q)
  PROVE  /\ free' \in Seq(Place)
         /\ \A r \in Place : IsFree(r)' <=> IsFree(r) \/ r = q
         /\ FreeOnce /\ ~IsFree(q) => FreeOnce'
<1>1. free \in Seq(Place) /\ Len(free) \in Nat /\ DOMAIN free = 1 .. Len(free)
  BY LenProperties DEF KeyedTypeOK
<1>2. /\ free' \in Seq(Place) /\ Len(free') = Len(free) + 1
      /\ \A i \in 1 .. Len(free) : free'[i] = free[i]
      /\ free'[Len(free) + 1] = q
  BY <1>1, AppendProperties
<1>3. DOMAIN free' = 1 .. Len(free) + 1
  BY <1>2, LenProperties
<1>4. \A r \in Place : IsFree(r)' <=> IsFree(r) \/ r = q
  BY <1>1, <1>2, <1>3 DEF IsFree
<1>5. ASSUME FreeOnce, ~IsFree(q) PROVE FreeOnce'
  <2>1. \A i \in 1 .. Len(free) : free[i] # q
    BY <1>5, <1>1 DEF IsFree
  <2>2. \A i, j \in 1 .. Len(free) : free[i] = free[j] => i = j
    BY <1>5, <1>1 DEF FreeOnce
  <2>3. \A i, j \in 1 .. Len(free) + 1 : free'[i] = free'[j] => i = j
    BY <2>1, <2>2, <1>1, <1>2
  <2> QED BY <2>3, <1>3 DEF FreeOnce
<1> QED BY <1>2, <1>4, <1>5

-----------------------------------------------------------------------------
\* A step of p leaves the calls and the locks of the others alone.
Alone(p) ==
  /\ call' \in [Proc -> CallStates] /\ \A r \in Proc \ {p} : call'[r] = call[r]
  /\ have' \in [Proc -> Having] /\ \A r \in Proc \ {p} : have'[r] = have[r]
  /\ flock' \in Proc \cup {NoOne} /\ \A r \in Proc \ {p} : flock' = r <=> flock = r
  /\ rlock' \in [Place -> Proc \cup {NoOne}]
  /\ \A q \in Place : \A r \in Proc \ {p} : rlock'[q] = r <=> rlock[q] = r
FilesOK ==
  /\ keys' \in [Key -> 0 .. MaxPlace] /\ free' \in Seq(Place)
  /\ data' \in Seq(Rec) /\ Len(data') <= MaxPlace
  /\ faults' \in Nat

\* Records that exist change only if p has locked them.
OwnRecords(p) == \A q \in Place :
  RecordAt(q)' = RecordAt(q) \/ RecordAt(q) = Deleted \/ rlock[q] = p

LEMMA LockStep ==
  ASSUME LockInv, NEW p \in Proc, Alone(p), FilesOK, LockRow(p)'
  PROVE  LockInv'
<1>1. KeyedTypeOK'
  BY DEF Alone, FilesOK, KeyedTypeOK
<1>2. ASSUME NEW r \in Proc \ {p} PROVE LockRow(r)'
  <2>1. LockRow(r) /\ call'[r] = call[r] /\ (flock' = r <=> flock = r)
        /\ \A q \in Place : rlock'[q] = r <=> rlock[q] = r
    BY DEF LockInv, Alone
  <2> QED BY <2>1 DEF LockRow, HasFile
<1> QED BY <1>1, <1>2 DEF LockInv

LEMMA SeenStep ==
  ASSUME LockInv, NEW p \in Proc, Alone(p), OwnRecords(p), NEW r \in Proc \ {p}, Seen(r)
  PROVE  Seen(r)'
<1>1. /\ call'[r] = call[r] /\ have'[r] = have[r] /\ have[r] \in Having
      /\ \A q \in Place : rlock'[q] = r <=> rlock[q] = r
  BY DEF Alone, LockInv, KeyedTypeOK
<1>2. ASSUME NEW q \in Place, have'[r].locked, have'[r].place = q
      PROVE  rlock'[q] = r /\ RecordAt(q)' = have'[r].rec
  <2>1. rlock[q] = r /\ RecordAt(q) = have[r].rec /\ have[r].rec # Deleted
    BY <1>1, <1>2 DEF Seen, Having
  <2> QED BY <1>1, <2>1 DEF OwnRecords
<1> QED BY <1>1, <1>2 DEF Seen

LEMMA KeyedStep ==
  ASSUME KeyedInv, NEW p \in Proc, Alone(p), FilesOK, LockRow(p)', faults' = 0 => faults = 0,
         faults' = 0 => FileInv' /\ Seen(p)' /\ OwnRecords(p)
  PROVE  KeyedInv'
<1>1. LockInv'
  BY LockStep DEF KeyedInv
<1>2. ASSUME faults' = 0 PROVE FileInv' /\ \A r \in Proc : Seen(r)'
  BY <1>2, SeenStep DEF KeyedInv
<1> QED BY <1>1, <1>2 DEF KeyedInv

\* A call that returns without the file lock.
LEMMA RowOfReturn ==
  ASSUME LockInv, NEW p \in Proc, call'[p].at = "idle", flock' # p,
         \A q \in Place : rlock'[q] = p => rlock[q] = p
  PROVE  LockRow(p)'
<1>1. LockRow(p)
  BY DEF LockInv
<1> QED BY <1>1 DEF LockRow, HasFile

LEMMA FiofulkTo ==
  ASSUME KeyedTypeOK, NEW p \in Proc, Fiofulk(p)
  PROVE  /\ flock' \in Proc \cup {NoOne} /\ flock' # p
         /\ \A r \in Proc \ {p} : flock' = r <=> flock = r
BY Bounds DEF KeyedTypeOK, Fiofulk

\* A step that changes none of the files, and begins and ends no part of a
\* write or a delete, or gives one up before the key is there.
LEMMA QuietStep ==
  ASSUME LockInv, FileInv, NEW p \in Proc, Alone(p), LockRow(p)', UNCHANGED files,
         call[p].at \notin {"put", "delete"},
         call'[p].at \notin {"insert", "put", "delete", "give"},
         flock' = p /\ call'[p].at = "get" => keys[call'[p].key] = call'[p].place
  PROVE  FileInv' /\ OwnRecords(p)
<1>1. keys' = keys /\ free' = free /\ data' = data
  BY DEF files
<1>2. \A q \in Place : RecordAt(q)' = RecordAt(q) /\ (IsFree(q)' <=> IsFree(q))
  BY <1>1 DEF RecordAt, IsFree
<1>3. FreeOnce'
  BY <1>1 DEF FileInv, FreeOnce
<1>4. ASSUME NEW r \in Proc, flock' = r, call'[r].at \in {"insert", "put", "delete", "give"}
      PROVE  flock = r /\ call'[r] = call[r]
  BY <1>4 DEF Alone
<1>5. ASSUME NEW r \in Proc, flock' = r, call'[r].at = "get"
      PROVE  keys'[call'[r].key] = call'[r].place
  BY <1>1, <1>5 DEF Alone, FileInv
<1>6. flock \in Proc \cup {NoOne} /\ flock' \in Proc \cup {NoOne} /\ NoOne \notin Proc
  BY Bounds DEF LockInv, KeyedTypeOK, Alone
<1>7. ASSUME flock # NoOne, call[flock].at \in {"put", "delete"}
      PROVE  flock' = flock /\ call'[flock] = call[flock]
  BY <1>6, <1>7 DEF Alone
<1>8. \A k \in Key, q \in Place : keys'[k] = q =>
        Writing(k, q)' \/ (RecordAt(q)' # Deleted /\ RecordAt(q)'.key = k)
  <2> SUFFICES ASSUME NEW k \in Key, NEW q \in Place, keys[k] = q
               PROVE  Writing(k, q)' \/ (RecordAt(q) # Deleted /\ RecordAt(q).key = k)
    BY <1>1, <1>2
  <2>1. Writing(k, q) \/ (RecordAt(q) # Deleted /\ RecordAt(q).key = k)
    BY DEF FileInv
  <2>2. Writing(k, q) => Writing(k, q)'
    BY <1>7 DEF Writing
  <2> QED BY <2>1, <2>2
<1>9. \A q \in Place : RecordAt(q)' # Deleted => keys'[RecordAt(q)'.key] = q \/ Deleting(q)'
  <2> SUFFICES ASSUME NEW q \in Place, RecordAt(q) # Deleted
               PROVE  keys[RecordAt(q).key] = q \/ Deleting(q)'
    BY <1>1, <1>2
  <2>1. keys[RecordAt(q).key] = q \/ Deleting(q)
    BY DEF FileInv
  <2>2. Deleting(q) => Deleting(q)'
    BY <1>7 DEF Deleting
  <2> QED BY <2>1, <2>2
<1>10. FileInv'
  <2>1. \A q \in Place : IsFree(q)' => RecordAt(q)' = Deleted /\ q <= Len(data') + 1
    BY <1>1, <1>2 DEF FileInv
  <2>2. \A r \in Proc, q \in Place :
          flock' = r /\ call'[r].at \in {"insert", "put", "give"} /\ call'[r].place = q =>
            ~IsFree(q)' /\ RecordAt(q)' = Deleted
    BY <1>2, <1>4 DEF FileInv
  <2>3. \A r \in Proc : flock' = r /\ call'[r].at \in {"insert", "put", "give"} =>
          call'[r].place <= Len(data') + 1
    BY <1>1, <1>4 DEF FileInv
  <2>4. \A r \in Proc : flock' = r /\ call'[r].at \in {"put", "get"} => keys'[call'[r].key] = call'[r].place
    BY <1>1, <1>4, <1>5 DEF FileInv
  <2>5. \A r \in Proc, q \in Place : flock' = r /\ call'[r].at = "delete" /\ call'[r].place = q =>
          keys'[call'[r].key] = 0 /\ RecordAt(q)' # Deleted /\ RecordAt(q)'.key = call'[r].key
    BY <1>1, <1>2, <1>4 DEF FileInv
  <2> QED BY <1>3, <1>8, <1>9, <2>1, <2>2, <2>3, <2>4, <2>5 DEF FileInv
<1> QED BY <1>2, <1>10 DEF OwnRecords

-----------------------------------------------------------------------------
\* The reads.
LEMMA SearchedKeeps ==
  ASSUME KeyedInv, NEW p \in Proc, NEW c, c.key \in Key => c \in Calling, Searched(p, c),
         call[p].at \in {"idle", "again"},
         have' \in [Proc -> Having], \A r \in Proc \ {p} : have'[r] = have[r],
         faults = 0 => ~have'[p].locked,
         rlock' \in [Place -> Proc \cup {NoOne}],
         \A q \in Place : \A r \in Proc \ {p} : rlock'[q] = r <=> rlock[q] = r,
         \A q \in Place : rlock'[q] = p => rlock[q] = p /\ ~c.lock
  PROVE  KeyedInv'
<1>1. KeyedTypeOK /\ LockRow(p)
  BY DEF KeyedInv, LockInv
<1>2. flock = NoOne /\ UNCHANGED files /\ UNCHANGED faults
  BY DEF Searched, NoFault
<1>3. FilesOK
  BY <1>1, <1>2 DEF KeyedTypeOK, FilesOK, files
<1>4. CASE c.key \in Indexed
  <2> DEFINE d == [c EXCEPT !.at = IF c.lock THEN "lock" ELSE "get", !.place = keys[c.key]]
  <2>1. Calls(p, d) /\ flock' = IF c.lock THEN NoOne ELSE p
    BY <1>4 DEF Searched, Held
  <2>2. c.key \in Key /\ keys[c.key] \in Place /\ c \in Calling
    BY <1>1, <1>4, Bounds DEF Indexed, KeyedTypeOK, Place
  <2>3. d \in Calling
    <3> DEFINE x == IF c.lock THEN "lock" ELSE "get"
               y == keys[c.key]
    <3>1. x \in {"lock", "get"} /\ y \in 0 .. MaxPlace
      BY <2>2, Bounds DEF Place
    <3> HIDE DEF x, y
    <3>2. [c EXCEPT !.at = x, !.place = y] \in Calling
      BY <2>2, <3>1 DEF Calling
    <3> QED BY <3>2 DEF x, y
  <2>4. /\ d.at = IF c.lock THEN "lock" ELSE "get"
        /\ d.key = c.key /\ d.place = keys[c.key] /\ d.lock = c.lock
    BY <2>2 DEF Calling
  <2>5. d \in CallStates
    BY <2>2, <2>3, <2>4 DEF CallStates
  <2> HIDE DEF d
  <2>6. call' \in [Proc -> CallStates] /\ call'[p] = d /\ \A r \in Proc \ {p} : call'[r] = call[r]
    BY <1>1, <2>1, <2>5, CallsTo
  <2>7. Alone(p)
    BY <1>2, <2>1, <2>6, Bounds DEF Alone
  <2>8. c.lock \in BOOLEAN
    BY <2>2 DEF Calling
  <2>9. LockRow(p)'
    BY <1>1, <2>1, <2>4, <2>6, <2>8, Bounds DEF LockRow, HasFile
  <2>10. ASSUME faults' = 0 PROVE FileInv' /\ Seen(p)' /\ OwnRecords(p)
    <3>1. FileInv' /\ OwnRecords(p)
      BY <1>2, <2>4, <2>6, <2>7, <2>9, <2>10, QuietStep DEF KeyedInv
    <3>2. Seen(p)'
      BY <1>2, <2>4, <2>6, <2>10 DEF Seen
    <3> QED BY <3>1, <3>2
  <2> QED BY <1>2, <1>3, <2>7, <2>9, <2>10, KeyedStep
<1>5. CASE c.key \notin Indexed
  <2>1. Returns(p) /\ flock' = flock
    BY <1>5 DEF Searched
  <2>2. call' \in [Proc -> CallStates] /\ call'[p].at = "idle" /\ \A r \in Proc \ {p} : call'[r] = call[r]
    BY <1>1, <2>1, ReturnsTo
  <2>3. Alone(p) /\ flock' # p
    BY <1>1, <1>2, <2>1, <2>2, Bounds DEF Alone, KeyedTypeOK
  <2>4. LockRow(p)'
    BY <2>2, <2>3, RowOfReturn DEF KeyedInv
  <2>5. ASSUME faults' = 0 PROVE FileInv' /\ Seen(p)' /\ OwnRecords(p)
    <3>1. FileInv' /\ OwnRecords(p)
      BY <1>2, <2>2, <2>3, <2>4, <2>5, QuietStep DEF KeyedInv
    <3>2. Seen(p)'
      BY <1>2, <2>2, <2>5 DEF Seen
    <3> QED BY <3>1, <3>2
  <2> QED BY <1>2, <1>3, <2>3, <2>4, <2>5, KeyedStep
<1> QED BY <1>4, <1>5

LEMMA ReadsKeeps ==
  ASSUME KeyedInv, NEW p \in Proc, NEW by \in {"key", "next", "prev"}, NEW k,
         NEW lock \in BOOLEAN, Reads(p, by, k, lock)
  PROVE  KeyedInv'
<1> DEFINE c == [Idle EXCEPT !.by = by, !.key = k, !.lock = lock]
<1>1. Searched(p, c) /\ Has(p, Nothing) /\ call[p].at = "idle"
      /\ IF lock THEN Unlocks(p, Place) ELSE UNCHANGED rlock
  BY DEF Reads, IsIdle
<1>2. c.key = k /\ c.lock = lock
  BY IdleFields DEF CallStates, Calling
<1>3. ASSUME k \in Key PROVE c \in Calling
  <2>1. k \in 0 .. Keys /\ Idle \in Calling
    BY <1>3, Bounds, IdleFields DEF Key, CallStates
  <2> QED BY <2>1 DEF Calling
<1> HIDE DEF c
<1>4. KeyedTypeOK
  BY DEF KeyedInv, LockInv
<1>5. have' \in [Proc -> Having] /\ ~have'[p].locked /\ \A r \in Proc \ {p} : have'[r] = have[r]
  BY <1>1, <1>4, HasIt, NothingFields
<1>6. /\ rlock' \in [Place -> Proc \cup {NoOne}]
      /\ \A q \in Place : \A r \in Proc \ {p} : rlock'[q] = r <=> rlock[q] = r
      /\ \A q \in Place : rlock'[q] = p => rlock[q] = p /\ ~lock
  <2>1. CASE lock
    BY <1>1, <1>4, <2>1, UnlocksThem, Bounds
  <2>2. CASE ~lock
    BY <1>1, <1>4, <2>2 DEF KeyedTypeOK
  <2> QED BY <2>1, <2>2
<1> QED BY <1>1, <1>2, <1>3, <1>5, <1>6, SearchedKeeps

LEMMA LockRefusedKeeps == ASSUME KeyedInv, NEW p \in Proc, LockRefused(p) PROVE KeyedInv'
<1>1. KeyedTypeOK /\ LockRow(p) /\ call[p].at = "lock"
  BY DEF KeyedInv, LockInv, LockRefused, IsAt
<1>2. UNCHANGED files /\ UNCHANGED faults /\ UNCHANGED locks /\ UNCHANGED have
  BY DEF LockRefused, NoFault
<1>3. call' \in [Proc -> CallStates] /\ call'[p].at = "idle" /\ \A r \in Proc \ {p} : call'[r] = call[r]
  BY <1>1, ReturnsTo DEF LockRefused
<1>4. flock' # p
  BY <1>1, <1>2, Bounds DEF LockRow, HasFile, locks, KeyedTypeOK, CallStates, Calling
<1>5. Alone(p) /\ FilesOK
  BY <1>1, <1>2, <1>3 DEF Alone, FilesOK, KeyedTypeOK, locks, files
<1>6. LockRow(p)'
  BY <1>2, <1>3, <1>4, RowOfReturn DEF KeyedInv, locks
<1>7. ASSUME faults' = 0 PROVE FileInv' /\ Seen(p)' /\ OwnRecords(p)
  <2>1. FileInv /\ Seen(p)
    BY <1>2, <1>7 DEF KeyedInv
  <2>2. FileInv' /\ OwnRecords(p)
    BY <1>1, <1>2, <1>3, <1>5, <1>6, <2>1, QuietStep DEF KeyedInv
  <2>3. Seen(p)'
    BY <1>1, <1>2, <1>3, <2>1 DEF Seen
  <2> QED BY <2>2, <2>3
<1> QED BY <1>2, <1>5, <1>6, <1>7, KeyedStep

LEMMA LockRecordKeeps == ASSUME KeyedInv, NEW p \in Proc, LockRecord(p) PROVE KeyedInv'
<1> DEFINE q == call[p].place
<1>1. KeyedTypeOK /\ LockRow(p) /\ call[p].at = "lock" /\ q \in Place
  BY DEF KeyedInv, LockInv, LockRecord, IsAt, KeyedTypeOK, CallStates
<1>2. UNCHANGED files /\ UNCHANGED faults /\ UNCHANGED flock /\ UNCHANGED have
  BY DEF LockRecord, NoFault
<1>3. /\ call' \in [Proc -> CallStates] /\ \A r \in Proc \ {p} : call'[r] = call[r]
      /\ call'[p].at = "get" /\ call'[p].place = q /\ call'[p].lock = call[p].lock
  BY <1>1, GoesTo DEF LockRecord
<1>4. rlock[q] \in {p, NoOne} /\ rlock' = [rlock EXCEPT ![q] = p]
  BY DEF LockRecord
<1>5. Alone(p) /\ FilesOK
  BY <1>1, <1>2, <1>3, <1>4, Bounds DEF Alone, FilesOK, KeyedTypeOK, files
<1>6. flock' # p /\ LockRow(p)'
  BY <1>1, <1>2, <1>3, <1>4, Bounds DEF LockRow, HasFile, KeyedTypeOK
<1>7. ASSUME faults' = 0 PROVE FileInv' /\ Seen(p)' /\ OwnRecords(p)
  <2>1. FileInv /\ Seen(p)
    BY <1>2, <1>7 DEF KeyedInv
  <2>2. FileInv' /\ OwnRecords(p)
    BY <1>1, <1>2, <1>3, <1>5, <1>6, <2>1, QuietStep DEF KeyedInv
  <2>3. Seen(p)'
    BY <1>1, <1>2, <1>3, <2>1 DEF Seen
  <2> QED BY <2>2, <2>3
<1> QED BY <1>2, <1>5, <1>6, <1>7, KeyedStep

LEMMA GetRecordKeeps == ASSUME KeyedInv, NEW p \in Proc, GetRecord(p) PROVE KeyedInv'
<1> DEFINE c == call[p]
           h == [place |-> c.place, rec |-> data[c.place], locked |-> c.lock]
<1>1. KeyedTypeOK /\ LockRow(p) /\ c.at = "get" /\ c.place \in Place /\ c.lock \in BOOLEAN
  BY DEF KeyedInv, LockInv, GetRecord, IsAt, KeyedTypeOK, CallStates, Calling
<1>2. UNCHANGED files /\ UNCHANGED faults /\ UNCHANGED rlock
  BY DEF GetRecord, NoFault
<1>3. call' \in [Proc -> CallStates] /\ call'[p].at = "idle" /\ \A r \in Proc \ {p} : call'[r] = call[r]
  BY <1>1, ReturnsTo DEF GetRecord
<1>4. RecordAt(c.place) = data[c.place] /\ RecordAt(c.place) \in Rec /\ RecordAt(c.place) # Deleted
  BY <1>1, RecordAtType DEF GetRecord, Exists, RecordAt
<1>5. h \in Having
  BY <1>1, <1>4, Bounds DEF Having, Place
<1>6. /\ have' \in [Proc -> Having] /\ have'[p] = h
      /\ \A r \in Proc \ {p} : have'[r] = have[r]
  BY <1>1, <1>5, HasIt DEF GetRecord
<1>7. Alone(p) /\ FilesOK /\ flock' # p
  BY <1>1, <1>2, <1>3, <1>6, FiofulkTo DEF Alone, FilesOK, KeyedTypeOK, files, GetRecord
<1>8. LockRow(p)'
  BY <1>2, <1>3, <1>7, RowOfReturn DEF KeyedInv
<1>9. ASSUME faults' = 0 PROVE FileInv' /\ Seen(p)' /\ OwnRecords(p)
  <2>1. FileInv' /\ OwnRecords(p)
    BY <1>1, <1>2, <1>3, <1>7, <1>8, <1>9, QuietStep DEF KeyedInv
  <2>2. ASSUME NEW q \in Place, have'[p].locked, have'[p].place = q
        PROVE  rlock'[q] = p /\ RecordAt(q)' = have'[p].rec
    <3>1. q = c.place /\ c.lock /\ have'[p].rec = data[c.place]
      BY <1>6, <2>2
    <3> QED BY <1>1, <1>2, <1>4, <3>1 DEF LockRow, RecordAt, files
  <2> QED BY <1>3, <2>1, <2>2 DEF Seen
<1> QED BY <1>2, <1>7, <1>8, <1>9, KeyedStep

LEMMA RecordGoneKeeps == ASSUME KeyedInv, NEW p \in Proc, RecordGone(p) PROVE KeyedInv'
<1> DEFINE c == call[p]
<1>1. KeyedTypeOK /\ LockRow(p) /\ c.at = "get" /\ c.place \in Place /\ c \in CallStates
  BY DEF KeyedInv, LockInv, RecordGone, IsAt, KeyedTypeOK, CallStates
<1>2. UNCHANGED files /\ UNCHANGED faults /\ UNCHANGED have
  BY DEF RecordGone, NoFault
<1>3. /\ call' \in [Proc -> CallStates] /\ \A r \in Proc \ {p} : call'[r] = call[r]
      /\ call'[p].at = "idle" \/ (call'[p].at = "again" /\ call'[p].lock /\ c.lock)
  <2>1. CASE c.lock /\ p \in Server /\ c.place \in DOMAIN data \ {c.tried}
    <3> DEFINE t == c.place
               d == [c EXCEPT !.at = "again", !.tried = t]
    <3>1. t \in 0 .. MaxPlace /\ t \in Place /\ c \in Calling /\ c.key \in Key
      BY <1>1, Bounds DEF Place, CallStates
    <3>2. c.lock /\ Calls(p, d)
      BY <2>1 DEF RecordGone
    <3>3. d \in Calling /\ d.at = "again" /\ d.key = c.key /\ d.place = c.place /\ d.lock = c.lock
      <4> HIDE DEF t
      <4> QED BY <3>1 DEF Calling
    <3>4. d \in CallStates
      BY <3>1, <3>3 DEF CallStates
    <3> HIDE DEF d
    <3> QED BY <1>1, <3>2, <3>3, <3>4, CallsTo
  <2>2. CASE ~(c.lock /\ p \in Server /\ c.place \in DOMAIN data \ {c.tried})
    <3>1. Returns(p)
      BY <2>2 DEF RecordGone
    <3> QED BY <1>1, <3>1, ReturnsTo
  <2> QED BY <2>1, <2>2
<1>4. /\ rlock' \in [Place -> Proc \cup {NoOne}]
      /\ \A q \in Place : rlock'[q] = IF c.lock /\ q = c.place /\ rlock[q] = p THEN NoOne ELSE rlock[q]
  <2> DEFINE Q == IF c.lock THEN {c.place} ELSE {}
  <2>1. Unlocks(p, Q) /\ \A q : q \in Q <=> c.lock /\ q = c.place
    BY DEF RecordGone
  <2> HIDE DEF Q
  <2> QED BY <1>1, <2>1, UnlocksThem
<1>5. Alone(p) /\ FilesOK /\ flock' # p
  BY <1>1, <1>2, <1>3, <1>4, FiofulkTo, Bounds DEF Alone, FilesOK, KeyedTypeOK, files, RecordGone
<1>6. LockRow(p)'
  <2>1. CASE call'[p].at = "idle"
    BY <1>4, <1>5, <2>1, RowOfReturn, Bounds DEF KeyedInv
  <2>2. CASE call'[p].at = "again" /\ call'[p].lock /\ c.lock
    <3>1. \A q \in Place : rlock'[q] # p
      BY <1>1, <1>4, <2>2, Bounds DEF LockRow
    <3> QED BY <1>5, <2>2, <3>1 DEF LockRow, HasFile
  <2> QED BY <1>3, <2>1, <2>2
<1>7. ASSUME faults' = 0 PROVE FileInv' /\ Seen(p)' /\ OwnRecords(p)
  <2>1. FileInv /\ Seen(p)
    BY <1>2, <1>7 DEF KeyedInv
  <2>2. FileInv' /\ OwnRecords(p)
    BY <1>1, <1>2, <1>3, <1>5, <1>6, <2>1, QuietStep DEF KeyedInv
  <2>3. ~have'[p].locked
    BY <1>1, <1>2, <2>1 DEF Seen
  <2> QED BY <1>3, <2>2, <2>3 DEF Seen
<1> QED BY <1>2, <1>5, <1>6, <1>7, KeyedStep

LEMMA ReadAgainKeeps == ASSUME KeyedInv, NEW p \in Proc, ReadAgain(p) PROVE KeyedInv'
<1> DEFINE k == IF call[p].by = "key" THEN call[p].key ELSE Step(call[p].by, Back(call[p].by, cur[p]))
           c == [call[p] EXCEPT !.key = k]
<1>1. KeyedTypeOK /\ LockRow(p) /\ call[p].at = "again" /\ call[p] \in Calling
      /\ Searched(p, c) /\ UNCHANGED rlock /\ UNCHANGED have
  BY DEF KeyedInv, LockInv, ReadAgain, IsAt, KeyedTypeOK, CallStates
<1>2. call[p].lock /\ (\A q \in Place : rlock[q] # p) /\ flock = NoOne
  BY <1>1 DEF LockRow, Searched
<1> HIDE DEF k
<1>3. c.key = k /\ c.lock = call[p].lock
  BY <1>1 DEF Calling
<1>4. ASSUME k \in Key PROVE c \in Calling
  <2>1. k \in 0 .. Keys
    BY <1>4, Bounds DEF Key
  <2> QED BY <1>1, <2>1 DEF Calling
<1>5. faults = 0 => ~have'[p].locked
  BY <1>1 DEF KeyedInv, Seen
<1>6. have \in [Proc -> Having] /\ rlock \in [Place -> Proc \cup {NoOne}]
  BY <1>1 DEF KeyedTypeOK
<1> HIDE DEF c
<1> QED BY <1>1, <1>2, <1>3, <1>4, <1>5, <1>6, SearchedKeeps

\* A key that is there already.
LEMMA InsertRefusedKeeps == ASSUME KeyedInv, NEW p \in Proc, InsertRefused(p) PROVE KeyedInv'
<1>1. KeyedTypeOK /\ call[p].at = "insert"
  BY DEF KeyedInv, LockInv, InsertRefused, IsAt
<1>2. UNCHANGED files /\ UNCHANGED faults /\ UNCHANGED rlock /\ UNCHANGED have
  BY DEF InsertRefused, NoFault
<1>3. call' \in [Proc -> CallStates] /\ call'[p].at = "idle" /\ \A r \in Proc \ {p} : call'[r] = call[r]
  BY <1>1, ReturnsTo DEF InsertRefused
<1>4. Alone(p) /\ FilesOK /\ flock' # p
  BY <1>1, <1>2, <1>3, FiofulkTo DEF Alone, FilesOK, KeyedTypeOK, files, InsertRefused
<1>5. LockRow(p)'
  BY <1>2, <1>3, <1>4, RowOfReturn DEF KeyedInv
<1>6. ASSUME faults' = 0 PROVE FileInv' /\ Seen(p)' /\ OwnRecords(p)
  <2>1. FileInv /\ Seen(p)
    BY <1>2, <1>6 DEF KeyedInv
  <2>2. FileInv' /\ OwnRecords(p)
    BY <1>1, <1>2, <1>3, <1>4, <1>5, <2>1, QuietStep DEF KeyedInv
  <2>3. ~have'[p].locked
    BY <1>1, <1>2, <2>1 DEF Seen
  <2> QED BY <1>3, <2>2, <2>3 DEF Seen
<1> QED BY <1>2, <1>4, <1>5, <1>6, KeyedStep

LEMMA UnlockKeeps == ASSUME KeyedInv, NEW p \in Proc, Unlock(p) PROVE KeyedInv'
<1> DEFINE h == [have[p] EXCEPT !.locked = FALSE]
<1>1. KeyedTypeOK /\ LockRow(p) /\ call[p].at = "idle"
  BY DEF KeyedInv, LockInv, Unlock, MayChange, IsIdle
<1>2. UNCHANGED files /\ UNCHANGED faults /\ UNCHANGED flock /\ UNCHANGED call
  BY DEF Unlock, NoFault
<1>3. h \in Having /\ ~h.locked
  BY <1>1 DEF KeyedTypeOK, Having
<1>4. have' \in [Proc -> Having] /\ ~have'[p].locked /\ \A r \in Proc \ {p} : have'[r] = have[r]
  BY <1>1, <1>3, HasIt DEF Unlock
<1>5. /\ rlock' \in [Place -> Proc \cup {NoOne}]
      /\ \A q \in Place : rlock'[q] = IF rlock[q] = p THEN NoOne ELSE rlock[q]
  BY <1>1, UnlocksThem DEF Unlock
<1>6. Alone(p) /\ FilesOK
  BY <1>1, <1>2, <1>4, <1>5, Bounds DEF Alone, FilesOK, KeyedTypeOK, files
<1>7. flock' # p /\ LockRow(p)'
  BY <1>1, <1>2, <1>5, Bounds DEF LockRow, HasFile
<1>8. ASSUME faults' = 0 PROVE FileInv' /\ Seen(p)' /\ OwnRecords(p)
  <2>1. FileInv' /\ OwnRecords(p)
    BY <1>1, <1>2, <1>6, <1>7, <1>8, QuietStep DEF KeyedInv
  <2> QED BY <1>1, <1>2, <1>4, <2>1 DEF Seen
<1> QED BY <1>2, <1>6, <1>7, <1>8, KeyedStep

-----------------------------------------------------------------------------
\* Steps that fail, and processes that die.
LEMMA FaultKeeps ==
  ASSUME KeyedInv, NEW p \in Proc, Returns(p), Fiofulk(p), UNCHANGED files, Fault,
         have' \in [Proc -> Having], \A r \in Proc \ {p} : have'[r] = have[r],
         rlock' \in [Place -> Proc \cup {NoOne}],
         \A q \in Place : rlock'[q] = rlock[q] \/ (rlock[q] = p /\ rlock'[q] = NoOne)
  PROVE  KeyedInv'
<1>1. KeyedTypeOK
  BY DEF KeyedInv, LockInv
<1>2. call' \in [Proc -> CallStates] /\ call'[p].at = "idle" /\ \A r \in Proc \ {p} : call'[r] = call[r]
  BY <1>1, ReturnsTo
<1>3. faults' \in Nat /\ faults' # 0
  BY <1>1 DEF KeyedTypeOK, Fault
<1>4. Alone(p) /\ FilesOK /\ flock' # p
  BY <1>1, <1>2, <1>3, FiofulkTo, Bounds DEF Alone, FilesOK, KeyedTypeOK, files
<1>5. LockRow(p)'
  BY <1>2, <1>4, RowOfReturn, Bounds DEF KeyedInv
<1> QED BY <1>3, <1>4, <1>5, KeyedStep

LEMMA WriteFailsKeeps == ASSUME KeyedInv, NEW p \in Proc, WriteFails(p) PROVE KeyedInv'
BY FaultKeeps DEF WriteFails, KeyedInv, LockInv, KeyedTypeOK

LEMMA DeleteFailsKeeps == ASSUME KeyedInv, NEW p \in Proc, DeleteFails(p) PROVE KeyedInv'
<1> DEFINE Q == {call[p].place}
<1>1. KeyedTypeOK /\ Returns(p) /\ Fiofulk(p) /\ UNCHANGED files /\ Fault
      /\ Has(p, Nothing) /\ Unlocks(p, Q)
  BY DEF KeyedInv, LockInv, DeleteFails
<1> HIDE DEF Q
<1> QED BY <1>1, HasIt, NothingFields, UnlocksThem, FaultKeeps

LEMMA CrashKeeps == ASSUME KeyedInv, NEW p \in Proc, Crash(p) PROVE KeyedInv'
<1>1. KeyedTypeOK /\ Returns(p) /\ Fiofulk(p) /\ UNCHANGED files /\ Fault
      /\ Has(p, Nothing) /\ Unlocks(p, Place)
  BY DEF KeyedInv, LockInv, Crash
<1> QED BY <1>1, HasIt, NothingFields, UnlocksThem, FaultKeeps

-----------------------------------------------------------------------------
\* The steps of a write and of a delete.
LEMMA WriteKeyKeeps ==
  ASSUME KeyedInv, NEW p \in Proc, NEW k \in Key, WriteKey(p, k) PROVE KeyedInv'
<1>1. KeyedTypeOK /\ LockRow(p) /\ call[p].at = "idle" /\ flock = NoOne /\ flock' = p
  BY DEF KeyedInv, LockInv, WriteKey, IsIdle, Fioflck
<1>2. keys' = keys /\ data' = data /\ UNCHANGED rlock /\ UNCHANGED faults
  BY DEF WriteKey, NoFault
<1>3. have' \in [Proc -> Having] /\ ~have'[p].locked /\ \A r \in Proc \ {p} : have'[r] = have[r]
  BY <1>1, HasIt, NothingFields DEF WriteKey
<1> DEFINE new == IF free # <<>> THEN Head(free) ELSE Len(data) + 1
           c == [Idle EXCEPT !.at = "insert", !.key = k, !.place = new]
<1>4. Calls(p, c) /\ (IF free # <<>> THEN free' = Tail(free) ELSE free' = free /\ Len(data) < MaxPlace)
  BY DEF WriteKey
<1>5. /\ free' \in Seq(Place) /\ new \in Place
      /\ FreeOnce => FreeOnce' /\ \A q \in Place : IsFree(q)' => IsFree(q) /\ q # new
      /\ IsFree(new) \/ (new = Len(data) + 1 /\ RecordAt(new) = Deleted)
  <2>1. CASE free # <<>>
    BY <1>1, <1>4, <2>1, TakesPlace
  <2>2. CASE free = <<>>
    <3>1. Len(data) \in Nat /\ Len(data) < MaxPlace
      BY <1>1, <1>4, <2>2, LenProperties DEF KeyedTypeOK
    <3>2. new = Len(data) + 1 /\ new \in Place /\ new \notin DOMAIN data /\ free' = free
      BY <1>1, <1>4, <2>2, <3>1, Bounds, LenProperties DEF KeyedTypeOK, Place
    <3>3. \A q : ~IsFree(q) /\ ~IsFree(q)'
      BY <2>2, <3>2 DEF IsFree
    <3> QED BY <1>1, <2>2, <3>2, <3>3 DEF KeyedTypeOK, FreeOnce, RecordAt
  <2> QED BY <2>1, <2>2
<1> HIDE DEF new
<1>6. c \in CallStates /\ c.at = "insert" /\ c.key = k /\ c.place = new
  <2>1. k \in 0 .. Keys /\ new \in 0 .. MaxPlace /\ Idle \in Calling
    BY <1>5, Bounds, IdleFields DEF Key, Place, CallStates
  <2>2. c \in Calling /\ c.at = "insert" /\ c.key = k /\ c.place = new
    BY <2>1 DEF Calling
  <2> QED BY <1>5, <2>2 DEF CallStates
<1> HIDE DEF c
<1>7. call' \in [Proc -> CallStates] /\ call'[p] = c /\ \A r \in Proc \ {p} : call'[r] = call[r]
  BY <1>1, <1>4, <1>6, CallsTo
<1>8. Alone(p) /\ FilesOK
  BY <1>1, <1>2, <1>3, <1>5, <1>7, Bounds DEF Alone, FilesOK, KeyedTypeOK
<1>9. LockRow(p)'
  BY <1>1, <1>2, <1>6, <1>7 DEF LockRow, HasFile
<1>10. ASSUME faults' = 0 PROVE FileInv' /\ Seen(p)' /\ OwnRecords(p)
  <2>1. FileInv
    BY <1>2, <1>10 DEF KeyedInv
  <2>2. \A q \in Place : RecordAt(q)' = RecordAt(q)
    BY <1>2 DEF RecordAt
  <2>3. /\ FreeOnce' /\ RecordAt(new) = Deleted /\ new <= Len(data) + 1
        /\ \A q \in Place : IsFree(q)' => IsFree(q) /\ q # new
    <3>1. Len(data) + 1 <= Len(data) + 1
      BY <1>1, LenProperties DEF KeyedTypeOK
    <3> QED BY <1>5, <2>1, <3>1 DEF FileInv
  <2>4. \A q \in Place : ~Deleting(q) /\ \A l \in Key : ~Writing(l, q)
    BY <1>1 DEF Deleting, Writing
  <2>5. \A l \in Key, q \in Place : keys'[l] = q => RecordAt(q)' # Deleted /\ RecordAt(q)'.key = l
    BY <1>2, <2>1, <2>2, <2>4 DEF FileInv
  <2>6. \A q \in Place : RecordAt(q)' # Deleted => keys'[RecordAt(q)'.key] = q
    BY <1>2, <2>1, <2>2, <2>4 DEF FileInv
  <2>7. \A q \in Place : IsFree(q)' => RecordAt(q)' = Deleted /\ q <= Len(data') + 1
    BY <1>2, <2>1, <2>2, <2>3 DEF FileInv
  <2>8. FileInv'
    BY <1>1, <1>2, <1>6, <1>7, <2>2, <2>3, <2>5, <2>6, <2>7 DEF FileInv
  <2> QED BY <1>3, <1>6, <1>7, <2>2, <2>8 DEF Seen, OwnRecords
<1> QED BY <1>2, <1>8, <1>9, <1>10, KeyedStep

LEMMA InsertKeyKeeps == ASSUME KeyedInv, NEW p \in Proc, InsertKey(p) PROVE KeyedInv'
<1> DEFINE k == call[p].key
           n == call[p].place
<1>1. /\ KeyedTypeOK /\ LockRow(p) /\ call[p].at = "insert" /\ k \in Key /\ n \in Place
      /\ keys[k] = 0 /\ flock = p
  BY DEF KeyedInv, LockInv, LockRow, HasFile, InsertKey, IsAt, KeyedTypeOK, CallStates, Indexed
<1>2. /\ free' = free /\ data' = data /\ UNCHANGED faults /\ UNCHANGED locks /\ UNCHANGED have
      /\ keys' = [keys EXCEPT ![k] = n]
  BY DEF InsertKey, NoFault
<1>3. /\ call' \in [Proc -> CallStates] /\ \A r \in Proc \ {p} : call'[r] = call[r]
      /\ call'[p].at = "put" /\ call'[p].key = k /\ call'[p].place = n
  BY <1>1, GoesTo DEF InsertKey
<1> HIDE DEF k, n
<1>4. keys' \in [Key -> 0 .. MaxPlace] /\ \A l \in Key : keys'[l] = IF l = k THEN n ELSE keys[l]
  BY <1>1, <1>2, Bounds DEF KeyedTypeOK, Place
<1>5. Alone(p) /\ FilesOK
  BY <1>1, <1>2, <1>3, <1>4 DEF Alone, FilesOK, KeyedTypeOK, locks
<1>6. LockRow(p)'
  BY <1>1, <1>2, <1>3 DEF LockRow, HasFile, locks
<1>7. ASSUME faults' = 0 PROVE FileInv' /\ Seen(p)' /\ OwnRecords(p)
  <2>1. FileInv /\ Seen(p)
    BY <1>2, <1>7 DEF KeyedInv
  <2>2. \A q \in Place : RecordAt(q)' = RecordAt(q) /\ (IsFree(q)' <=> IsFree(q))
    BY <1>2 DEF RecordAt, IsFree
  <2>3. FreeOnce' /\ flock' = p
    BY <1>1, <1>2, <2>1 DEF FileInv, FreeOnce, locks
  <2>4. \A q \in Place : ~Deleting(q) /\ \A l \in Key : ~Writing(l, q)
    BY <1>1 DEF Deleting, Writing
  <2>5. ~IsFree(n) /\ RecordAt(n) = Deleted /\ n <= Len(data) + 1
    BY <1>1, <2>1 DEF FileInv, n
  <2>6. \A l \in Key, q \in Place : l = k /\ q = n => Writing(l, q)'
    BY <1>1, <1>3, <2>3, Bounds DEF Writing
  <2>7. \A l \in Key, q \in Place : keys'[l] = q =>
          Writing(l, q)' \/ (RecordAt(q)' # Deleted /\ RecordAt(q)'.key = l)
    BY <1>4, <2>1, <2>2, <2>4, <2>6 DEF FileInv
  <2>8. \A q \in Place : RecordAt(q)' # Deleted => keys'[RecordAt(q)'.key] = q
    <3> SUFFICES ASSUME NEW q \in Place, RecordAt(q) # Deleted PROVE keys'[RecordAt(q).key] = q
      BY <2>2
    <3>1. RecordAt(q).key \in Key /\ q # 0
      BY <1>1, RecordAtType, Records, Bounds DEF Place
    <3>2. keys[RecordAt(q).key] = q
      BY <2>1, <2>4 DEF FileInv
    <3> QED BY <1>1, <1>4, <3>1, <3>2
  <2>9. FileInv'
    BY <1>1, <1>2, <1>3, <1>4, <2>1, <2>2, <2>3, <2>5, <2>7, <2>8 DEF FileInv
  <2>10. Seen(p)'
    BY <1>1, <1>2, <1>3, <2>1 DEF Seen
  <2> QED BY <2>2, <2>9, <2>10 DEF OwnRecords
<1> QED BY <1>2, <1>5, <1>6, <1>7, KeyedStep

LEMMA PutRecordKeeps == ASSUME KeyedInv, NEW p \in Proc, PutRecord(p) PROVE KeyedInv'
<1> DEFINE k == call[p].key
           n == call[p].place
           rec == Record(k)
           h == [place |-> n, rec |-> rec, locked |-> FALSE]
<1>1. /\ KeyedTypeOK /\ LockRow(p) /\ call[p].at = "put" /\ k \in Key /\ n \in Place /\ flock = p
  BY DEF KeyedInv, LockInv, LockRow, HasFile, PutRecord, IsAt, KeyedTypeOK, CallStates
<1>2. /\ keys' = keys /\ free' = free /\ UNCHANGED faults /\ UNCHANGED rlock
      /\ data' = IF n \in DOMAIN data THEN [data EXCEPT ![n] = rec] ELSE Append(data, rec)
  BY DEF PutRecord, NoFault
<1>3. rec \in Rec /\ rec # Deleted /\ rec.key = k
  BY <1>1, Records
<1>4. h \in Having /\ ~h.locked
  BY <1>1, <1>3, Bounds DEF Having, Place
<1>5. have' \in [Proc -> Having] /\ ~have'[p].locked /\ \A r \in Proc \ {p} : have'[r] = have[r]
  BY <1>1, <1>4, HasIt DEF PutRecord
<1>6. call' \in [Proc -> CallStates] /\ call'[p].at = "idle" /\ \A r \in Proc \ {p} : call'[r] = call[r]
  BY <1>1, ReturnsTo DEF PutRecord
<1>7. Fiofulk(p) /\ flock' = NoOne
  BY <1>1 DEF PutRecord, Fiofulk
<1> HIDE DEF h, rec, n, k
<1>8. /\ data' \in Seq(Rec) /\ Len(data') <= MaxPlace /\ Len(data') >= Len(data)
      /\ n <= Len(data) + 1 => \A q \in Place : RecordAt(q)' = IF q = n THEN rec ELSE RecordAt(q)
  BY <1>1, <1>2, <1>3, OneRecord
<1>9. Alone(p) /\ FilesOK /\ flock' # p
  BY <1>1, <1>2, <1>5, <1>6, <1>7, <1>8, FiofulkTo DEF Alone, FilesOK, KeyedTypeOK
<1>10. LockRow(p)'
  BY <1>2, <1>6, <1>9, RowOfReturn DEF KeyedInv
<1>11. ASSUME faults' = 0 PROVE FileInv' /\ Seen(p)' /\ OwnRecords(p)
  <2>1. FileInv
    BY <1>2, <1>11 DEF KeyedInv
  <2>2. ~IsFree(n) /\ RecordAt(n) = Deleted /\ n <= Len(data) + 1 /\ keys[k] = n
    BY <1>1, <2>1 DEF FileInv, n, k
  <2>3. \A q \in Place : RecordAt(q)' = IF q = n THEN rec ELSE RecordAt(q)
    BY <1>8, <2>2
  <2>4. FreeOnce' /\ \A q \in Place : IsFree(q)' <=> IsFree(q)
    BY <1>2, <2>1 DEF FileInv, FreeOnce, IsFree
  <2>5. \A q \in Place : ~Deleting(q) /\ \A l \in Key : Writing(l, q) => l = k /\ q = n
    BY <1>1 DEF Deleting, Writing, k, n
  <2>6. \A l \in Key, q \in Place : keys'[l] = q => RecordAt(q)' # Deleted /\ RecordAt(q)'.key = l
    BY <1>2, <1>3, <2>1, <2>2, <2>3, <2>5 DEF FileInv
  <2>7. \A q \in Place : RecordAt(q)' # Deleted => keys'[RecordAt(q)'.key] = q
    BY <1>2, <1>3, <2>1, <2>2, <2>3, <2>5 DEF FileInv
  <2>8. Len(data) \in Nat /\ Len(data') \in Nat
    BY <1>1, <1>8, LenProperties DEF KeyedTypeOK
  <2>9. \A q \in Place : IsFree(q)' => RecordAt(q)' = Deleted /\ q <= Len(data') + 1
    BY <1>8, <2>1, <2>2, <2>3, <2>4, <2>8, Bounds DEF FileInv, Place
  <2>10. FileInv'
    BY <1>7, <2>4, <2>6, <2>7, <2>9, Bounds DEF FileInv
  <2> QED BY <1>5, <1>6, <2>2, <2>3, <2>10 DEF Seen, OwnRecords
<1> QED BY <1>2, <1>9, <1>10, <1>11, KeyedStep

LEMMA UpdateKeeps == ASSUME KeyedInv, NEW p \in Proc, Update(p) PROVE KeyedInv'
<1> DEFINE n == have[p].place
           rec == Newer(have[p].rec)
           h == [have[p] EXCEPT !.rec = Newer(@), !.locked = p \in Server]
<1>1. /\ KeyedTypeOK /\ LockRow(p) /\ call[p].at = "idle" /\ have[p].locked
      /\ have[p] \in Having /\ have[p].rec \in Rec /\ have[p].rec # Deleted /\ n \in Place
  BY DEF KeyedInv, LockInv, Update, MayChange, IsIdle, KeyedTypeOK, Having
<1>2. /\ keys' = keys /\ free' = free /\ UNCHANGED flock /\ UNCHANGED call /\ UNCHANGED faults
      /\ data' = [data EXCEPT ![n] = rec]
  BY DEF Update, NoFault
<1>3. rec \in Rec /\ rec # Deleted /\ rec.key = have[p].rec.key /\ rec.key \in Key
  BY <1>1, Records
<1>4. h \in Having /\ h.place = n /\ h.rec = rec /\ (h.locked <=> p \in Server)
  <2> DEFINE l == p \in Server
  <2>1. l \in BOOLEAN
    OBVIOUS
  <2> HIDE DEF l, rec, n
  <2>2. [have[p] EXCEPT !.rec = rec, !.locked = l] \in Having
    BY <1>1, <1>3, <2>1 DEF Having, n
  <2>3. h = [have[p] EXCEPT !.rec = rec, !.locked = l]
    BY DEF l, rec
  <2> QED BY <1>1, <2>1, <2>2, <2>3 DEF Having, n, l
<1>5. have' \in [Proc -> Having] /\ have'[p] = h /\ \A r \in Proc \ {p} : have'[r] = have[r]
  BY <1>1, <1>4, HasIt DEF Update
<1>6. /\ rlock' \in [Place -> Proc \cup {NoOne}]
      /\ \A q \in Place : rlock'[q] = IF q = n /\ rlock[q] = p /\ p \notin Server THEN NoOne ELSE rlock[q]
  <2> DEFINE Q == IF p \in Server THEN {} ELSE {n}
  <2>1. Unlocks(p, Q) /\ \A q : q \in Q <=> q = n /\ p \notin Server
    BY DEF Update
  <2> HIDE DEF Q
  <2> QED BY <1>1, <2>1, UnlocksThem
<1> HIDE DEF h, rec, n
<1>7. data' \in Seq(Rec) /\ Len(data') = Len(data)
  BY <1>1, <1>2, <1>3, OneChange
<1>8. Alone(p) /\ FilesOK
  BY <1>1, <1>2, <1>5, <1>6, <1>7, Bounds DEF Alone, FilesOK, KeyedTypeOK
<1>9. flock' # p /\ LockRow(p)'
  BY <1>1, <1>2, <1>6, Bounds DEF LockRow, HasFile
<1>10. ASSUME faults' = 0 PROVE FileInv' /\ Seen(p)' /\ OwnRecords(p)
  <2>1. FileInv /\ Seen(p)
    BY <1>2, <1>10 DEF KeyedInv
  <2>2. rlock[n] = p /\ RecordAt(n) # Deleted /\ RecordAt(n).key = rec.key
    BY <1>1, <1>3, <2>1 DEF Seen, n
  <2>3. \A q \in Place : RecordAt(q)' = IF q = n THEN rec ELSE RecordAt(q)
    <3>1. n \in DOMAIN data
      BY <2>2 DEF RecordAt
    <3> QED BY <1>1, <1>2, <1>3, <3>1, OneChange
  <2>4. FreeOnce' /\ \A q \in Place : IsFree(q)' <=> IsFree(q)
    BY <1>2, <2>1 DEF FileInv, FreeOnce, IsFree
  <2>5. \A q \in Place : (Deleting(q)' <=> Deleting(q)) /\ \A l \in Key : Writing(l, q)' <=> Writing(l, q)
    BY <1>2 DEF Deleting, Writing
  <2>6. \A q \in Place : /\ RecordAt(q)' = Deleted <=> RecordAt(q) = Deleted
                         /\ RecordAt(q)' # Deleted => RecordAt(q)'.key = RecordAt(q).key
    BY <1>3, <2>2, <2>3
  <2>7. \A l \in Key, q \in Place : keys'[l] = q =>
          Writing(l, q)' \/ (RecordAt(q)' # Deleted /\ RecordAt(q)'.key = l)
    BY <1>2, <2>1, <2>5, <2>6 DEF FileInv
  <2>8. \A q \in Place : RecordAt(q)' # Deleted => keys'[RecordAt(q)'.key] = q \/ Deleting(q)'
    BY <1>2, <2>1, <2>5, <2>6 DEF FileInv
  <2>9. FileInv'
    BY <1>2, <1>7, <2>1, <2>4, <2>6, <2>7, <2>8 DEF FileInv
  <2>10. Seen(p)'
    BY <1>1, <1>2, <1>4, <1>5, <1>6, <2>2, <2>3 DEF Seen
  <2> QED BY <2>2, <2>3, <2>9, <2>10 DEF OwnRecords
<1> QED BY <1>2, <1>8, <1>9, <1>10, KeyedStep

LEMMA DeleteKeeps == ASSUME KeyedInv, NEW p \in Proc, Delete(p) PROVE KeyedInv'
<1> DEFINE k == have[p].rec.key
           n == keys[k]
           c == [Idle EXCEPT !.at = "delete", !.key = k, !.place = keys[k]]
<1>1. /\ KeyedTypeOK /\ LockRow(p) /\ call[p].at = "idle" /\ have[p].locked /\ flock = NoOne
      /\ have[p] \in Having /\ have[p].rec \in Rec /\ have[p].rec # Deleted /\ have[p].place \in Place
  BY DEF KeyedInv, LockInv, Delete, MayChange, IsIdle, KeyedTypeOK, Having
<1>2. /\ free' = free /\ data' = data /\ UNCHANGED rlock /\ UNCHANGED have /\ UNCHANGED faults
  BY DEF Delete, NoFault
<1>3. k \in Key
  BY <1>1, Records
<1>4. CASE k \in Indexed
  <2>1. keys' = [keys EXCEPT ![k] = 0] /\ Calls(p, c) /\ flock' = p
    BY <1>4 DEF Delete
  <2>2. n \in Place
    BY <1>1, <1>3, <1>4, Bounds DEF Indexed, KeyedTypeOK, Place
  <2>3. c \in CallStates /\ c.at = "delete" /\ c.key = k /\ c.place = n
    <3>1. k \in 0 .. Keys /\ n \in 0 .. MaxPlace /\ Idle \in Calling
      BY <1>3, <2>2, Bounds, IdleFields DEF Key, Place, CallStates
    <3> HIDE DEF k, n
    <3>2. [Idle EXCEPT !.at = "delete", !.key = k, !.place = n] \in Calling
      BY <3>1 DEF Calling
    <3>3. c = [Idle EXCEPT !.at = "delete", !.key = k, !.place = n]
      BY DEF k, n
    <3>4. c.at = "delete" /\ c.key = k /\ c.place = n
      BY <3>1, <3>3 DEF Calling
    <3> QED BY <1>3, <2>2, <3>2, <3>3, <3>4 DEF CallStates
  <2> HIDE DEF c, n, k
  <2>4. call' \in [Proc -> CallStates] /\ call'[p] = c /\ \A r \in Proc \ {p} : call'[r] = call[r]
    BY <1>1, <2>1, <2>3, CallsTo
  <2>5. keys' \in [Key -> 0 .. MaxPlace] /\ \A l \in Key : keys'[l] = IF l = k THEN 0 ELSE keys[l]
    BY <1>1, <1>3, <2>1, Bounds DEF KeyedTypeOK
  <2>6. Alone(p) /\ FilesOK
    BY <1>1, <1>2, <2>1, <2>4, <2>5, Bounds DEF Alone, FilesOK, KeyedTypeOK
  <2>7. LockRow(p)'
    BY <1>1, <1>2, <2>1, <2>3, <2>4 DEF LockRow, HasFile
  <2>8. ASSUME faults' = 0 PROVE FileInv' /\ Seen(p)' /\ OwnRecords(p)
    <3>1. FileInv /\ Seen(p)
      BY <1>2, <2>8 DEF KeyedInv
    <3>2. \A q \in Place : RecordAt(q)' = RecordAt(q) /\ (IsFree(q)' <=> IsFree(q))
      BY <1>2 DEF RecordAt, IsFree
    <3>3. FreeOnce'
      BY <1>2, <3>1 DEF FileInv, FreeOnce
    <3>4. \A q \in Place : ~Deleting(q) /\ \A l \in Key : ~Writing(l, q)
      BY <1>1 DEF Deleting, Writing
    <3>5. RecordAt(have[p].place) = have[p].rec
      BY <1>1, <3>1 DEF Seen
    <3>6. n = have[p].place
      BY <1>1, <3>1, <3>4, <3>5 DEF FileInv, n, k
    <3>7. \A q \in Place : q = n => Deleting(q)'
      BY <1>1, <2>1, <2>3, <2>4, Bounds DEF Deleting
    <3>8. \A l \in Key, q \in Place : keys'[l] = q => RecordAt(q)' # Deleted /\ RecordAt(q)'.key = l
      <4> SUFFICES ASSUME NEW l \in Key, NEW q \in Place, keys'[l] = q
                   PROVE  RecordAt(q) # Deleted /\ RecordAt(q).key = l
        BY <3>2
      <4>1. q # 0
        BY Bounds DEF Place
      <4>2. keys[l] = q
        BY <2>5, <4>1
      <4> QED BY <3>1, <3>4, <4>2 DEF FileInv
    <3>9. \A q \in Place : RecordAt(q)' # Deleted => keys'[RecordAt(q)'.key] = q \/ Deleting(q)'
      <4> SUFFICES ASSUME NEW q \in Place, RecordAt(q) # Deleted, q # n
                   PROVE  keys'[RecordAt(q).key] = q
        BY <3>2, <3>7
      <4>1. RecordAt(q).key \in Key
        BY <1>1, RecordAtType, Records
      <4>2. keys[RecordAt(q).key] = q
        BY <3>1, <3>4 DEF FileInv
      <4>3. RecordAt(q).key # k
        BY <4>2 DEF n
      <4> QED BY <2>5, <4>1, <4>2, <4>3
    <3>10. keys'[k] = 0 /\ \A q \in Place : q = n => RecordAt(q)' # Deleted /\ RecordAt(q)'.key = k
      BY <1>1, <1>3, <2>5, <3>2, <3>5, <3>6 DEF k
    <3>11. FileInv'
      BY <1>2, <2>1, <2>3, <2>4, <3>1, <3>2, <3>3, <3>8, <3>9, <3>10 DEF FileInv
    <3>12. Seen(p)'
      BY <1>1, <1>2, <2>3, <2>4, <3>1, <3>2, <3>6 DEF Seen
    <3> QED BY <3>2, <3>11, <3>12 DEF OwnRecords
  <2> QED BY <1>2, <2>6, <2>7, <2>8, KeyedStep
<1>5. CASE k \notin Indexed
  <2>1. UNCHANGED keys /\ UNCHANGED call /\ UNCHANGED flock
    BY <1>5 DEF Delete
  <2>2. Alone(p) /\ FilesOK
    BY <1>1, <1>2, <2>1 DEF Alone, FilesOK, KeyedTypeOK
  <2>3. flock' # p /\ LockRow(p)'
    BY <1>1, <1>2, <2>1, Bounds DEF LockRow, HasFile
  <2>4. ASSUME faults' = 0 PROVE FileInv' /\ Seen(p)' /\ OwnRecords(p)
    <3>1. FileInv /\ Seen(p)
      BY <1>2, <2>4 DEF KeyedInv
    <3>2. FileInv' /\ OwnRecords(p)
      BY <1>1, <1>2, <2>1, <2>2, <2>3, <3>1, QuietStep DEF KeyedInv, files
    <3>3. \A q \in Place : RecordAt(q)' = RecordAt(q)
      BY <1>2 DEF RecordAt
    <3> QED BY <1>2, <2>1, <3>1, <3>2, <3>3 DEF Seen
  <2> QED BY <1>2, <2>2, <2>3, <2>4, KeyedStep
<1> QED BY <1>4, <1>5

LEMMA DeleteRecordKeeps == ASSUME KeyedInv, NEW p \in Proc, DeleteRecord(p) PROVE KeyedInv'
<1> DEFINE k == call[p].key
           n == call[p].place
           Q == {n}
<1>1. /\ KeyedTypeOK /\ LockRow(p) /\ call[p].at = "delete" /\ k \in Key /\ n \in Place /\ flock = p
  BY DEF KeyedInv, LockInv, LockRow, HasFile, DeleteRecord, IsAt, KeyedTypeOK, CallStates
<1>2. /\ keys' = keys /\ free' = free /\ UNCHANGED faults /\ Has(p, Nothing) /\ Unlocks(p, Q)
      /\ IF Exists(n) THEN data' = [data EXCEPT ![n] = Deleted] /\ Goes(p, "give") /\ UNCHANGED flock
                      ELSE Returns(p) /\ Fiofulk(p) /\ UNCHANGED data
  BY DEF DeleteRecord, NoFault
<1> HIDE DEF Q
<1>3. have' \in [Proc -> Having] /\ ~have'[p].locked /\ \A r \in Proc \ {p} : have'[r] = have[r]
  BY <1>1, <1>2, HasIt, NothingFields
<1>4. /\ rlock' \in [Place -> Proc \cup {NoOne}]
      /\ \A q \in Place : rlock'[q] = IF q = n /\ rlock[q] = p THEN NoOne ELSE rlock[q]
  BY <1>1, <1>2, UnlocksThem DEF Q
<1>5. CASE Exists(n)
  <2>1. /\ call' \in [Proc -> CallStates] /\ \A r \in Proc \ {p} : call'[r] = call[r]
        /\ call'[p].at = "give" /\ call'[p].place = n
    BY <1>1, <1>2, <1>5, GoesTo
  <2>2. flock' = p /\ data' = [data EXCEPT ![n] = Deleted] /\ n \in DOMAIN data
    BY <1>1, <1>2, <1>5 DEF Exists
  <2> HIDE DEF n, k
  <2>3. /\ data' \in Seq(Rec) /\ Len(data') = Len(data)
        /\ \A q \in Place : RecordAt(q)' = IF q = n THEN Deleted ELSE RecordAt(q)
    BY <1>1, <2>2, Records, OneChange
  <2>4. Alone(p) /\ FilesOK
    BY <1>1, <1>2, <1>3, <1>4, <2>1, <2>2, <2>3, Bounds DEF Alone, FilesOK, KeyedTypeOK
  <2>5. LockRow(p)'
    BY <1>1, <1>4, <2>1, <2>2, Bounds DEF LockRow, HasFile
  <2>6. ASSUME faults' = 0 PROVE FileInv' /\ Seen(p)' /\ OwnRecords(p)
    <3>1. FileInv /\ Seen(p)
      BY <1>2, <2>6 DEF KeyedInv
    <3>2. RecordAt(n) # Deleted /\ RecordAt(n).key = k /\ keys[k] = 0
      BY <1>1, <3>1 DEF FileInv, n, k
    <3>3. rlock[n] = p
      BY <1>1, <3>1 DEF Seen, n
    <3>4. FreeOnce' /\ \A q \in Place : IsFree(q)' <=> IsFree(q)
      BY <1>2, <3>1 DEF FileInv, FreeOnce, IsFree
    <3>5. \A q \in Place : (Deleting(q) => q = n) /\ \A l \in Key : ~Writing(l, q)
      BY <1>1 DEF Deleting, Writing, n
    <3>6. \A l \in Key, q \in Place : keys'[l] = q => RecordAt(q)' # Deleted /\ RecordAt(q)'.key = l
      <4> SUFFICES ASSUME NEW l \in Key, NEW q \in Place, keys[l] = q
                   PROVE  q # n /\ RecordAt(q) # Deleted /\ RecordAt(q).key = l
        BY <1>2, <2>3
      <4>1. RecordAt(q) # Deleted /\ RecordAt(q).key = l /\ q # 0
        BY <3>1, <3>5, Bounds DEF FileInv, Place
      <4> QED BY <3>2, <4>1
    <3>7. \A q \in Place : RecordAt(q)' # Deleted => keys'[RecordAt(q)'.key] = q
      BY <1>2, <2>3, <3>1, <3>5 DEF FileInv
    <3>8. n <= Len(data) + 1 /\ ~IsFree(n)
      <4>1. n <= Len(data) + 1
        BY <1>1, <2>2, LenProperties DEF KeyedTypeOK
      <4> QED BY <1>1, <3>1, <3>2, <4>1 DEF FileInv
    <3>9. FileInv'
      BY <1>2, <2>1, <2>2, <2>3, <3>1, <3>4, <3>6, <3>7, <3>8 DEF FileInv
    <3> QED BY <1>3, <2>1, <2>3, <3>3, <3>9 DEF Seen, OwnRecords
  <2> QED BY <1>2, <2>4, <2>5, <2>6, KeyedStep
<1>6. CASE ~Exists(n)
  <2>1. Returns(p) /\ Fiofulk(p) /\ UNCHANGED data
    BY <1>2, <1>6
  <2>2. call' \in [Proc -> CallStates] /\ call'[p].at = "idle" /\ \A r \in Proc \ {p} : call'[r] = call[r]
    BY <1>1, <2>1, ReturnsTo
  <2>3. Alone(p) /\ FilesOK /\ flock' # p
    BY <1>1, <1>2, <1>3, <1>4, <2>1, <2>2, FiofulkTo, Bounds DEF Alone, FilesOK, KeyedTypeOK
  <2>4. LockRow(p)'
    BY <1>4, <2>2, <2>3, RowOfReturn, Bounds DEF KeyedInv
  <2>5. faults # 0
    <3>1. FileInv => RecordAt(n) # Deleted
      BY <1>1 DEF FileInv
    <3> QED BY <1>1, <1>6, <3>1, RecordAtType DEF KeyedInv
  <2> QED BY <1>2, <2>3, <2>4, <2>5, KeyedStep
<1> QED BY <1>5, <1>6

LEMMA GivePlaceKeeps == ASSUME KeyedInv, NEW p \in Proc, GivePlace(p) PROVE KeyedInv'
<1> DEFINE n == call[p].place
<1>1. KeyedTypeOK /\ LockRow(p) /\ call[p].at = "give" /\ n \in Place /\ flock = p
  BY DEF KeyedInv, LockInv, LockRow, HasFile, GivePlace, IsAt, KeyedTypeOK, CallStates
<1>2. /\ keys' = keys /\ data' = data /\ UNCHANGED faults /\ UNCHANGED rlock /\ UNCHANGED have
      /\ free' = Append(free, n)
  BY DEF GivePlace, NoFault
<1>3. call' \in [Proc -> CallStates] /\ call'[p].at = "idle" /\ \A r \in Proc \ {p} : call'[r] = call[r]
  BY <1>1, ReturnsTo DEF GivePlace
<1>4. Fiofulk(p) /\ flock' = NoOne
  BY <1>1 DEF GivePlace, Fiofulk
<1> HIDE DEF n
<1>5. /\ free' \in Seq(Place)
      /\ \A q \in Place : IsFree(q)' <=> IsFree(q) \/ q = n
      /\ FreeOnce /\ ~IsFree(n) => FreeOnce'
  BY <1>1, <1>2, GivesPlace
<1>6. Alone(p) /\ FilesOK /\ flock' # p
  BY <1>1, <1>2, <1>3, <1>4, <1>5, FiofulkTo DEF Alone, FilesOK, KeyedTypeOK
<1>7. LockRow(p)'
  BY <1>2, <1>3, <1>6, RowOfReturn DEF KeyedInv
<1>8. ASSUME faults' = 0 PROVE FileInv' /\ Seen(p)' /\ OwnRecords(p)
  <2>1. FileInv /\ Seen(p)
    BY <1>2, <1>8 DEF KeyedInv
  <2>2. ~IsFree(n) /\ RecordAt(n) = Deleted /\ n <= Len(data) + 1
    BY <1>1, <2>1 DEF FileInv, n
  <2>3. \A q \in Place : RecordAt(q)' = RecordAt(q)
    BY <1>2 DEF RecordAt
  <2>4. \A q \in Place : ~Deleting(q) /\ \A l \in Key : ~Writing(l, q)
    BY <1>1 DEF Deleting, Writing
  <2>5. \A l \in Key, q \in Place : keys'[l] = q => RecordAt(q)' # Deleted /\ RecordAt(q)'.key = l
    BY <1>2, <2>1, <2>3, <2>4 DEF FileInv
  <2>6. \A q \in Place : RecordAt(q)' # Deleted => keys'[RecordAt(q)'.key] = q
    BY <1>2, <2>1, <2>3, <2>4 DEF FileInv
  <2>7. FileInv'
    BY <1>2, <1>4, <1>5, <2>1, <2>2, <2>3, <2>5, <2>6, Bounds DEF FileInv
  <2>8. ~have'[p].locked
    BY <1>1, <1>2, <2>1 DEF Seen
  <2> QED BY <1>3, <2>3, <2>7, <2>8 DEF Seen, OwnRecords
<1> QED BY <1>2, <1>6, <1>7, <1>8, KeyedStep

-----------------------------------------------------------------------------
LEMMA KeyedInit == Init => KeyedInv
<1> SUFFICES ASSUME Init PROVE KeyedInv
  OBVIOUS
<1>1. /\ free = <<>> /\ data = <<>> /\ Len(data) = 0 /\ DOMAIN data = {} /\ DOMAIN free = {}
      /\ free \in Seq(Place) /\ data \in Seq(Rec)
  BY DEF Init
<1>2. KeyedTypeOK
  BY <1>1, Bounds, IdleFields, NothingFields DEF Init, KeyedTypeOK
<1>3. ASSUME NEW p \in Proc
      PROVE  call[p].at = "idle" /\ ~have[p].locked /\ flock # p /\ \A q \in Place : rlock[q] # p
  BY Bounds, IdleFields, NothingFields DEF Init
<1>4. \A p \in Proc : LockRow(p) /\ Seen(p)
  BY <1>3 DEF LockRow, HasFile, Seen
<1>5. /\ \A q : RecordAt(q) = Deleted /\ ~IsFree(q)
      /\ FreeOnce
      /\ \A k \in Key, q \in Place : keys[k] # q
  BY <1>1, Bounds DEF RecordAt, IsFree, FreeOnce, Init, Place
<1>6. FileInv
  BY <1>3, <1>5 DEF FileInv
<1> QED BY <1>2, <1>4, <1>6 DEF KeyedInv, LockInv

LEMMA KeyedNext == KeyedInv /\ [Next]_kvars => KeyedInv'
<1> SUFFICES ASSUME KeyedInv, [Next]_kvars PROVE KeyedInv'
  OBVIOUS
<1>1. CASE UNCHANGED kvars
  BY <1>1 DEF kvars, KeyedInv, LockInv, KeyedTypeOK, LockRow, HasFile, FileInv, Seen, FreeOnce, IsFree,
     RecordAt, Writing, Deleting
<1>2. ASSUME NEW p \in Proc, NEW lock \in BOOLEAN, NEW k \in Key, ReadKey(p, k, lock) PROVE KeyedInv'
  BY <1>2, ReadsKeeps DEF ReadKey
<1>3. ASSUME NEW p \in Proc, NEW lock \in BOOLEAN, NEW by \in {"next", "prev"}, ReadNext(p, by, lock)
      PROVE  KeyedInv'
  BY <1>3, ReadsKeeps DEF ReadNext
<1>4. ASSUME NEW p \in Proc,
             \/ LockRecord(p) \/ LockRefused(p) \/ GetRecord(p) \/ RecordGone(p) \/ ReadAgain(p)
             \/ \E k \in Key : WriteKey(p, k)
             \/ InsertKey(p) \/ InsertRefused(p) \/ PutRecord(p) \/ WriteFails(p)
             \/ Update(p) \/ Unlock(p)
             \/ Delete(p) \/ DeleteRecord(p) \/ DeleteFails(p) \/ GivePlace(p)
             \/ Crash(p)
      PROVE  KeyedInv'
  BY <1>4, LockRecordKeeps, LockRefusedKeeps, GetRecordKeeps, RecordGoneKeeps, ReadAgainKeeps,
     WriteKeyKeeps, InsertKeyKeeps, InsertRefusedKeeps, PutRecordKeeps, WriteFailsKeeps, UpdateKeeps,
     UnlockKeeps, DeleteKeeps, DeleteRecordKeeps, DeleteFailsKeeps, GivePlaceKeeps, CrashKeeps
<1> QED BY <1>1, <1>2, <1>3, <1>4 DEF Next

LEMMA KeyedInvariant == Spec => []KeyedInv
BY KeyedInit, KeyedNext, PTL DEF Spec

-----------------------------------------------------------------------------
\* No call leaves a lock behind, whatever fails or dies: the file lock is that
\* of a call, and a process has the lock of one record at most (filereadkey 493-
\* 507, filewritekey 930, filedelete 1108).
THEOREM CallsLeaveNoLock == Spec => []NoLockLeft
<1>1. KeyedInv => NoLockLeft
  <2> SUFFICES ASSUME KeyedInv, NEW p \in Proc
               PROVE  /\ flock = p => ~IsIdle(p)
                      /\ \A q, r \in Place : rlock[q] = p /\ rlock[r] = p => q = r
    BY DEF NoLockLeft
  <2>1. LockRow(p)
    BY DEF KeyedInv, LockInv
  <2> QED BY <2>1 DEF LockRow, HasFile, IsIdle
<1> QED BY <1>1, KeyedInvariant, PTL

\* Until something fails every key is that of a record and every record has its
\* key whenever no call changes the file (filewritekey 875-927, filedelete
\* 1055-1086).
THEOREM KeysAndRecordsAgree == Spec => []KeysHaveRecords
<1>1. KeyedInv => KeysHaveRecords
  <2> SUFFICES ASSUME KeyedInv, faults = 0, flock = NoOne
               PROVE  /\ \A k \in Indexed : Exists(keys[k]) /\ data[keys[k]].key = k
                      /\ \A q \in DOMAIN data : Exists(q) => keys[data[q].key] = q
    BY DEF KeysHaveRecords
  <2>1. KeyedTypeOK /\ FileInv
    BY DEF KeyedInv, LockInv
  <2>2. \A q \in Place : ~Deleting(q) /\ \A k \in Key : ~Writing(k, q)
    BY DEF Deleting, Writing
  <2>3. ASSUME NEW k \in Indexed PROVE Exists(keys[k]) /\ data[keys[k]].key = k
    <3>1. k \in Key /\ keys[k] \in Place
      BY <2>1, Bounds DEF Indexed, KeyedTypeOK, Place
    <3>2. RecordAt(keys[k]) # Deleted /\ RecordAt(keys[k]).key = k
      BY <2>1, <2>2, <3>1 DEF FileInv
    <3> QED BY <2>1, <3>2, RecordAtType DEF Exists, RecordAt
  <2>4. ASSUME NEW q \in DOMAIN data, Exists(q) PROVE keys[data[q].key] = q
    <3>1. q \in Place
      BY <2>1, LenProperties, Bounds DEF KeyedTypeOK, Place
    <3>2. RecordAt(q) = data[q] /\ RecordAt(q) # Deleted
      BY <2>4 DEF RecordAt, Exists
    <3> QED BY <2>1, <2>2, <3>1, <3>2 DEF FileInv
  <2> QED BY <2>3, <2>4
<1> QED BY <1>1, KeyedInvariant, PTL

\* A read that was asked for a key answers the record of this key, but for one
\* that locks the record and finds the key moved (filereadkey 463-497).
THEOREM ReadsAnswerTheKey == Spec => ReadsTheKey
<1>1. KeyedInv => \A p \in Proc : faults = 0 /\ GetRecord(p) =>
        have'[p].rec.key = call[p].key \/ (call[p].lock /\ keys[call[p].key] # call[p].place)
  <2> SUFFICES ASSUME KeyedInv, NEW p \in Proc, faults = 0, GetRecord(p),
                      ~(call[p].lock /\ keys[call[p].key] # call[p].place)
               PROVE  have'[p].rec.key = call[p].key
    OBVIOUS
  <2> DEFINE n == call[p].place
             h == [place |-> n, rec |-> data[n], locked |-> call[p].lock]
  <2>1. /\ KeyedTypeOK /\ FileInv /\ LockRow(p) /\ call[p].at = "get" /\ call[p].lock \in BOOLEAN
        /\ n \in Place /\ call[p].key \in Key /\ Exists(n)
    BY DEF KeyedInv, LockInv, GetRecord, IsAt, KeyedTypeOK, CallStates, Calling
  <2>2. keys[call[p].key] = n
    <3>1. CASE call[p].lock
      BY <3>1
    <3>2. CASE ~call[p].lock
      BY <2>1, <3>2 DEF LockRow, HasFile, FileInv
    <3> QED BY <3>1, <3>2
  <2>3. RecordAt(n) # Deleted /\ RecordAt(n) = data[n]
    BY <2>1, RecordAtType DEF RecordAt, Exists
  <2>4. ~Writing(call[p].key, n)
    <3> SUFFICES ASSUME Writing(call[p].key, n) PROVE FALSE
      OBVIOUS
    <3>1. flock \in Proc /\ call[flock].at = "put" /\ call[flock].place = n
      BY <2>1 DEF Writing, KeyedTypeOK
    <3> QED BY <2>1, <2>3, <3>1 DEF FileInv
  <2>5. data[n].key = call[p].key
    BY <2>1, <2>2, <2>3, <2>4 DEF FileInv
  <2>6. have'[p] = h
    BY <2>1 DEF GetRecord, Has, KeyedTypeOK
  <2> QED BY <2>5, <2>6
<1> QED BY <1>1, KeyedInvariant, PTL DEF ReadsTheKey

\* Until something fails no update overwrites a change that its program has not
\* seen (readrec 661-671).
THEOREM UpdatesSeeTheRecord == Spec => NoUpdateLost
<1>1. KeyedInv => \A p \in Proc : faults = 0 /\ Update(p) => data[have[p].place] = have[p].rec
  <2> SUFFICES ASSUME KeyedInv, NEW p \in Proc, faults = 0, Update(p)
               PROVE  data[have[p].place] = have[p].rec
    OBVIOUS
  <2>1. have[p].locked /\ have[p] \in Having /\ Seen(p)
    BY DEF KeyedInv, LockInv, KeyedTypeOK, Update, MayChange
  <2>2. RecordAt(have[p].place) = have[p].rec /\ have[p].rec # Deleted
    BY <2>1 DEF Seen, Having
  <2> QED BY <2>2 DEF RecordAt
<1> QED BY <1>1, KeyedInvariant, PTL DEF NoUpdateLost
=============================================================================
