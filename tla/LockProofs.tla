----------------------------- MODULE LockProofs -----------------------------
(***************************************************************************)
(* Proofs about FileLock, for every number of processes, files, handles    *)
(* and records, and then about Filepi, which extends it: its programs use  *)
(* FileLock as it may be used, the locks of filepi do not outlive the      *)
(* section, its count is not lost, and programs that lock their files in   *)
(* the order of their numbers never wait in a circle.                      *)
(***************************************************************************)
EXTENDS Filepi, FiniteSetTheorems, WellFoundedInduction, TLAPS

USE FileLockAssumption DEF NULL, FLLCK, table

(***************************************************************************)
(* Types.                                                                  *)
(***************************************************************************)
LockTypes == oslk \in [Proc -> [Ranges -> LockKind]] /\ sem \in [File -> Nat]

LEMMA CallType ==
  ASSUME TypeOK, NEW p \in Proc
  PROVE  call[p].op \in Op /\ call[p].fns \subseteq Handle /\ call[p].pos \in Byte
<1>1. call[p] \in [op : Op, fns : SUBSET Handle, pos : Byte]
  BY DEF TypeOK
<1> QED BY <1>1

\* What a process keeps after some unlocks and closes is still a lock table.
LEMMA WithoutType ==
  ASSUME TypeOK, NEW p \in Proc, NEW B, NEW F
  PROVE  LocksWithout(p, B, F) \in [Ranges -> LockKind]
BY DEF TypeOK, LocksWithout, LockKind

LEMMA ReleaseType ==
  ASSUME TypeOK, NEW p \in Proc, NEW B, NEW F, Release(p, B, F)
  PROVE  LockTypes'
BY WithoutType DEF TypeOK, Release, LockTypes

LEMMA AcquireType ==
  ASSUME TypeOK, NEW p \in Proc, NEW f \in File, NEW b \in Byte, NEW V,
         Acquire(p, f, b, V)
  PROVE  LockTypes'
<1>1. KindOf(p, f, b) \in LockKind /\ <<f, b>> \in Ranges
  BY DEF KindOf, LockKind, Ranges
<1>2. oslk' \in [Proc -> [Ranges -> LockKind]]
  BY <1>1, WithoutType DEF TypeOK, Acquire
<1>3. sem' \in [File -> Nat]
  BY DEF TypeOK, Acquire, CanLock
<1> QED BY <1>2, <1>3 DEF LockTypes

LEMMA UnlockHighType ==
  ASSUME TypeOK, NEW p \in Proc, NEW F, UnlockHigh(p, F)
  PROVE  LockTypes' /\ lckflg' \in [Proc -> [File -> SUBSET LockFlag]]
BY ReleaseType DEF TypeOK, UnlockHigh

LEMMA CloseWithLocksType ==
  ASSUME TypeOK, NEW p \in Proc, NEW F, CloseWithLocks(p, F)
  PROVE  /\ LockTypes'
         /\ lckflg' \in [Proc -> [File -> SUBSET LockFlag]]
         /\ plist' \in [Proc -> SUBSET (File \X Pos \X Handle)]
BY ReleaseType DEF TypeOK, CloseWithLocks

LEMMA TypeStep == TypeOK /\ HandlesInUse /\ [Next]_vars => TypeOK'
<1> SUFFICES ASSUME TypeOK, HandlesInUse, [Next]_vars PROVE TypeOK'
  OBVIOUS
<1> USE DEF TypeOK, LockTypes
<1>1. ASSUME NEW p \in Proc, NEW n \in Handle, NEW f \in File, NEW m \in OpenMode,
             Open(p, n, f, m)
      PROVE  TypeOK'
  <2>1. LockTypes' /\ hopen' \in [Proc -> SUBSET File]
    BY <1>1, ReleaseType DEF Open
  <2>2. mode' \in [Proc -> [File -> Mode \cup {"none"}]]
    BY <1>1 DEF Open
  <2>3. ftab' \in [Proc -> [Handle -> File \cup {NULL}]]
    BY <1>1 DEF Open
  <2> QED BY <1>1, <2>1, <2>2, <2>3 DEF Open
<1>2. ASSUME NEW p \in Proc, NEW n \in Handle, Close(p, n)
      PROVE  TypeOK'
  <2>1. ftab[p][n] \in File
    BY <1>2 DEF Close
  <2>2. LockTypes'
    BY <1>2, ReleaseType DEF Close
  <2>3. plist' \in [Proc -> SUBSET (File \X Pos \X Handle)]
    BY <1>2 DEF Close
  <2>4. ftab' \in [Proc -> [Handle -> File \cup {NULL}]]
    BY <1>2 DEF Close
  <2>5. /\ mode' \in [Proc -> [File -> Mode \cup {"none"}]]
        /\ hopen' \in [Proc -> SUBSET File]
        /\ lckflg' \in [Proc -> [File -> SUBSET LockFlag]]
    <3>1. CASE LastHandle(p, n)
      <4>1. /\ mode' = [mode EXCEPT ![p][ftab[p][n]] = "none"]
            /\ hopen' = [hopen EXCEPT ![p] = @ \ {ftab[p][n]}]
            /\ lckflg' = [lckflg EXCEPT ![p][ftab[p][n]] = {}]
        BY <1>2, <3>1 DEF Close
      <4> QED BY <4>1, <2>1
    <3>2. CASE ~LastHandle(p, n)
      BY <1>2, <3>2 DEF Close
    <3> QED BY <3>1, <3>2
  <2>6. call' = call
    BY <1>2 DEF Close
  <2> QED BY <2>2, <2>3, <2>4, <2>5, <2>6
<1>3. ASSUME NEW p \in Proc, NEW L \in SUBSET Handle, FiolockCall(p, L)
      PROVE  TypeOK'
  <2>1. LockTypes' /\ lckflg' \in [Proc -> [File -> SUBSET LockFlag]]
    <3>1. CASE \E n \in L : ftab[p][n] = NULL
      BY <1>3, <3>1, UnlockHighType DEF FiolockCall
    <3>2. CASE ~ \E n \in L : ftab[p][n] = NULL
      <4>1. /\ UNCHANGED <<oslk, sem>>
            /\ lckflg' = [lckflg EXCEPT ![p] = lckflg'[p]]
            /\ lckflg'[p] = [f \in File |->
                 IF (\E n \in L : ftab[p][n] = f) /\ Shared(p, f) /\ "LLK" \in lckflg[p][f]
                 THEN {"HLK"} ELSE lckflg[p][f]]
        <5>1. lckflg' = [lckflg EXCEPT ![p] =
                [f \in File |->
                   IF (\E n \in L : ftab[p][n] = f) /\ Shared(p, f) /\ "LLK" \in @[f]
                   THEN {"HLK"} ELSE @[f]]]
          BY <1>3, <3>2 DEF FiolockCall
        <5>2. UNCHANGED <<oslk, sem>>
          BY <1>3, <3>2 DEF FiolockCall
        <5> QED BY <5>1, <5>2
      <4>2. lckflg'[p] \in [File -> SUBSET LockFlag]
        BY <4>1 DEF LockFlag
      <4> QED BY <4>1, <4>2
    <3> QED BY <3>1, <3>2
  <2>2. call' \in [Proc -> [op : Op, fns : SUBSET Handle, pos : Byte]]
    <3>1. [op |-> "fiolock", fns |-> L, pos |-> FLLCK]
            \in [op : Op, fns : SUBSET Handle, pos : Byte]
      BY DEF Op, Byte
    <3> QED BY <1>3, <3>1, ZenonT(60) DEF FiolockCall
  <2> QED BY <1>3, <2>1, <2>2 DEF FiolockCall
<1>4. ASSUME NEW p \in Proc, FiolockGrant(p)
      PROVE  TypeOK'
  BY <1>4, AcquireType DEF FiolockGrant, LockFlag, Byte
<1>5. ASSUME NEW p \in Proc, FiolockReturn(p)
      PROVE  TypeOK'
  BY <1>5 DEF FiolockReturn, Idle, Op, Byte
<1>6. ASSUME NEW p \in Proc, NEW F, Fiounlock(p, F)
      PROVE  TypeOK'
  BY <1>6, UnlockHighType DEF Fiounlock
<1>7. ASSUME NEW p \in Proc, NEW n \in Handle, FioflckCall(p, n)
      PROVE  TypeOK'
  BY <1>7 DEF FioflckCall, Op, Byte
<1>8. ASSUME NEW p \in Proc, FioflckGrant(p)
      PROVE  TypeOK'
  <2>1. PICK n \in call[p].fns, V \in SUBSET hopen[p] :
          /\ Acquire(p, ftab[p][n], FLLCK, V)
          /\ hopen' = [hopen EXCEPT ![p] = (@ \ V) \cup {ftab[p][n]}]
          /\ lckflg' = [lckflg EXCEPT ![p][ftab[p][n]] = @ \cup {"LLK"}]
    BY <1>8 DEF FioflckGrant
  <2>2. ftab[p][n] \in File
    <3>1. call[p].op = "fioflck" /\ call[p].fns \subseteq Handle
      BY <1>8, CallType DEF FioflckGrant
    <3>2. ftab[p][n] # NULL
      BY <3>1, <2>1 DEF HandlesInUse, CallReady
    <3> QED BY <3>1, <3>2, <2>1
  <2>3. LockTypes'
    BY <2>1, <2>2, AcquireType DEF Byte
  <2>4. /\ hopen' \in [Proc -> SUBSET File]
        /\ lckflg' \in [Proc -> [File -> SUBSET LockFlag]]
    BY <2>1, <2>2, ZenonT(60) DEF LockFlag
  <2>5. call' \in [Proc -> [op : Op, fns : SUBSET Handle, pos : Byte]]
    BY <1>8 DEF FioflckGrant, Idle, Op, Byte
  <2> QED BY <1>8, <2>3, <2>4, <2>5 DEF FioflckGrant
<1>9. ASSUME NEW p \in Proc, NEW n \in Handle, Fiofulk(p, n)
      PROVE  TypeOK'
  <2>1. ftab[p][n] \in File
    BY <1>9 DEF Fiofulk
  <2>2. LockTypes'
    BY <1>9, ReleaseType DEF Fiofulk
  <2> QED BY <1>9, <2>1, <2>2, ZenonT(60) DEF Fiofulk
<1>10. ASSUME NEW p \in Proc, NEW n \in Handle, NEW r \in Pos, NEW op \in Op,
              FiolckposCall(p, n, r, op)
       PROVE  TypeOK'
  BY <1>10 DEF FiolckposCall, Byte
<1>11. ASSUME NEW p \in Proc, FiolckposGrant(p)
       PROVE  TypeOK'
  <2>1. PICK n \in call[p].fns, V \in SUBSET hopen[p] :
          /\ Acquire(p, ftab[p][n], call[p].pos, V)
          /\ hopen' = [hopen EXCEPT ![p] = (@ \ V) \cup {ftab[p][n]}]
          /\ plist' = [plist EXCEPT ![p] = @ \cup {<<ftab[p][n], call[p].pos, n>>}]
    BY <1>11 DEF FiolckposGrant
  <2>2. ftab[p][n] \in File /\ call[p].pos \in Pos /\ n \in Handle
    <3>1. call[p].op \in {"fiolckpos", "fiotstpos"} /\ call[p].fns \subseteq Handle
      BY <1>11, CallType DEF FiolckposGrant
    <3>2. ftab[p][n] # NULL /\ call[p].pos \in Pos
      BY <3>1, <2>1 DEF HandlesInUse, CallReady
    <3> QED BY <3>1, <3>2, <2>1
  <2>3. LockTypes'
    BY <2>1, <2>2, AcquireType DEF Byte
  <2>4. /\ hopen' \in [Proc -> SUBSET File]
        /\ plist' \in [Proc -> SUBSET (File \X Pos \X Handle)]
    BY <2>1, <2>2
  <2>5. call' \in [Proc -> [op : Op, fns : SUBSET Handle, pos : Byte]]
    BY <1>11 DEF FiolckposGrant, Idle, Op, Byte
  <2> QED BY <1>11, <2>3, <2>4, <2>5 DEF FiolckposGrant
<1>12. ASSUME NEW p \in Proc, NEW n \in Handle, NEW R, Fioulkpos(p, n, R)
       PROVE  TypeOK'
  BY <1>12, ReleaseType DEF Fioulkpos
<1>13. ASSUME NEW p \in Proc, Refused(p)
       PROVE  TypeOK'
  BY <1>13, UnlockHighType DEF Refused, Idle, Op, Byte
<1>14. ASSUME NEW p \in Proc, Fioclru(p)
       PROVE  TypeOK'
  BY <1>14, ReleaseType DEF Fioclru
<1>15. ASSUME NEW p \in Proc, Rollout(p)
       PROVE  TypeOK'
  BY <1>15, CloseWithLocksType DEF Rollout
<1>16. ASSUME NEW p \in Proc, NEW f \in File, FlushFails(p, f)
       PROVE  TypeOK'
  <2>1. hopen' \in [Proc -> SUBSET File]
    BY <1>16, SMTT(30) DEF FlushFails
  <2> QED BY <1>16, <2>1, CloseWithLocksType DEF FlushFails
<1>17. ASSUME NEW p \in Proc, Crash(p)
       PROVE  TypeOK'
  BY <1>17, ReleaseType DEF Crash, Idle, Op, Byte, Mode
<1>18. CASE UNCHANGED vars
  BY <1>18 DEF vars
<1> QED
  BY <1>1, <1>2, <1>3, <1>4, <1>5, <1>6, <1>7, <1>8, <1>9, <1>10, <1>11, <1>12,
     <1>13, <1>14, <1>15, <1>16, <1>17, <1>18
  DEF Next, Opens, Closes, FileCall, FileGrant, FileRelease, RecordCall,
      RecordRelease, Loses

(***************************************************************************)
(* The kernel: giving locks back cannot break its exclusion, and it grants *)
(* nothing that would.                                                     *)
(***************************************************************************)
LEMMA ReleaseKernel ==
  ASSUME LockInv, NEW p \in Proc, NEW B, NEW F, Release(p, B, F),
         \A f \in File : <<f, FLLCK>> \in B => lckflg[p][f] # {}
  PROVE  KernelExcludes' /\ SemaphoreCount'
<1>1. /\ \A q \in Proc \ {p} : oslk'[q] = oslk[q]
      /\ \A x \in Ranges : oslk'[p][x] \in {oslk[p][x], "none"}
  BY DEF LockInv, TypeOK, Release, LocksWithout
<1>2. KernelExcludes'
  BY <1>1 DEF LockInv, KernelExcludes
<1>3. ASSUME NEW f \in File
      PROVE  sem'[f] = IF \E q \in Proc : oslk'[q][<<f, FLLCK>>] = "sem" THEN 0 ELSE 1
  <2>1. <<f, FLLCK>> \in Ranges
    BY DEF Ranges, Byte
  <2>2. oslk[p][<<f, FLLCK>>] = IF lckflg[p][f] = {} THEN "none" ELSE KindOf(p, f, FLLCK)
    BY DEF LockInv, RowInv, Agrees
  <2>3. sem[f] = IF \E q \in Proc : oslk[q][<<f, FLLCK>>] = "sem" THEN 0 ELSE 1
    BY DEF LockInv, SemaphoreCount
  <2>4. CASE <<f, FLLCK>> \in B /\ UsesSem(p, f, FLLCK)
    <3>1. oslk[p][<<f, FLLCK>>] = "sem"
      BY <2>2, <2>4 DEF KindOf
    <3>2. oslk'[p][<<f, FLLCK>>] = "none"
      BY <2>1, <2>4 DEF LockInv, TypeOK, Release, LocksWithout
    <3>3. \A q \in Proc : oslk'[q][<<f, FLLCK>>] # "sem"
      BY <1>1, <2>1, <3>1, <3>2 DEF LockInv, KernelExcludes
    <3> QED BY <2>3, <2>4, <3>1, <3>3 DEF Release
  <2>5. CASE ~(<<f, FLLCK>> \in B /\ UsesSem(p, f, FLLCK))
    <3>1. oslk'[p][<<f, FLLCK>>] = "sem" <=> oslk[p][<<f, FLLCK>>] = "sem"
      <4>1. oslk[p][<<f, FLLCK>>] = "sem" => UsesSem(p, f, FLLCK)
        BY <2>2 DEF KindOf
      <4> QED BY <4>1, <1>1, <2>1, <2>5 DEF LockInv, TypeOK, Release, LocksWithout
    <3>2. sem'[f] = sem[f]
      BY <2>5 DEF Release
    <3> QED BY <1>1, <2>3, <3>1, <3>2
  <2> QED BY <2>4, <2>5
<1> QED BY <1>2, <1>3 DEF SemaphoreCount

LEMMA AcquireKernel ==
  ASSUME LockInv, NEW p \in Proc, NEW f \in File, NEW b \in Byte, NEW V,
         Acquire(p, f, b, V)
  PROVE  KernelExcludes' /\ SemaphoreCount'
<1> DEFINE k == KindOf(p, f, b)
<1>1. /\ \A q \in Proc \ {p} : oslk'[q] = oslk[q]
      /\ \A x \in Ranges \ {<<f, b>>} : oslk'[p][x] \in {oslk[p][x], "none"}
      /\ oslk'[p][<<f, b>>] = k
      /\ <<f, b>> \in Ranges
  BY DEF LockInv, TypeOK, Acquire, LocksWithout, Ranges
<1>2. ASSUME NEW q \in Proc \ {p}
      PROVE  /\ k = "sem" => oslk[q][<<f, b>>] # "sem"
             /\ k = "wr" => oslk[q][<<f, b>>] \notin {"rd", "wr"}
             /\ k = "rd" => oslk[q][<<f, b>>] # "wr"
  <2>1. CASE UsesSem(p, f, b)
    <3>1. k = "sem" /\ b = FLLCK /\ sem[f] > 0
      BY <2>1 DEF KindOf, UsesSem, Acquire, CanLock
    <3> QED BY <3>1 DEF LockInv, SemaphoreCount
  <2>2. CASE ~UsesSem(p, f, b)
    <3>1. Blockers(p, f, b) = {} /\ k # "sem"
      BY <2>2 DEF Acquire, CanLock, KindOf
    <3> QED BY <3>1 DEF Blockers, Holders
  <2> QED BY <2>1, <2>2
<1>3. k \in {"rd", "wr", "sem"}
  BY DEF KindOf
<1>4. KernelExcludes'
  BY <1>1, <1>2, <1>3 DEF LockInv, KernelExcludes
<1>5. ASSUME NEW g \in File
      PROVE  sem'[g] = IF \E q \in Proc : oslk'[q][<<g, FLLCK>>] = "sem" THEN 0 ELSE 1
  <2>1. sem[g] = IF \E q \in Proc : oslk[q][<<g, FLLCK>>] = "sem" THEN 0 ELSE 1
    BY DEF LockInv, SemaphoreCount
  <2>2. CASE g = f /\ UsesSem(p, f, b)
    <3>1. b = FLLCK /\ k = "sem" /\ sem[f] > 0
      BY <2>2 DEF UsesSem, KindOf, Acquire, CanLock
    <3> QED BY <1>1, <2>1, <2>2, <3>1 DEF LockInv, TypeOK, Acquire
  <2>3. CASE ~(g = f /\ UsesSem(p, f, b))
    <3>1. sem'[g] = sem[g]
      BY <2>3 DEF LockInv, TypeOK, Acquire
    <3>2. oslk'[p][<<g, FLLCK>>] = "sem" <=> oslk[p][<<g, FLLCK>>] = "sem"
      <4>1. oslk[p][<<g, FLLCK>>] = IF lckflg[p][g] = {} THEN "none" ELSE KindOf(p, g, FLLCK)
        BY DEF LockInv, RowInv, Agrees
      <4>2. <<g, FLLCK>> \in Ranges
        BY DEF Ranges, Byte
      <4>3. CASE <<g, FLLCK>> = <<f, b>>
        BY <4>1, <4>3, <2>3, <1>1 DEF KindOf
      <4>4. CASE <<g, FLLCK>> # <<f, b>>
        BY <4>2, <4>4 DEF LockInv, TypeOK, Acquire, LocksWithout
      <4> QED BY <4>3, <4>4
    <3> QED BY <1>1, <2>1, <3>1, <3>2
  <2> QED BY <2>2, <2>3
<1> QED BY <1>4, <1>5 DEF SemaphoreCount

(***************************************************************************)
(* A step of one process leaves the tables of the others alone.            *)
(***************************************************************************)
OnlyMoves(p) ==
  \A q \in Proc \ {p} :
    /\ ftab'[q] = ftab[q] /\ mode'[q] = mode[q] /\ hopen'[q] = hopen[q]
    /\ lckflg'[q] = lckflg[q] /\ plist'[q] = plist[q] /\ oslk'[q] = oslk[q]
    /\ call'[q] = call[q]

LEMMA OtherRow ==
  ASSUME NEW p \in Proc, OnlyMoves(p), NEW q \in Proc \ {p}, RowInv(q)
  PROVE  RowInv(q)'
<1>1. /\ ftab'[q] = ftab[q] /\ mode'[q] = mode[q] /\ hopen'[q] = hopen[q]
      /\ lckflg'[q] = lckflg[q] /\ plist'[q] = plist[q] /\ oslk'[q] = oslk[q]
      /\ call'[q] = call[q]
  BY DEF OnlyMoves
<1>2. CallReady(q)'
  BY <1>1 DEF RowInv, CallReady, Shared, Unlocked, RecordLocks
<1>3. Agrees(q)'
  BY <1>1, ZenonT(60) DEF RowInv, Agrees, KindOf, UsesSem
<1>4. OpenIfLocked(q)' /\ OwnsRecords(q)'
  BY <1>1 DEF RowInv, OpenIfLocked, OwnsRecords, Shared, RecordLocks
<1> QED BY <1>2, <1>3, <1>4 DEF RowInv
(***************************************************************************)
(* Each call, on the tables of the process that makes it.                  *)
(***************************************************************************)
StepOK(p) == OnlyMoves(p) /\ RowInv(p)' /\ KernelExcludes' /\ SemaphoreCount'

\* Closing files without locks changes nothing the kernel holds.
LEMMA EvictKeeps ==
  ASSUME LockInv, NEW p \in Proc, NEW V \in SUBSET Evictable(p)
  PROVE  LocksWithout(p, {}, V) = oslk[p]
<1>1. ASSUME NEW f \in V, NEW b \in Byte
      PROVE  oslk[p][<<f, b>>] = "none"
  <2>1. f \in File /\ lckflg[p][f] = {} /\ RecordLocks(p, f) = {}
    BY DEF Evictable, LockInv, TypeOK
  <2>2. \A r \in Pos, n \in Handle : <<f, r, n>> \notin plist[p]
    BY <2>1 DEF RecordLocks
  <2> QED BY <2>1, <2>2 DEF LockInv, RowInv, Agrees, Byte
<1>2. \A x \in Ranges : x[1] \in V => oslk[p][x] = "none"
  BY <1>1 DEF Ranges
<1> QED BY <1>2 DEF LockInv, TypeOK, LocksWithout

LEMMA OpenStep ==
  ASSUME LockInv, NEW p \in Proc, NEW n \in Handle, NEW f \in File,
         NEW m \in OpenMode, Open(p, n, f, m)
  PROVE  StepOK(p)
<1>1. PICK V \in SUBSET Evictable(p) :
        /\ hopen' = [hopen EXCEPT ![p] =
                       (@ \ V) \cup IF mode[p][f] = "none" THEN {f} ELSE {}]
        /\ Release(p, {}, V)
  BY DEF Open, Evicts
<1>2. KernelExcludes' /\ SemaphoreCount'
  BY <1>1, ReleaseKernel
<1>3. oslk'[p] = oslk[p]
  BY <1>1, EvictKeeps DEF Release, LockInv, TypeOK
<1>4. OnlyMoves(p)
  BY <1>1 DEF OnlyMoves, Open, Release, LockInv, TypeOK
<1>5. /\ ftab[p][n] = NULL /\ ftab'[p] = [ftab[p] EXCEPT ![n] = f]
      /\ mode'[p] = [mode[p] EXCEPT ![f] = m]
      /\ mode[p][f] = "none" \/ (m = mode[p][f] /\ Shared(p, f))
      /\ m # "none"
      /\ lckflg'[p] = lckflg[p] /\ plist'[p] = plist[p] /\ call'[p] = Idle /\ call[p] = Idle
  BY DEF Open, LockInv, TypeOK, FirstFree, Mode
<1>6. \A g \in File : lckflg[p][g] # {} \/ RecordLocks(p, g) # {} =>
        /\ g \in hopen[p] /\ Shared(p, g) /\ mode'[p][g] = mode[p][g] /\ g \notin V
  BY <1>5 DEF LockInv, TypeOK, RowInv, OpenIfLocked, Shared, Evictable
<1>7. CallReady(p)'
  BY <1>5 DEF LockInv, TypeOK, RowInv, CallReady, Idle
<1>8. Agrees(p)'
  <2>1. ASSUME NEW g \in File
        PROVE  lckflg[p][g] # {} => KindOf(p, g, FLLCK)' = KindOf(p, g, FLLCK)
    BY <1>6 DEF KindOf, UsesSem
  <2>2. ASSUME NEW g \in File, NEW r \in Pos, NEW k \in Handle, <<g, r, k>> \in plist[p]
        PROVE  KindOf(p, g, r)' = KindOf(p, g, r)
    BY <2>2, <1>6 DEF KindOf, UsesSem, RecordLocks
  <2>3. Agrees(p)
    BY DEF LockInv, RowInv
  <2>4. ASSUME NEW g \in File
        PROVE  oslk'[p][<<g, FLLCK>>] =
                 IF lckflg'[p][g] = {} THEN "none" ELSE KindOf(p, g, FLLCK)'
    BY <1>3, <1>5, <2>1, <2>3 DEF Agrees
  <2>5. ASSUME NEW g \in File, NEW r \in Pos
        PROVE  oslk'[p][<<g, r>>] = IF \E k \in Handle : <<g, r, k>> \in plist'[p]
                                    THEN KindOf(p, g, r)' ELSE "none"
    <3>1. oslk[p][<<g, r>>] = IF \E k \in Handle : <<g, r, k>> \in plist[p]
                              THEN KindOf(p, g, r) ELSE "none"
      BY <2>3 DEF Agrees
    <3>2. CASE \E k \in Handle : <<g, r, k>> \in plist[p]
      BY <1>3, <1>5, <2>2, <3>1, <3>2
    <3>3. CASE ~ \E k \in Handle : <<g, r, k>> \in plist[p]
      BY <1>3, <1>5, <3>1, <3>3
    <3> QED BY <3>2, <3>3
  <2> QED BY <2>4, <2>5 DEF Agrees
<1>9. OpenIfLocked(p)'
  BY <1>1, <1>5, <1>6 DEF LockInv, TypeOK, OpenIfLocked, RecordLocks, Shared
<1>10. OwnsRecords(p)'
  BY <1>5 DEF LockInv, TypeOK, RowInv, OwnsRecords
<1> QED BY <1>2, <1>4, <1>7, <1>8, <1>9, <1>10 DEF StepOK, RowInv

(***************************************************************************)
(* Locks that leave: the tables and the kernel lose the same ones.         *)
(***************************************************************************)
LEMMA RecordBytesIn ==
  ASSUME TypeOK, NEW p \in Proc, NEW E \in SUBSET plist[p]
  PROVE  /\ \A g \in File, r \in Pos :
              <<g, r>> \in RecordBytes(E) <=> \E k \in Handle : <<g, r, k>> \in E
         /\ \A g \in File : <<g, FLLCK>> \notin RecordBytes(E)
<1>1. ASSUME NEW e \in E
      PROVE  /\ e = <<e[1], e[2], e[3]>>
             /\ e[1] \in File /\ e[2] \in Pos /\ e[3] \in Handle
  BY DEF TypeOK
<1>2. ASSUME NEW g \in File, NEW r \in Pos, NEW k \in Handle, <<g, r, k>> \in E
      PROVE  <<g, r>> \in RecordBytes(E)
  <2>1. <<g, r>> = << <<g, r, k>>[1], <<g, r, k>>[2] >>
    OBVIOUS
  <2> QED BY <1>2, <2>1 DEF RecordBytes
<1>3. ASSUME NEW g, NEW r, <<g, r>> \in RecordBytes(E)
      PROVE  r \in Pos /\ \E k \in Handle : <<g, r, k>> \in E
  <2>1. PICK e \in E : <<g, r>> = <<e[1], e[2]>>
    BY <1>3 DEF RecordBytes
  <2> QED BY <2>1, <1>1
<1> QED BY <1>2, <1>3

\* The tables of p lose the record locks E and the file locks G; the files
\* of C, which have no other locks, are closed.
Gives(p, E, G, C) ==
  /\ E \subseteq plist[p] /\ G \subseteq File
  /\ plist' = [plist EXCEPT ![p] = @ \ E]
  /\ Release(p, RecordBytes(E) \cup {<<g, FLLCK>> : g \in G}, C)
  /\ \A f \in File : lckflg'[p][f] = {} <=> f \in G \/ lckflg[p][f] = {}
  /\ \A f \in File \cap C : RecordLocks(p, f) \subseteq E /\ (lckflg[p][f] # {} => f \in G)
  /\ \A f \in File : mode'[p][f] = mode[p][f] \/ f \in C

LEMMA GivesAgrees ==
  ASSUME LockInv, NEW p \in Proc, NEW E, NEW G, NEW C, Gives(p, E, G, C)
  PROVE  Agrees(p)' /\ \A q \in Proc \ {p} : plist'[q] = plist[q] /\ oslk'[q] = oslk[q]
<1> DEFINE B == RecordBytes(E) \cup {<<g, FLLCK>> : g \in G}
<1>1. /\ plist'[p] = plist[p] \ E
      /\ \A x \in Ranges : oslk'[p][x] = IF x \in B \/ (x[1] \in C /\ oslk[p][x] # "sem")
                                        THEN "none" ELSE oslk[p][x]
      /\ \A q \in Proc \ {p} : plist'[q] = plist[q] /\ oslk'[q] = oslk[q]
  BY DEF Gives, Release, LocksWithout, LockInv, TypeOK
<1>2. /\ \A g \in File, r \in Pos :
           <<g, r>> \in RecordBytes(E) <=> \E k \in Handle : <<g, r, k>> \in E
      /\ \A g \in File : <<g, FLLCK>> \notin RecordBytes(E)
  BY RecordBytesIn DEF Gives, LockInv
<1>3. ASSUME NEW f \in File
      PROVE  oslk'[p][<<f, FLLCK>>] =
               IF lckflg'[p][f] = {} THEN "none" ELSE KindOf(p, f, FLLCK)'
  <2>1. oslk[p][<<f, FLLCK>>] = IF lckflg[p][f] = {} THEN "none" ELSE KindOf(p, f, FLLCK)
    BY DEF LockInv, RowInv, Agrees
  <2>2. <<f, FLLCK>> \in B <=> f \in G
    BY <1>2
  <2>3. <<f, FLLCK>> \in Ranges /\ <<f, FLLCK>>[1] = f
    BY DEF Ranges, Byte
  <2>4. lckflg'[p][f] = {} <=> f \in G \/ lckflg[p][f] = {}
    BY DEF Gives
  <2>5. CASE f \in G \/ lckflg[p][f] = {}
    BY <1>1, <2>1, <2>2, <2>3, <2>4, <2>5
  <2>6. CASE ~(f \in G \/ lckflg[p][f] = {})
    <3>1. f \notin C /\ mode'[p][f] = mode[p][f]
      BY <2>6 DEF Gives
    <3>2. KindOf(p, f, FLLCK)' = KindOf(p, f, FLLCK)
      BY <3>1 DEF KindOf, UsesSem
    <3> HIDE DEF B
    <3> QED BY <1>1, <2>1, <2>2, <2>3, <2>4, <2>6, <3>1, <3>2
  <2> QED BY <2>5, <2>6
<1>4. ASSUME NEW f \in File, NEW r \in Pos
      PROVE  oslk'[p][<<f, r>>] = IF \E n \in Handle : <<f, r, n>> \in plist'[p]
                                  THEN KindOf(p, f, r)' ELSE "none"
  <2>1. oslk[p][<<f, r>>] = IF \E n \in Handle : <<f, r, n>> \in plist[p]
                            THEN KindOf(p, f, r) ELSE "none"
    BY DEF LockInv, RowInv, Agrees
  <2>2. <<f, r>> \in B <=> \E k \in Handle : <<f, r, k>> \in E
    BY <1>2
  <2>3. <<f, r>> \in Ranges /\ <<f, r>>[1] = f
    BY DEF Ranges, Byte
  <2>4. ASSUME NEW n \in Handle, NEW k \in Handle,
               <<f, r, n>> \in plist[p], <<f, r, k>> \in plist[p]
        PROVE  n = k
    BY <2>4 DEF LockInv, RowInv, OwnsRecords
  <2> HIDE DEF B
  <2>5. CASE <<f, r>> \in B
    <3>1. \A n \in Handle : <<f, r, n>> \notin plist'[p]
      BY <1>1, <2>2, <2>4, <2>5 DEF Gives
    <3> QED BY <1>1, <2>3, <2>5, <3>1
  <2>6. CASE <<f, r>> \notin B
    <3>1. \A n \in Handle : <<f, r, n>> \in plist'[p] <=> <<f, r, n>> \in plist[p]
      BY <1>1, <2>2, <2>6
    <3>2. CASE \E n \in Handle : <<f, r, n>> \in plist[p]
      <4>1. f \notin C
        BY <3>2, <2>2, <2>6 DEF Gives, RecordLocks
      <4>2. KindOf(p, f, r)' = KindOf(p, f, r)
        BY <4>1 DEF Gives, KindOf, UsesSem
      <4> QED BY <1>1, <2>1, <2>3, <2>6, <3>1, <3>2, <4>1, <4>2
    <3>3. CASE ~ \E n \in Handle : <<f, r, n>> \in plist[p]
      BY <1>1, <2>1, <2>3, <2>6, <3>1, <3>3
    <3> QED BY <3>2, <3>3
  <2> QED BY <2>5, <2>6
<1> QED BY <1>1, <1>3, <1>4 DEF Agrees

OthersStay(p) ==
  \A q \in Proc \ {p} :
    /\ ftab'[q] = ftab[q] /\ mode'[q] = mode[q] /\ hopen'[q] = hopen[q]
    /\ lckflg'[q] = lckflg[q] /\ call'[q] = call[q]

LEMMA GivesStep ==
  ASSUME LockInv, NEW p \in Proc, NEW E, NEW G, NEW C, Gives(p, E, G, C),
         \A f \in G : lckflg[p][f] # {},
         OthersStay(p), CallReady(p)',
         \A f \in File \ C : f \in hopen[p] => f \in hopen'[p],
         \A e \in plist[p] \ E : ftab'[p][e[3]] = ftab[p][e[3]]
  PROVE  StepOK(p)
<1> DEFINE B == RecordBytes(E) \cup {<<g, FLLCK>> : g \in G}
<1>1. KernelExcludes' /\ SemaphoreCount'
  <2>1. \A f \in File : <<f, FLLCK>> \in B => lckflg[p][f] # {}
    BY RecordBytesIn DEF Gives, LockInv
  <2> QED BY <2>1, ReleaseKernel DEF Gives
<1>2. OnlyMoves(p)
  BY GivesAgrees DEF OnlyMoves, OthersStay
<1>3. plist'[p] = plist[p] \ E
  BY DEF Gives, LockInv, TypeOK
<1>4. OpenIfLocked(p)'
  <2>1. ASSUME NEW f \in File, lckflg'[p][f] # {} \/ RecordLocks(p, f)' # {}
        PROVE  f \in hopen'[p] /\ Shared(p, f)'
    <3>1. lckflg[p][f] # {} \/ RecordLocks(p, f) # {}
      BY <1>3, <2>1 DEF Gives, RecordLocks
    <3>2. f \notin C
      BY <1>3, <2>1 DEF Gives, RecordLocks
    <3>3. f \in hopen[p] /\ Shared(p, f)
      BY <3>1 DEF LockInv, RowInv, OpenIfLocked
    <3> QED BY <3>2, <3>3 DEF Gives, Shared
  <2> QED BY <2>1 DEF OpenIfLocked
<1>5. OwnsRecords(p)'
  BY <1>3 DEF LockInv, RowInv, OwnsRecords
<1> QED BY <1>1, <1>2, <1>4, <1>5, GivesAgrees DEF StepOK, RowInv

LEMMA OneFlag ==
  ASSUME LockInv, NEW p \in Proc, NEW f \in File
  PROVE  lckflg[p][f] \in {{}, {"LLK"}, {"HLK"}}
<1>1. lckflg[p][f] \subseteq {"LLK", "HLK"}
  BY DEF LockInv, TypeOK, LockFlag
<1>2. ~ ({"LLK", "HLK"} \subseteq lckflg[p][f])
  BY DEF LockInv, RowInv, CallReady, LockFlag
<1> QED BY <1>1, <1>2

\* A call that fails or returns leaves nothing to be ready for.
LEMMA IdleReady ==
  ASSUME LockInv, NEW p \in Proc, call'[p] = Idle,
         \A n \in Handle : ftab'[p][n] # NULL => mode'[p][ftab'[p][n]] # "none",
         \A f \in File : lckflg'[p][f] \subseteq lckflg[p][f]
  PROVE  CallReady(p)'
BY DEF LockInv, RowInv, CallReady, Idle

LEMMA UnlockHighStep ==
  ASSUME LockInv, NEW p \in Proc, NEW F \in SUBSET HighLocked(p),
         UnlockHigh(p, F), UNCHANGED <<table, hopen, plist>>,
         call' = [call EXCEPT ![p] = Idle]
  PROVE  StepOK(p)
<1>1. /\ \A f \in File : lckflg'[p][f] = IF f \in F THEN {} ELSE lckflg[p][f]
      /\ \A q \in Proc \ {p} : lckflg'[q] = lckflg[q] /\ call'[q] = call[q]
      /\ call'[p] = Idle
      /\ F \subseteq File /\ \A f \in F : lckflg[p][f] # {}
  <2>1. F \subseteq File /\ \A f \in F : "HLK" \in lckflg[p][f]
    BY DEF HighLocked
  <2>2. \A f \in F : lckflg[p][f] = {"HLK"}
    BY <2>1 DEF LockInv, TypeOK, RowInv, CallReady, LockFlag
  <2> QED BY <2>1, <2>2 DEF UnlockHigh, LockInv, TypeOK
<1>2. Gives(p, {}, F, {})
  <2>1. RecordBytes({}) = {}
    BY DEF RecordBytes
  <2>2. Release(p, RecordBytes({}) \cup {<<f, FLLCK>> : f \in F}, {})
    BY <2>1 DEF UnlockHigh
  <2> QED BY <1>1, <2>2 DEF Gives, LockInv, TypeOK
<1>3. CallReady(p)'
  <2>1. \A n \in Handle : ftab[p][n] # NULL => mode[p][ftab[p][n]] # "none"
    BY DEF LockInv, RowInv, CallReady
  <2> QED BY <1>1, <2>1, IdleReady
<1>4. OthersStay(p)
  BY <1>1 DEF OthersStay
<1> QED BY <1>1, <1>2, <1>3, <1>4, GivesStep

LEMMA FiofulkStep ==
  ASSUME LockInv, NEW p \in Proc, NEW n \in Handle, Fiofulk(p, n)
  PROVE  StepOK(p)
<1> DEFINE f == ftab[p][n]
<1>1. /\ f \in File /\ "LLK" \in lckflg[p][f]
      /\ \A g \in File : lckflg'[p][g] = IF g = f THEN {} ELSE lckflg[p][g]
      /\ \A q \in Proc \ {p} : lckflg'[q] = lckflg[q]
      /\ call'[p] = Idle
  <2>1. f \in File /\ "LLK" \in lckflg[p][f]
    BY DEF Fiofulk, LockInv, TypeOK
  <2>2. lckflg[p][f] \in {{}, {"LLK"}, {"HLK"}}
    <3> HIDE DEF f
    <3> QED BY <2>1, OneFlag
  <2>3. lckflg[p][f] = {"LLK"}
    BY <2>1, <2>2
  <2> QED BY <2>1, <2>3 DEF Fiofulk, LockInv, TypeOK
<1>2. Gives(p, {}, {f}, {})
  <2>1. RecordBytes({}) = {} /\ {<<g, FLLCK>> : g \in {f}} = {<<f, FLLCK>>}
    BY DEF RecordBytes
  <2>2. Release(p, RecordBytes({}) \cup {<<g, FLLCK>> : g \in {f}}, {})
    BY <2>1 DEF Fiofulk
  <2>3. /\ plist' = [plist EXCEPT ![p] = @ \ {}]
        /\ \A g \in File : mode'[p][g] = mode[p][g]
    BY DEF Fiofulk, LockInv, TypeOK
  <2> HIDE DEF f
  <2> QED BY <1>1, <2>2, <2>3 DEF Gives
<1>3. CallReady(p)'
  <2>1. \A k \in Handle : ftab'[p][k] # NULL => mode'[p][ftab'[p][k]] # "none"
    BY DEF Fiofulk, LockInv, RowInv, CallReady
  <2> QED BY <1>1, <2>1, IdleReady
<1>4. OthersStay(p)
  BY <1>1 DEF OthersStay, Fiofulk
<1> QED BY <1>1, <1>2, <1>3, <1>4, GivesStep DEF Fiofulk

LEMMA FioulkposStep ==
  ASSUME LockInv, NEW p \in Proc, NEW n \in Handle, NEW R, Fioulkpos(p, n, R)
  PROVE  StepOK(p)
<1> DEFINE E == {e \in HandleLocks(p, n) : e[2] \in R}
<1>1. /\ E \subseteq plist[p] /\ plist' = [plist EXCEPT ![p] = @ \ E]
      /\ UNCHANGED <<table, hopen, lckflg, call>>
      /\ call[p] = Idle
      /\ Release(p, RecordBytes(E), {})
  BY DEF Fioulkpos, HandleLocks, RecordLocks
<1> HIDE DEF E
<1>2. Gives(p, E, {}, {})
  <2>1. RecordBytes(E) \cup {<<g, FLLCK>> : g \in {}} = RecordBytes(E)
    OBVIOUS
  <2> QED BY <1>1, <2>1 DEF Gives
<1>3. CallReady(p)'
  <2>1. \A k \in Handle : ftab'[p][k] # NULL => mode'[p][ftab'[p][k]] # "none"
    BY <1>1 DEF LockInv, RowInv, CallReady
  <2> QED BY <1>1, <2>1, IdleReady
<1>4. OthersStay(p)
  BY <1>1 DEF OthersStay
<1> QED BY <1>1, <1>2, <1>3, <1>4, GivesStep

LEMMA CloseStep ==
  ASSUME LockInv, NEW p \in Proc, NEW n \in Handle, Close(p, n)
  PROVE  StepOK(p)
<1> DEFINE f == ftab[p][n]
           E == HandleLocks(p, n)
           C == IF LastHandle(p, n) THEN {f} ELSE {}
           G == IF LastHandle(p, n) /\ lckflg[p][f] # {} THEN {f} ELSE {}
<1>1. /\ f \in File /\ E \subseteq plist[p] /\ G \subseteq File
      /\ plist' = [plist EXCEPT ![p] = @ \ E]
      /\ ftab' = [ftab EXCEPT ![p][n] = NULL]
      /\ call' = call /\ call[p] = Idle
  BY DEF Close, LockInv, TypeOK, HandleLocks, RecordLocks
<1>2. lckflg[p][f] # {} => f \in hopen[p]
  BY <1>1 DEF LockInv, RowInv, OpenIfLocked
<1>3. Release(p, RecordBytes(E) \cup {<<g, FLLCK>> : g \in G}, C)
  <2>1. {<<g, FLLCK>> : g \in G} =
          IF LastHandle(p, n) /\ f \in hopen[p] /\ lckflg[p][f] # {}
          THEN {<<f, FLLCK>>} ELSE {}
    BY <1>2
  <2> QED BY <2>1 DEF Close
<1>4. /\ \A g \in File : mode'[p][g] = IF g \in C THEN "none" ELSE mode[p][g]
      /\ \A g \in File : lckflg'[p][g] = IF g \in C THEN {} ELSE lckflg[p][g]
      /\ hopen'[p] = hopen[p] \ C
      /\ \A q \in Proc \ {p} :
           mode'[q] = mode[q] /\ lckflg'[q] = lckflg[q] /\ hopen'[q] = hopen[q]
  <2>1. CASE LastHandle(p, n)
    <3>1. /\ mode' = [mode EXCEPT ![p][f] = "none"]
          /\ hopen' = [hopen EXCEPT ![p] = @ \ {f}]
          /\ lckflg' = [lckflg EXCEPT ![p][f] = {}]
      BY <2>1 DEF Close
    <3> QED BY <2>1, <3>1 DEF LockInv, TypeOK
  <2>2. CASE ~LastHandle(p, n)
    BY <2>2 DEF Close
  <2> QED BY <2>1, <2>2
<1>5. LastHandle(p, n) => RecordLocks(p, f) \subseteq E
  <2>1. ASSUME LastHandle(p, n), NEW e \in RecordLocks(p, f)
        PROVE  e \in E
    <3>1. e \in plist[p] /\ e[1] = f
      BY DEF RecordLocks
    <3>2. ftab[p][e[3]] = e[1] /\ e[3] \in Handle
      BY <3>1 DEF LockInv, TypeOK, RowInv, OwnsRecords
    <3>3. e[3] = n
      BY <2>1, <3>1, <3>2 DEF LastHandle
    <3> QED BY <3>3 DEF HandleLocks
  <2> QED BY <2>1
<1>6. Gives(p, E, G, C)
  <2>1. \A g \in File : lckflg'[p][g] = {} <=> g \in G \/ lckflg[p][g] = {}
    BY <1>4
  <2>2. \A g \in File \cap C : RecordLocks(p, g) \subseteq E /\ (lckflg[p][g] # {} => g \in G)
    BY <1>5
  <2> HIDE DEF f, E, C, G
  <2> QED BY <1>1, <1>3, <1>4, <2>1, <2>2 DEF Gives
<1>7. CallReady(p)'
  <2>1. ASSUME NEW k \in Handle, ftab'[p][k] # NULL
        PROVE  mode'[p][ftab'[p][k]] # "none"
    <3>1. k # n /\ ftab'[p][k] = ftab[p][k] /\ ftab[p][k] \in File
      BY <1>1, <2>1 DEF LockInv, TypeOK
    <3>2. ftab[p][k] \notin C
      BY <3>1 DEF LastHandle
    <3>3. mode'[p][ftab[p][k]] = mode[p][ftab[p][k]]
      BY <1>4, <3>1, <3>2
    <3>4. mode[p][ftab[p][k]] # "none"
      BY <3>1, <2>1 DEF LockInv, RowInv, CallReady
    <3> QED BY <3>1, <3>3, <3>4
  <2>2. \A g \in File : lckflg'[p][g] \subseteq lckflg[p][g]
    BY <1>4
  <2> QED BY <1>1, <2>1, <2>2, IdleReady
<1>8. OthersStay(p)
  BY <1>1, <1>4 DEF OthersStay
<1>9. \A e \in plist[p] \ E : ftab'[p][e[3]] = ftab[p][e[3]]
  <2>1. ASSUME NEW e \in plist[p] \ E
        PROVE  e[3] # n /\ e[3] \in Handle
    <3>1. ftab[p][e[3]] = e[1] /\ e[3] \in Handle
      BY DEF LockInv, TypeOK, RowInv, OwnsRecords
    <3> QED BY <3>1 DEF HandleLocks, RecordLocks
  <2> QED BY <1>1, <2>1 DEF LockInv, TypeOK
<1>10. \A g \in File \ C : g \in hopen[p] => g \in hopen'[p]
  BY <1>4
<1>11. \A g \in G : lckflg[p][g] # {}
  OBVIOUS
<1> HIDE DEF f, E, C, G
<1> QED BY <1>6, <1>7, <1>8, <1>9, <1>10, <1>11, GivesStep

\* fioclru(-1) and a failed flush.
LEMMA CloseWithLocksStep ==
  ASSUME LockInv, NEW p \in Proc, NEW F \in SUBSET hopen[p], CloseWithLocks(p, F),
         NEW H \in SUBSET F,
         hopen' = [hopen EXCEPT ![p] = (@ \ F) \cup H],
         call[p] = Idle, UNCHANGED <<table, call>>
  PROVE  StepOK(p)
<1> DEFINE E == {e \in plist[p] : e[1] \in F}
           G == {g \in F : lckflg[p][g] # {}}
<1>1. /\ plist' = [plist EXCEPT ![p] = @ \ E]
      /\ Release(p, RecordBytes(E) \cup {<<g, FLLCK>> : g \in G}, F)
      /\ lckflg' = [lckflg EXCEPT ![p] = [f \in File |-> IF f \in F THEN {} ELSE @[f]]]
  BY DEF CloseWithLocks
<1>2. F \subseteq File
  BY DEF LockInv, TypeOK
<1>3. /\ \A g \in File : lckflg'[p][g] = IF g \in F THEN {} ELSE lckflg[p][g]
      /\ \A q \in Proc \ {p} : lckflg'[q] = lckflg[q]
  BY <1>1 DEF LockInv, TypeOK
<1>4. Gives(p, E, G, F)
  <2>1. \A g \in File : lckflg'[p][g] = {} <=> g \in G \/ lckflg[p][g] = {}
    BY <1>3
  <2>2. \A g \in File \cap F : RecordLocks(p, g) \subseteq E /\ (lckflg[p][g] # {} => g \in G)
    BY DEF RecordLocks
  <2>3. E \subseteq plist[p] /\ G \subseteq File
    BY <1>2
  <2> HIDE DEF E, G
  <2> QED BY <1>1, <2>1, <2>2, <2>3 DEF Gives
<1>5. CallReady(p)'
  <2>1. \A k \in Handle : ftab'[p][k] # NULL => mode'[p][ftab'[p][k]] # "none"
    BY DEF LockInv, RowInv, CallReady
  <2>2. \A g \in File : lckflg'[p][g] \subseteq lckflg[p][g]
    BY <1>3
  <2> QED BY <2>1, <2>2, IdleReady
<1>6. OthersStay(p)
  BY <1>3 DEF OthersStay, LockInv, TypeOK
<1>7. \A g \in File \ F : g \in hopen[p] => g \in hopen'[p]
  BY DEF LockInv, TypeOK
<1>8. \A g \in G : lckflg[p][g] # {}
  OBVIOUS
<1> HIDE DEF E, G
<1> QED BY <1>4, <1>5, <1>6, <1>7, <1>8, GivesStep

LEMMA FioclruStep ==
  ASSUME LockInv, NEW p \in Proc, Fioclru(p)
  PROVE  StepOK(p)
<1>1. PICK f \in Evictable(p) :
        Release(p, {}, {f}) /\ hopen' = [hopen EXCEPT ![p] = @ \ {f}]
  BY DEF Fioclru
<1>2. f \in hopen[p] /\ lckflg[p][f] = {} /\ RecordLocks(p, f) = {}
  BY DEF Evictable
<1>3. CloseWithLocks(p, {f})
  <2>1. \A e \in plist[p] : e[1] # f
    BY <1>2 DEF RecordLocks
  <2>2. {e \in plist[p] : e[1] \in {f}} = {}
    BY <2>1
  <2>3. {g \in {f} : lckflg[p][g] # {}} = {}
    BY <1>2
  <2>4. RecordBytes({e \in plist[p] : e[1] \in {f}}) \cup
          {<<g, FLLCK>> : g \in {h \in {f} : lckflg[p][h] # {}}} = {}
    BY <2>2, <2>3 DEF RecordBytes
  <2>5. plist' = [plist EXCEPT ![p] = @ \ {e \in plist[p] : e[1] \in {f}}]
    BY <2>2 DEF Fioclru, LockInv, TypeOK
  <2>6. lckflg' = [lckflg EXCEPT ![p] = [g \in File |-> IF g \in {f} THEN {} ELSE @[g]]]
    BY <1>2 DEF Fioclru, LockInv, TypeOK
  <2> QED BY <1>1, <2>4, <2>5, <2>6 DEF CloseWithLocks
<1>4. hopen' = [hopen EXCEPT ![p] = (@ \ {f}) \cup {}]
  BY <1>1
<1>5. {f} \in SUBSET hopen[p] /\ {} \in SUBSET {f}
  BY <1>2
<1> QED BY <1>3, <1>4, <1>5, CloseWithLocksStep DEF Fioclru

LEMMA RolloutStep ==
  ASSUME LockInv, NEW p \in Proc, Rollout(p)
  PROVE  StepOK(p)
<1>1. PICK F \in SUBSET hopen[p] :
        CloseWithLocks(p, F) /\ hopen' = [hopen EXCEPT ![p] = @ \ F]
  BY DEF Rollout
<1>2. hopen' = [hopen EXCEPT ![p] = (@ \ F) \cup {}] /\ {} \in SUBSET F
  BY <1>1
<1> QED BY <1>1, <1>2, CloseWithLocksStep DEF Rollout

LEMMA FlushFailsStep ==
  ASSUME LockInv, NEW p \in Proc, NEW f \in File, FlushFails(p, f)
  PROVE  StepOK(p)
<1>1. PICK H \in SUBSET {f} : hopen' = [hopen EXCEPT ![p] = (@ \ {f}) \cup H]
  <2>1. CASE hopen' = hopen
    <3>1. hopen' = [hopen EXCEPT ![p] = (@ \ {f}) \cup {f}]
      BY <2>1 DEF FlushFails, LockInv, TypeOK
    <3> QED BY <3>1
  <2>2. CASE hopen' = [hopen EXCEPT ![p] = @ \ {f}]
    <3>1. hopen' = [hopen EXCEPT ![p] = (@ \ {f}) \cup {}]
      BY <2>2
    <3> QED BY <3>1
  <2> QED BY <2>1, <2>2 DEF FlushFails
<1>2. {f} \in SUBSET hopen[p]
  BY DEF FlushFails
<1> QED BY <1>1, <1>2, CloseWithLocksStep DEF FlushFails

LEMMA CrashStep ==
  ASSUME LockInv, NEW p \in Proc, Crash(p)
  PROVE  StepOK(p)
<1> DEFINE B == {x \in Ranges : oslk[p][x] = "sem"}
<1>1. KernelExcludes' /\ SemaphoreCount'
  <2>1. \A f \in File : <<f, FLLCK>> \in B => lckflg[p][f] # {}
    BY DEF LockInv, RowInv, Agrees
  <2>2. Release(p, B, File)
    BY DEF Crash
  <2> HIDE DEF B
  <2> QED BY <2>1, <2>2, ReleaseKernel
<1>2. OnlyMoves(p)
  BY DEF OnlyMoves, Crash, Release
<1>3. /\ \A n \in Handle : ftab'[p][n] = NULL
      /\ \A f \in File : lckflg'[p][f] = {}
      /\ plist'[p] = {} /\ call'[p] = Idle
  BY DEF Crash, LockInv, TypeOK
<1>4. \A x \in Ranges : oslk'[p][x] = "none"
  BY DEF Crash, Release, LocksWithout, LockInv, TypeOK, Ranges
<1>5. CallReady(p)'
  BY <1>3, IdleReady
<1>6. Agrees(p)'
  BY <1>3, <1>4 DEF Agrees, Ranges, Byte
<1>7. OpenIfLocked(p)' /\ OwnsRecords(p)'
  BY <1>3 DEF OpenIfLocked, OwnsRecords, RecordLocks
<1> QED BY <1>1, <1>2, <1>5, <1>6, <1>7 DEF StepOK, RowInv

(***************************************************************************)
(* Locks that come: the kernel gave what the tables note.                  *)
(***************************************************************************)
LEMMA TouchAcquire ==
  ASSUME LockInv, NEW p \in Proc, NEW f \in File, NEW b \in Byte, NEW V,
         Touch(p, f, V), Acquire(p, f, b, V)
  PROVE  /\ V \subseteq Evictable(p) /\ f \notin V
         /\ oslk'[p] = [oslk[p] EXCEPT ![<<f, b>>] = KindOf(p, f, b)]
         /\ \A q \in Proc \ {p} : oslk'[q] = oslk[q]
<1>1. V \subseteq Evictable(p) /\ f \notin V
  BY DEF Touch, Evicts, Evictable
<1>2. LocksWithout(p, {}, V) = oslk[p]
  BY <1>1, EvictKeeps
<1> QED BY <1>1, <1>2 DEF Acquire, LockInv, TypeOK

LEMMA FileTaken ==
  ASSUME LockInv, NEW p \in Proc, NEW f \in File, NEW V, NEW c \in LockFlag,
         Shared(p, f), Touch(p, f, V), Acquire(p, f, FLLCK, V),
         hopen' = [hopen EXCEPT ![p] = (@ \ V) \cup {f}],
         lckflg' = [lckflg EXCEPT ![p][f] = @ \cup {c}],
         UNCHANGED <<table, plist>>,
         \A q \in Proc \ {p} : call'[q] = call[q],
         CallReady(p)'
  PROVE  StepOK(p)
<1>0. FLLCK \in Byte
  BY DEF Byte
<1>1. /\ V \subseteq Evictable(p) /\ f \notin V
      /\ oslk'[p] = [oslk[p] EXCEPT ![<<f, FLLCK>>] = KindOf(p, f, FLLCK)]
      /\ \A q \in Proc \ {p} : oslk'[q] = oslk[q]
  BY <1>0, TouchAcquire
<1>2. /\ \A g \in File \ {f} : lckflg'[p][g] = lckflg[p][g]
      /\ lckflg'[p][f] # {}
      /\ hopen'[p] = (hopen[p] \ V) \cup {f}
      /\ \A q \in Proc \ {p} : lckflg'[q] = lckflg[q] /\ hopen'[q] = hopen[q]
  BY DEF LockInv, TypeOK
<1>3. KernelExcludes' /\ SemaphoreCount'
  BY <1>0, AcquireKernel
<1>4. OnlyMoves(p)
  BY <1>1, <1>2 DEF OnlyMoves
<1>5. Agrees(p)'
  <2>1. \A g \in File, b \in Byte : KindOf(p, g, b)' = KindOf(p, g, b)
    BY DEF KindOf, UsesSem
  <2>2. \A g \in File, b \in Byte :
          /\ <<g, b>> \in Ranges
          /\ oslk'[p][<<g, b>>] = IF g = f /\ b = FLLCK THEN KindOf(p, f, FLLCK)
                                  ELSE oslk[p][<<g, b>>]
    BY <1>1 DEF LockInv, TypeOK, Ranges
  <2>3. Agrees(p)
    BY DEF LockInv, RowInv
  <2>4. ASSUME NEW g \in File
        PROVE  oslk'[p][<<g, FLLCK>>] =
                 IF lckflg'[p][g] = {} THEN "none" ELSE KindOf(p, g, FLLCK)'
    BY <1>0, <1>2, <2>1, <2>2, <2>3 DEF Agrees
  <2>5. ASSUME NEW g \in File, NEW r \in Pos
        PROVE  oslk'[p][<<g, r>>] = IF \E n \in Handle : <<g, r, n>> \in plist'[p]
                                    THEN KindOf(p, g, r)' ELSE "none"
    <3>1. r \in Byte /\ r # FLLCK
      BY DEF Byte
    <3> QED BY <3>1, <2>1, <2>2, <2>3, ZenonT(60) DEF Agrees
  <2> QED BY <2>4, <2>5 DEF Agrees
<1>6. OpenIfLocked(p)'
  <2>1. ASSUME NEW g \in File, lckflg'[p][g] # {} \/ RecordLocks(p, g)' # {}
        PROVE  g \in hopen'[p] /\ Shared(p, g)'
    <3>1. CASE g = f
      BY <3>1, <1>2 DEF Shared
    <3>2. CASE g # f
      <4>1. lckflg[p][g] # {} \/ RecordLocks(p, g) # {}
        BY <2>1, <3>2, <1>2 DEF RecordLocks
      <4>2. g \in hopen[p] /\ Shared(p, g) /\ g \notin V
        BY <4>1, <1>1 DEF LockInv, RowInv, OpenIfLocked, Evictable
      <4> QED BY <4>2, <1>2 DEF Shared
    <3> QED BY <3>1, <3>2
  <2> QED BY <2>1 DEF OpenIfLocked
<1>7. OwnsRecords(p)'
  BY DEF LockInv, RowInv, OwnsRecords
<1> QED BY <1>3, <1>4, <1>5, <1>6, <1>7 DEF StepOK, RowInv

LEMMA RecordTaken ==
  ASSUME LockInv, NEW p \in Proc, NEW f \in File, NEW r \in Pos, NEW n \in Handle, NEW V,
         Shared(p, f), Touch(p, f, V), Acquire(p, f, r, V),
         hopen' = [hopen EXCEPT ![p] = (@ \ V) \cup {f}],
         plist' = [plist EXCEPT ![p] = @ \cup {<<f, r, n>>}],
         ftab[p][n] = f, Unlocked(p, n, r),
         UNCHANGED <<table, lckflg>>,
         \A q \in Proc \ {p} : call'[q] = call[q],
         CallReady(p)'
  PROVE  StepOK(p)
<1>0. r \in Byte /\ r # FLLCK
  BY DEF Byte
<1>1. /\ V \subseteq Evictable(p) /\ f \notin V
      /\ oslk'[p] = [oslk[p] EXCEPT ![<<f, r>>] = KindOf(p, f, r)]
      /\ \A q \in Proc \ {p} : oslk'[q] = oslk[q]
  BY <1>0, TouchAcquire
<1>2. /\ plist'[p] = plist[p] \cup {<<f, r, n>>}
      /\ hopen'[p] = (hopen[p] \ V) \cup {f}
      /\ \A q \in Proc \ {p} : plist'[q] = plist[q] /\ hopen'[q] = hopen[q]
  BY DEF LockInv, TypeOK
<1>3. KernelExcludes' /\ SemaphoreCount'
  BY <1>0, AcquireKernel
<1>4. OnlyMoves(p)
  BY <1>1, <1>2 DEF OnlyMoves
<1>5. Agrees(p)'
  <2>1. \A g \in File, b \in Byte : KindOf(p, g, b)' = KindOf(p, g, b)
    BY DEF KindOf, UsesSem
  <2>2. \A g \in File, b \in Byte :
          /\ <<g, b>> \in Ranges
          /\ oslk'[p][<<g, b>>] = IF g = f /\ b = r THEN KindOf(p, f, r)
                                  ELSE oslk[p][<<g, b>>]
    BY <1>1 DEF LockInv, TypeOK, Ranges
  <2>3. Agrees(p)
    BY DEF LockInv, RowInv
  <2>4. ASSUME NEW g \in File
        PROVE  oslk'[p][<<g, FLLCK>>] =
                 IF lckflg'[p][g] = {} THEN "none" ELSE KindOf(p, g, FLLCK)'
    BY <1>0, <2>1, <2>2, <2>3 DEF Agrees, Byte
  <2>5. ASSUME NEW g \in File, NEW s \in Pos
        PROVE  oslk'[p][<<g, s>>] = IF \E k \in Handle : <<g, s, k>> \in plist'[p]
                                    THEN KindOf(p, g, s)' ELSE "none"
    <3>1. s \in Byte
      BY DEF Byte
    <3>2. CASE g = f /\ s = r
      BY <3>1, <3>2, <1>2, <2>1, <2>2, ZenonT(60)
    <3>3. CASE ~(g = f /\ s = r)
      <4>1. \A k \in Handle : <<g, s, k>> \in plist'[p] <=> <<g, s, k>> \in plist[p]
        BY <3>3, <1>2
      <4> QED BY <3>1, <3>3, <4>1, <2>1, <2>2, <2>3, ZenonT(60) DEF Agrees
    <3> QED BY <3>2, <3>3
  <2> QED BY <2>4, <2>5 DEF Agrees
<1>6. OpenIfLocked(p)'
  <2>1. ASSUME NEW g \in File, lckflg'[p][g] # {} \/ RecordLocks(p, g)' # {}
        PROVE  g \in hopen'[p] /\ Shared(p, g)'
    <3>1. CASE g = f
      BY <3>1, <1>2 DEF Shared
    <3>2. CASE g # f
      <4>1. lckflg[p][g] # {} \/ RecordLocks(p, g) # {}
        BY <2>1, <3>2, <1>2 DEF RecordLocks
      <4>2. g \in hopen[p] /\ Shared(p, g) /\ g \notin V
        BY <4>1, <1>1 DEF LockInv, RowInv, OpenIfLocked, Evictable
      <4> QED BY <4>2, <1>2 DEF Shared
    <3> QED BY <3>1, <3>2
  <2> QED BY <2>1 DEF OpenIfLocked
<1>7. OwnsRecords(p)'
  <2>1. \A e \in plist[p] : ~(e[1] = f /\ e[2] = r)
    BY DEF Unlocked, RecordLocks
  <2>2. ASSUME NEW e \in plist'[p]
        PROVE  ftab'[p][e[3]] = e[1]
    BY <1>2 DEF LockInv, RowInv, OwnsRecords
  <2>3. ASSUME NEW e \in plist'[p], NEW d \in plist'[p], d[1] = e[1], d[2] = e[2]
        PROVE  d = e
    BY <1>2, <2>1, <2>3 DEF LockInv, RowInv, OwnsRecords
  <2> QED BY <2>2, <2>3 DEF OwnsRecords
<1> QED BY <1>3, <1>4, <1>5, <1>6, <1>7 DEF StepOK, RowInv

(***************************************************************************)
(* The calls that wait: what they looked at is still so at the grant.      *)
(***************************************************************************)
LEMMA CallStep ==
  ASSUME LockInv, NEW p \in Proc,
         UNCHANGED <<table, hopen, lckflg, plist, oslk, sem>>,
         \A q \in Proc \ {p} : call'[q] = call[q],
         CallReady(p)'
  PROVE  StepOK(p)
<1>1. OnlyMoves(p)
  BY DEF OnlyMoves
<1>2. KernelExcludes' /\ SemaphoreCount'
  BY DEF LockInv, KernelExcludes, SemaphoreCount
<1>3. Agrees(p)' /\ OpenIfLocked(p)' /\ OwnsRecords(p)'
  BY DEF LockInv, RowInv, Agrees, KindOf, UsesSem, OpenIfLocked, RecordLocks, Shared, OwnsRecords
<1> QED BY <1>1, <1>2, <1>3 DEF StepOK, RowInv

LEMMA IdleCall ==
  ASSUME LockInv, NEW p \in Proc
  PROVE  /\ \A n \in Handle : ftab[p][n] # NULL => mode[p][ftab[p][n]] # "none"
         /\ call[p] = Idle => call = [call EXCEPT ![p] = Idle]
         /\ [call EXCEPT ![p] = Idle][p] = Idle
BY DEF LockInv, TypeOK, RowInv, CallReady

LEMMA FiolockCallStep ==
  ASSUME LockInv, NEW p \in Proc, NEW L \in SUBSET Handle, FiolockCall(p, L)
  PROVE  StepOK(p)
<1>1. CASE \E n \in L : ftab[p][n] = NULL
  <2>1. UnlockHigh(p, HighLocked(p)) /\ UNCHANGED <<table, hopen, plist>>
    BY <1>1 DEF FiolockCall
  <2>2. call' = [call EXCEPT ![p] = Idle]
    BY <1>1, IdleCall DEF FiolockCall
  <2> QED BY <2>1, <2>2, UnlockHighStep
<1>2. CASE ~ \E n \in L : ftab[p][n] = NULL
  <2>1. /\ UNCHANGED <<table, hopen, plist, oslk, sem>>
        /\ call'[p] = [op |-> "fiolock", fns |-> L, pos |-> FLLCK]
        /\ \A q \in Proc \ {p} : call'[q] = call[q] /\ lckflg'[q] = lckflg[q]
        /\ \A f \in File : lckflg'[p][f] =
             IF (\E n \in L : ftab[p][n] = f) /\ Shared(p, f) /\ "LLK" \in lckflg[p][f]
             THEN {"HLK"} ELSE lckflg[p][f]
    <3> DEFINE flags == [f \in File |->
                 IF (\E n \in L : ftab[p][n] = f) /\ Shared(p, f) /\ "LLK" \in lckflg[p][f]
                 THEN {"HLK"} ELSE lckflg[p][f]]
               row == [op |-> "fiolock", fns |-> L, pos |-> FLLCK]
    <3>1. /\ UNCHANGED <<table, hopen, plist, oslk, sem>>
          /\ lckflg' = [lckflg EXCEPT ![p] = flags]
          /\ call' = [call EXCEPT ![p] = row]
      BY <1>2 DEF FiolockCall
    <3>2. DOMAIN lckflg = Proc /\ DOMAIN call = Proc
      BY DEF LockInv, TypeOK
    <3>3. \A f \in File : flags[f] =
             IF (\E n \in L : ftab[p][n] = f) /\ Shared(p, f) /\ "LLK" \in lckflg[p][f]
             THEN {"HLK"} ELSE lckflg[p][f]
      OBVIOUS
    <3> HIDE DEF flags, row
    <3>4. /\ call'[p] = row /\ lckflg'[p] = flags
          /\ \A q \in Proc \ {p} : call'[q] = call[q] /\ lckflg'[q] = lckflg[q]
      BY <3>1, <3>2
    <3> QED BY <3>1, <3>3, <3>4 DEF row
  <2>2. /\ call'[p].op = "fiolock" /\ call'[p].fns = L
    BY <2>1
  <2>3. \A f \in File : lckflg'[p][f] = {} <=> lckflg[p][f] = {}
    BY <2>1
  <2>4. CallReady(p)'
    <3>1. \A n \in L : ftab[p][n] \in File /\ ftab[p][n] # NULL
      BY <1>2 DEF LockInv, TypeOK
    <3>2. ASSUME NEW f \in File, NEW n \in L, ftab[p][n] = f, Shared(p, f)
          PROVE  "LLK" \notin lckflg'[p][f]
      BY <2>1, <3>2
    <3>3. \A f \in File : ~ (LockFlag \subseteq lckflg'[p][f])
      BY <2>1, OneFlag DEF LockFlag
    <3> QED BY <2>1, <2>2, <3>1, <3>2, <3>3, IdleCall DEF CallReady, Shared
  <2>5. OnlyMoves(p)
    BY <2>1 DEF OnlyMoves
  <2>6. KernelExcludes' /\ SemaphoreCount'
    BY <2>1 DEF LockInv, KernelExcludes, SemaphoreCount
  <2>7. Agrees(p)'
    <3>1. \A f \in File, b \in Byte : KindOf(p, f, b)' = KindOf(p, f, b)
      BY <2>1 DEF KindOf, UsesSem
    <3>2. Agrees(p) /\ FLLCK \in Byte /\ Pos \subseteq Byte
      BY DEF LockInv, RowInv, Byte
    <3>3. oslk' = oslk /\ plist' = plist
      BY <2>1
    <3> QED BY <2>3, <3>1, <3>2, <3>3 DEF Agrees
  <2>8. OpenIfLocked(p)' /\ OwnsRecords(p)'
    BY <2>1, <2>3 DEF LockInv, RowInv, OpenIfLocked, RecordLocks, Shared, OwnsRecords
  <2> QED BY <2>4, <2>5, <2>6, <2>7, <2>8 DEF StepOK, RowInv
<1> QED BY <1>1, <1>2

LEMMA FiolockGrantStep ==
  ASSUME LockInv, NEW p \in Proc, FiolockGrant(p)
  PROVE  StepOK(p)
<1>1. PICK f \in File, V \in SUBSET hopen[p] :
        /\ NextToLock(p, f) /\ Touch(p, f, V) /\ Acquire(p, f, FLLCK, V)
        /\ hopen' = [hopen EXCEPT ![p] = (@ \ V) \cup {f}]
        /\ lckflg' = [lckflg EXCEPT ![p][f] = @ \cup {"HLK"}]
  BY DEF FiolockGrant
<1>2. Shared(p, f) /\ \E n \in call[p].fns : ftab[p][n] = f
  BY <1>1 DEF NextToLock, Todo
<1>3. /\ \A g \in File : lckflg'[p][g] = IF g = f THEN lckflg[p][f] \cup {"HLK"} ELSE lckflg[p][g]
      /\ UNCHANGED <<table, plist, call>> /\ call[p].op = "fiolock"
  BY <1>1, ZenonT(60) DEF FiolockGrant, LockInv, TypeOK
<1>4. CallReady(p)'
  <2>1. "LLK" \notin lckflg[p][f]
    BY <1>2, <1>3 DEF LockInv, RowInv, CallReady
  <2>2. \A g \in File : ~ (LockFlag \subseteq lckflg'[p][g])
    BY <2>1, <1>3 DEF LockInv, RowInv, CallReady, LockFlag
  <2>3. \A n \in call[p].fns : ftab[p][n] \in File /\ ftab[p][n] # NULL
    <3>1. call[p].fns \subseteq Handle
      BY CallType DEF LockInv
    <3>2. \A n \in call[p].fns : ftab[p][n] # NULL
      BY <1>3 DEF LockInv, RowInv, CallReady
    <3> QED BY <3>1, <3>2 DEF LockInv, TypeOK
  <2>4. ASSUME NEW n \in call[p].fns, Shared(p, ftab[p][n])
        PROVE  "LLK" \notin lckflg'[p][ftab[p][n]]
    <3>1. "LLK" \notin lckflg[p][ftab[p][n]]
      BY <1>3, <2>4 DEF LockInv, RowInv, CallReady
    <3>2. ftab[p][n] \in File
      BY <2>3
    <3> QED BY <2>1, <3>1, <3>2, <1>3
  <2> QED BY <1>3, <2>2, <2>3, <2>4, IdleCall DEF CallReady, Shared
<1> QED BY <1>1, <1>2, <1>3, <1>4, FileTaken DEF LockFlag

LEMMA FiolockReturnStep ==
  ASSUME LockInv, NEW p \in Proc, FiolockReturn(p)
  PROVE  StepOK(p)
<1>1. CallReady(p)'
  BY IdleReady, IdleCall DEF FiolockReturn
<1> QED BY <1>1, CallStep DEF FiolockReturn

LEMMA FiounlockStep ==
  ASSUME LockInv, NEW p \in Proc, NEW F \in SUBSET HighLocked(p), Fiounlock(p, F)
  PROVE  StepOK(p)
BY UnlockHighStep, IdleCall DEF Fiounlock

LEMMA FioflckCallStep ==
  ASSUME LockInv, NEW p \in Proc, NEW n \in Handle, FioflckCall(p, n)
  PROVE  StepOK(p)
<1>1. /\ call'[p] = [op |-> "fioflck", fns |-> {n}, pos |-> FLLCK]
      /\ \A q \in Proc \ {p} : call'[q] = call[q]
  BY DEF FioflckCall, LockInv, TypeOK
<1>2. call'[p].op = "fioflck" /\ call'[p].fns = {n}
  BY <1>1
<1>3. CallReady(p)'
  BY <1>2 DEF FioflckCall, LockInv, RowInv, CallReady, Shared
<1> QED BY <1>1, <1>3, CallStep DEF FioflckCall

LEMMA FioflckGrantStep ==
  ASSUME LockInv, NEW p \in Proc, FioflckGrant(p)
  PROVE  StepOK(p)
<1>1. PICK n \in call[p].fns, V \in SUBSET hopen[p] :
        /\ Touch(p, ftab[p][n], V) /\ Acquire(p, ftab[p][n], FLLCK, V)
        /\ hopen' = [hopen EXCEPT ![p] = (@ \ V) \cup {ftab[p][n]}]
        /\ lckflg' = [lckflg EXCEPT ![p][ftab[p][n]] = @ \cup {"LLK"}]
  BY DEF FioflckGrant
<1> DEFINE f == ftab[p][n]
<1>2. call[p].op = "fioflck" /\ call[p].fns \subseteq Handle
  BY CallType DEF FioflckGrant, LockInv
<1>3. f \in File /\ Shared(p, f) /\ lckflg[p][f] = {}
  BY <1>1, <1>2, SMTT(30) DEF LockInv, TypeOK, RowInv, CallReady
<1> HIDE DEF f
<1>4. /\ Touch(p, f, V) /\ Acquire(p, f, FLLCK, V)
      /\ hopen' = [hopen EXCEPT ![p] = (@ \ V) \cup {f}]
      /\ lckflg' = [lckflg EXCEPT ![p][f] = @ \cup {"LLK"}]
  BY <1>1 DEF f
<1>5. \A g \in File : lckflg'[p][g] = IF g = f THEN {"LLK"} ELSE lckflg[p][g]
  <2>1. lckflg \in [Proc -> [File -> SUBSET LockFlag]]
    BY DEF LockInv, TypeOK
  <2> QED BY <1>3, <1>4, <2>1
<1>6. UNCHANGED <<table, plist>> /\ call' = [call EXCEPT ![p] = Idle]
  BY DEF FioflckGrant
<1>7. call'[p] = Idle /\ \A q \in Proc \ {p} : call'[q] = call[q]
  BY <1>6 DEF LockInv, TypeOK
<1>8. CallReady(p)'
  <2>1. \A g \in File : ~ (LockFlag \subseteq lckflg'[p][g])
    BY <1>5 DEF LockInv, RowInv, CallReady, LockFlag
  <2>2. call'[p].op = "idle"
    BY <1>7 DEF Idle
  <2> QED BY <1>6, <1>7, <2>1, <2>2, IdleCall DEF CallReady
<1> QED BY <1>3, <1>4, <1>5, <1>6, <1>7, <1>8, FileTaken DEF LockFlag

LEMMA FiolckposCallStep ==
  ASSUME LockInv, NEW p \in Proc, NEW n \in Handle, NEW r \in Pos, NEW op,
         FiolckposCall(p, n, r, op)
  PROVE  StepOK(p)
<1>1. /\ call'[p] = [op |-> op, fns |-> {n}, pos |-> r]
      /\ \A q \in Proc \ {p} : call'[q] = call[q]
  BY DEF FiolckposCall, LockInv, TypeOK
<1>2. /\ call'[p].op = op /\ call'[p].fns = {n} /\ call'[p].pos = r
      /\ op \in {"fiolckpos", "fiotstpos"}
  BY <1>1 DEF FiolckposCall
<1>3. CallReady(p)'
  BY <1>2 DEF FiolckposCall, LockInv, RowInv, CallReady, Shared, Unlocked, RecordLocks
<1> QED BY <1>1, <1>3, CallStep DEF FiolckposCall

LEMMA FiolckposGrantStep ==
  ASSUME LockInv, NEW p \in Proc, FiolckposGrant(p)
  PROVE  StepOK(p)
<1>1. PICK n \in call[p].fns, V \in SUBSET hopen[p] :
        /\ Touch(p, ftab[p][n], V) /\ Acquire(p, ftab[p][n], call[p].pos, V)
        /\ hopen' = [hopen EXCEPT ![p] = (@ \ V) \cup {ftab[p][n]}]
        /\ plist' = [plist EXCEPT ![p] = @ \cup {<<ftab[p][n], call[p].pos, n>>}]
  BY DEF FiolckposGrant
<1> DEFINE f == ftab[p][n]
           r == call[p].pos
<1>2. call[p].op \in {"fiolckpos", "fiotstpos"} /\ call[p].fns \subseteq Handle
  BY CallType DEF FiolckposGrant, LockInv
<1>3. n \in Handle /\ f \in File /\ r \in Pos /\ Shared(p, f) /\ Unlocked(p, n, r)
  <2>1. n \in Handle /\ f # NULL
    BY <1>1, <1>2 DEF LockInv, RowInv, CallReady
  <2>2. r \in Pos /\ Shared(p, f) /\ Unlocked(p, n, r)
    BY <1>1, <1>2 DEF LockInv, RowInv, CallReady
  <2> QED BY <2>1, <2>2 DEF LockInv, TypeOK
<1>4. /\ UNCHANGED <<table, lckflg>> /\ call'[p] = Idle
      /\ \A q \in Proc \ {p} : call'[q] = call[q]
  BY DEF FiolckposGrant, LockInv, TypeOK
<1>5. CallReady(p)'
  BY <1>4, IdleCall, IdleReady
<1>6. /\ Touch(p, f, V) /\ Acquire(p, f, r, V)
      /\ hopen' = [hopen EXCEPT ![p] = (@ \ V) \cup {f}]
      /\ plist' = [plist EXCEPT ![p] = @ \cup {<<f, r, n>>}]
      /\ ftab[p][n] = f
  BY <1>1
<1> HIDE DEF f, r
<1> QED BY <1>3, <1>4, <1>5, <1>6, RecordTaken

LEMMA RefusedStep ==
  ASSUME LockInv, NEW p \in Proc, Refused(p)
  PROVE  StepOK(p)
<1>1. CASE call[p].op = "fiolock"
  <2>1. /\ UnlockHigh(p, HighLocked(p)) /\ UNCHANGED <<table, hopen, plist>>
        /\ call' = [call EXCEPT ![p] = Idle]
    BY <1>1 DEF Refused
  <2> QED BY <2>1, UnlockHighStep
<1>2. CASE call[p].op # "fiolock"
  <2>1. /\ UNCHANGED <<table, hopen, plist, lckflg, oslk, sem>>
        /\ call'[p] = Idle /\ \A q \in Proc \ {p} : call'[q] = call[q]
    BY <1>2 DEF Refused, LockInv, TypeOK
  <2>2. CallReady(p)'
    BY <2>1, IdleCall, IdleReady
  <2> QED BY <2>1, <2>2, CallStep
<1> QED BY <1>1, <1>2

(***************************************************************************)
(* The invariant, and what follows from it.                                *)
(***************************************************************************)
LEMMA RowInvInit == Init => LockInv
<1> SUFFICES ASSUME Init PROVE LockInv
  OBVIOUS
<1>1. TypeOK
  BY DEF Init, TypeOK, LockKind, Mode, Idle, Op, Byte
<1>2. KernelExcludes /\ SemaphoreCount
  BY DEF Init, KernelExcludes, SemaphoreCount, Ranges, Byte
<1>3. ASSUME NEW p \in Proc PROVE RowInv(p)
  <2>1. CallReady(p)
    BY DEF Init, CallReady, Idle, LockFlag
  <2>2. Agrees(p)
    BY DEF Init, Agrees, Ranges, Byte
  <2>3. OpenIfLocked(p) /\ OwnsRecords(p)
    BY DEF Init, OpenIfLocked, OwnsRecords, RecordLocks
  <2> QED BY <2>1, <2>2, <2>3 DEF RowInv
<1> QED BY <1>1, <1>2, <1>3 DEF LockInv

LEMMA StepGives ==
  ASSUME LockInv, TypeOK', NEW p \in Proc, StepOK(p)
  PROVE  LockInv'
<1>1. ASSUME NEW q \in Proc PROVE RowInv(q)'
  <2>1. CASE q = p
    BY <2>1 DEF StepOK
  <2>2. CASE q # p
    BY <2>2, OtherRow DEF StepOK, LockInv
  <2> QED BY <2>1, <2>2
<1> QED BY <1>1 DEF LockInv, StepOK

LEMMA InvStep == LockInv /\ [Next]_vars => LockInv'
<1> SUFFICES ASSUME LockInv, [Next]_vars PROVE LockInv'
  OBVIOUS
<1>1. TypeOK'
  BY TypeStep DEF LockInv, HandlesInUse, RowInv
<1>2. CASE UNCHANGED vars
  <2>1. KernelExcludes' /\ SemaphoreCount'
    BY <1>2 DEF vars, LockInv, KernelExcludes, SemaphoreCount
  <2>2. ASSUME NEW p \in Proc PROVE RowInv(p)'
    <3>1. CallReady(p)'
      BY <1>2 DEF vars, LockInv, RowInv, CallReady, Shared, Unlocked, RecordLocks
    <3>2. UNCHANGED <<table, hopen, lckflg, plist, oslk, sem>>
      BY <1>2 DEF vars
    <3>3. \A q \in Proc \ {p} : call'[q] = call[q]
      BY <1>2 DEF vars
    <3> QED BY <3>1, <3>2, <3>3, CallStep DEF StepOK
  <2> QED BY <1>1, <2>1, <2>2 DEF LockInv
<1>3. CASE Next
  <2>1. ASSUME NEW p \in Proc,
               \/ Opens(p) \/ Closes(p)
               \/ FileCall(p) \/ FileGrant(p) \/ FiolockReturn(p) \/ FileRelease(p)
               \/ RecordCall(p) \/ FiolckposGrant(p) \/ RecordRelease(p)
               \/ Refused(p) \/ Loses(p)
        PROVE  StepOK(p)
    <3>1. CASE Opens(p) \/ Closes(p)
      BY <3>1, OpenStep, CloseStep DEF Opens, Closes
    <3>2. CASE FileCall(p) \/ FileGrant(p) \/ FiolockReturn(p)
      BY <3>2, FiolockCallStep, FioflckCallStep, FiolockGrantStep, FioflckGrantStep,
         FiolockReturnStep
      DEF FileCall, FileGrant
    <3>3. CASE FileRelease(p)
      <4>1. \A f \in HighLocked(p) : {f} \in SUBSET HighLocked(p)
        OBVIOUS
      <4> QED BY <3>3, <4>1, FiounlockStep, FiofulkStep DEF FileRelease
    <3>4. CASE RecordCall(p) \/ FiolckposGrant(p) \/ RecordRelease(p)
      BY <3>4, FiolckposCallStep, FiolckposGrantStep, FioulkposStep
      DEF RecordCall, RecordRelease
    <3>5. CASE Refused(p) \/ Loses(p)
      BY <3>5, RefusedStep, FioclruStep, RolloutStep, FlushFailsStep, CrashStep DEF Loses
    <3> QED BY <2>1, <3>1, <3>2, <3>3, <3>4, <3>5
  <2>2. PICK p \in Proc : StepOK(p)
    BY <1>3, <2>1 DEF Next
  <2> QED BY <1>1, <2>2, StepGives
<1> QED BY <1>2, <1>3

\* LockInv is inductive: whatever a process calls, refuses or loses, its
\* tables and the kernel stay in step (fio.c and fioalock in fioaunx.c).
THEOREM LockInvariant == Spec => []LockInv
<1> QED BY RowInvInit, InvStep, PTL DEF Spec

\* Every variable keeps its type.
THEOREM TypeCorrect == Spec => []TypeOK
<1>1. LockInv => TypeOK
  BY DEF LockInv
<1> QED BY <1>1, LockInvariant, PTL

\* No lock is leaked or lost: the flags and lists of the handle table say what
\* the kernel holds.
THEOREM TablesAgree == Spec => []TableAgrees
<1>1. LockInv => TableAgrees
  BY DEF LockInv, RowInv, TableAgrees
<1> QED BY <1>1, LockInvariant, PTL

\* A file with a lock is never the one closed to stay below openlimit, and a
\* record lock stays with the handle that took it.
THEOREM LockedStaysOpen == Spec => [](LockedIsOpen /\ RecordOwner)
<1>1. LockInv => LockedIsOpen /\ RecordOwner
  BY DEF LockInv, RowInv, LockedIsOpen, RecordOwner
<1> QED BY <1>1, LockInvariant, PTL

\* The semaphore of a file counts its holder, so that it admits one writer.
THEOREM SemaphoreCounts == Spec => []SemaphoreCount
<1>1. LockInv => SemaphoreCount
  BY DEF LockInv
<1> QED BY <1>1, LockInvariant, PTL

\* While a process that writes a file has it locked (fiolock or fioflck), no
\* other process has: only a reader, and only beside a semaphore.
THEOREM FilesExcluded == Spec => []FileExclusion
<1>1. LockInv => FileExclusion
  <2> SUFFICES ASSUME LockInv, NEW p \in Proc, NEW q \in Proc, NEW f \in File,
                      p # q, lckflg[p][f] # {}, lckflg[q][f] # {}, Writes(p, f)
               PROVE  SemLock /\ ~Writes(q, f)
    BY DEF FileExclusion
  <2>1. /\ oslk[p][<<f, FLLCK>>] = KindOf(p, f, FLLCK)
        /\ oslk[q][<<f, FLLCK>>] = KindOf(q, f, FLLCK)
        /\ <<f, FLLCK>> \in Ranges
    BY DEF LockInv, RowInv, Agrees, Ranges, Byte
  <2>2. KindOf(p, f, FLLCK) = IF SemLock THEN "sem" ELSE "wr"
    BY DEF KindOf, UsesSem, Writes
  <2>3. KindOf(q, f, FLLCK) = IF Writes(q, f) /\ SemLock THEN "sem"
                              ELSE IF Writes(q, f) THEN "wr" ELSE "rd"
    BY DEF KindOf, UsesSem, Writes
  <2> QED BY <2>1, <2>2, <2>3 DEF LockInv, KernelExcludes
<1> QED BY <1>1, LockInvariant, PTL

\* A record that a process locked through a file open for writing (fiolckpos)
\* is locked by no other process.
THEOREM RecordsExcluded == Spec => []RecordExclusion
<1>1. LockInv => RecordExclusion
  <2> SUFFICES ASSUME LockInv, NEW p \in Proc, NEW q \in Proc,
                      NEW e \in plist[p], NEW d \in plist[q],
                      p # q, e[1] = d[1], e[2] = d[2], Writes(p, e[1])
               PROVE  FALSE
    BY DEF RecordExclusion
  <2>1. /\ e = <<e[1], e[2], e[3]>> /\ e[1] \in File /\ e[2] \in Pos /\ e[3] \in Handle
        /\ d = <<d[1], d[2], d[3]>> /\ d[3] \in Handle
    BY DEF LockInv, TypeOK
  <2> DEFINE f == e[1]
             r == e[2]
  <2>2. <<f, r, e[3]>> \in plist[p] /\ <<f, r, d[3]>> \in plist[q]
    BY <2>1
  <2>3. /\ oslk[p][<<f, r>>] = KindOf(p, f, r)
        /\ oslk[q][<<f, r>>] = KindOf(q, f, r)
        /\ <<f, r>> \in Ranges
    BY <2>1, <2>2 DEF LockInv, RowInv, Agrees, Ranges, Byte
  <2>4. KindOf(p, f, r) = "wr" /\ KindOf(q, f, r) \in {"rd", "wr"}
    BY <2>1 DEF KindOf, UsesSem, Writes
  <2> QED BY <2>3, <2>4 DEF LockInv, KernelExcludes
<1> QED BY <1>1, LockInvariant, PTL

(***************************************************************************)
(* fiolock locks its whole list or keeps nothing.                          *)
(***************************************************************************)
LEMMA CallFiles ==
  ASSUME LockInv, NEW p \in Proc, call[p].op # "idle", NEW n \in call[p].fns
  PROVE  n \in Handle /\ ftab[p][n] \in File
<1>1. n \in Handle
  BY CallType DEF LockInv
<1>2. ftab[p][n] # NULL
  BY DEF LockInv, RowInv, CallReady
<1> QED BY <1>1, <1>2 DEF LockInv, TypeOK

LEMMA AllOrNothingStep ==
  ASSUME LockInv, [Next]_vars, NEW p \in Proc,
         call[p].op = "fiolock", call'[p].op = "idle"
  PROVE  \/ \A n \in call[p].fns :
              Shared(p, ftab[p][n]) => "HLK" \in lckflg'[p][ftab[p][n]]
         \/ \A f \in File : "HLK" \notin lckflg'[p][f]
<1>1. call'[p] # call[p] /\ call[p] # Idle
  BY DEF Idle
<1>2. PICK q \in Proc :
        \/ Opens(q) \/ Closes(q)
        \/ FileCall(q) \/ FileGrant(q) \/ FiolockReturn(q) \/ FileRelease(q)
        \/ RecordCall(q) \/ FiolckposGrant(q) \/ RecordRelease(q)
        \/ Refused(q) \/ Loses(q)
  BY <1>1 DEF Next, vars
<1>3. q = p
  <2>1. CASE \/ Opens(q) \/ Closes(q) \/ FileRelease(q) \/ RecordRelease(q)
             \/ Fioclru(q) \/ Rollout(q) \/ (\E f \in File : FlushFails(q, f))
             \/ FiolockGrant(q)
    BY <1>1, <2>1 DEF Opens, Closes, FileRelease, RecordRelease, Open, Close, Fiounlock,
       Fiofulk, Fioulkpos, Fioclru, Rollout, FlushFails, FiolockGrant
  <2>2. CASE \/ FileCall(q) \/ RecordCall(q) \/ FioflckGrant(q) \/ FiolckposGrant(q)
             \/ FiolockReturn(q) \/ Refused(q) \/ Crash(q)
    BY <1>1, <2>2 DEF FileCall, RecordCall, FiolockCall, FioflckCall, FiolckposCall,
       FioflckGrant, FiolckposGrant, FiolockReturn, Refused, Crash, LockInv, TypeOK
  <2> QED BY <1>2, <2>1, <2>2 DEF FileGrant, Loses
<1>4. FiolockReturn(p) \/ Refused(p) \/ Crash(p)
  <2>1. ~ (Opens(p) \/ Closes(p) \/ FileRelease(p) \/ RecordRelease(p) \/ Fioclru(p)
             \/ Rollout(p) \/ \E f \in File : FlushFails(p, f))
    BY <1>1 DEF Opens, Closes, FileRelease, RecordRelease, Open, Close, Fiounlock,
       Fiofulk, Fioulkpos, Fioclru, Rollout, FlushFails
  <2>2. ~ (FileCall(p) \/ RecordCall(p) \/ FileGrant(p) \/ FiolckposGrant(p))
    BY <1>1 DEF FileCall, RecordCall, FileGrant, FiolockCall, FioflckCall, FiolckposCall,
       FiolockGrant, FioflckGrant, FiolckposGrant
  <2> QED BY <1>2, <1>3, <2>1, <2>2 DEF Loses
<1>5. CASE FiolockReturn(p)
  <2>1. lckflg' = lckflg /\ Todo(p) = {}
    BY <1>5 DEF FiolockReturn
  <2>2. \A n \in call[p].fns : ftab[p][n] \in File
    BY CallFiles
  <2> QED BY <2>1, <2>2 DEF Todo
<1>6. CASE Refused(p)
  <2>1. UnlockHigh(p, HighLocked(p))
    BY <1>6 DEF Refused
  <2>2. \A f \in File : "HLK" \notin lckflg'[p][f]
    BY <2>1 DEF UnlockHigh, HighLocked, LockInv, TypeOK
  <2> QED BY <2>2
<1>7. CASE Crash(p)
  BY <1>7 DEF Crash, LockInv, TypeOK
<1> QED BY <1>4, <1>5, <1>6, <1>7

\* A fiolock that returns has locked every file of its list or holds no lock
\* of filepi at all, for lists of any length.
THEOREM AllOrNothing == Spec => FilepiAllOrNothing
<1>1. LockInv /\ [Next]_vars =>
        [\A p \in Proc :
           call[p].op = "fiolock" /\ call'[p].op = "idle" =>
             \/ \A n \in call[p].fns :
                  Shared(p, ftab[p][n]) => "HLK" \in lckflg'[p][ftab[p][n]]
             \/ \A f \in File : "HLK" \notin lckflg'[p][f]]_vars
  BY AllOrNothingStep
<1> QED BY <1>1, LockInvariant, PTL DEF Spec, FilepiAllOrNothing

(***************************************************************************)
(* The tables of the processes implement a lock manager.                   *)
(***************************************************************************)
LEMMA HeldIsKernel == LockInv => HeldLocks = oslk
<1> SUFFICES ASSUME LockInv PROVE HeldLocks = oslk
  OBVIOUS
<1>1. ASSUME NEW p \in Proc, NEW x \in Ranges
      PROVE  oslk[p][x] = IF Locked(p, x) THEN KindOf(p, x[1], x[2]) ELSE "none"
  <2>1. PICK f \in File, b \in Byte : x = <<f, b>>
    <3>1. x \in File \X Byte
      BY DEF Ranges
    <3>2. x = <<x[1], x[2]>> /\ x[1] \in File /\ x[2] \in Byte
      BY <3>1
    <3> QED BY <3>2
  <2>2. CASE b = FLLCK
    BY <2>1, <2>2 DEF Locked, LockInv, RowInv, Agrees
  <2>3. CASE b # FLLCK
    BY <2>1, <2>3 DEF Locked, LockInv, RowInv, Agrees, Byte
  <2> QED BY <2>2, <2>3
<1> QED BY <1>1 DEF HeldLocks, LockInv, TypeOK

KernelMoves(p) ==
  \/ \E B, F : Release(p, B, F)
  \/ \E f \in File, b \in Byte : \E V : Touch(p, f, V) /\ Acquire(p, f, b, V)
  \/ oslk' = oslk

LEMMA EveryStepMoves ==
  ASSUME LockInv, Next
  PROVE  \E p \in Proc : KernelMoves(p)
<1>1. PICK p \in Proc :
        \/ Opens(p) \/ Closes(p)
        \/ FileCall(p) \/ FileGrant(p) \/ FiolockReturn(p) \/ FileRelease(p)
        \/ RecordCall(p) \/ FiolckposGrant(p) \/ RecordRelease(p)
        \/ Refused(p) \/ Loses(p)
  BY DEF Next
<1>2. CASE Opens(p)
  BY <1>2 DEF Opens, Open, KernelMoves
<1>3. CASE Closes(p)
  BY <1>3 DEF Closes, Close, KernelMoves
<1>4. CASE FileCall(p) \/ FiolockReturn(p) \/ RecordCall(p)
  BY <1>4 DEF FileCall, FiolockReturn, RecordCall, FiolockCall, UnlockHigh, FioflckCall,
     FiolckposCall, KernelMoves
<1>5. CASE FiolockGrant(p)
  <2>1. PICK f \in File, V \in SUBSET hopen[p] : Touch(p, f, V) /\ Acquire(p, f, FLLCK, V)
    BY <1>5 DEF FiolockGrant
  <2> QED BY <2>1 DEF KernelMoves, Byte
<1>6. CASE FioflckGrant(p)
  <2>1. PICK n \in call[p].fns, V \in SUBSET hopen[p] :
          Touch(p, ftab[p][n], V) /\ Acquire(p, ftab[p][n], FLLCK, V)
    BY <1>6 DEF FioflckGrant
  <2>2. ftab[p][n] \in File
    BY <1>6, CallFiles DEF FioflckGrant
  <2> QED BY <2>1, <2>2 DEF KernelMoves, Byte
<1>7. CASE FiolckposGrant(p)
  <2>1. PICK n \in call[p].fns, V \in SUBSET hopen[p] :
          Touch(p, ftab[p][n], V) /\ Acquire(p, ftab[p][n], call[p].pos, V)
    BY <1>7 DEF FiolckposGrant
  <2>2. ftab[p][n] \in File /\ call[p].pos \in Byte
    BY <1>7, CallFiles, CallType DEF FiolckposGrant, LockInv
  <2> QED BY <2>1, <2>2 DEF KernelMoves
<1>8. CASE FileRelease(p) \/ RecordRelease(p)
  BY <1>8 DEF FileRelease, RecordRelease, Fiounlock, UnlockHigh, Fiofulk, Fioulkpos, KernelMoves
<1>9. CASE Refused(p)
  BY <1>9 DEF Refused, UnlockHigh, KernelMoves
<1>10. CASE Loses(p)
  BY <1>10 DEF Loses, Fioclru, Rollout, FlushFails, CloseWithLocks, Crash, KernelMoves
<1> QED
  BY <1>1, <1>2, <1>3, <1>4, <1>5, <1>6, <1>7, <1>8, <1>9, <1>10 DEF FileGrant

LEMMA MovesTake ==
  ASSUME LockInv, LockInv', NEW p \in Proc, KernelMoves(p), HeldLocks = oslk,
         HeldLocks' = oslk'
  PROVE  LM!Next \/ HeldLocks' = HeldLocks
<1>1. CASE \E B, F : Release(p, B, F)
  <2>1. /\ \A x \in Ranges : oslk'[p][x] \in {oslk[p][x], "none"}
        /\ \A q \in Proc \ {p} : oslk'[q] = oslk[q]
    BY <1>1 DEF Release, LocksWithout, LockInv, TypeOK
  <2>2. LM!GiveBack(p)
    BY <2>1 DEF LM!GiveBack, LM!Others
  <2> QED BY <2>2 DEF LM!Next
<1>2. CASE \E f \in File, b \in Byte : \E V : Touch(p, f, V) /\ Acquire(p, f, b, V)
  <2>1. PICK f \in File, b \in Byte : \E V : Touch(p, f, V) /\ Acquire(p, f, b, V)
    BY <1>2
  <2>2. /\ oslk'[p] = [oslk[p] EXCEPT ![<<f, b>>] = KindOf(p, f, b)]
        /\ \A q \in Proc \ {p} : oslk'[q] = oslk[q]
    BY <2>1, TouchAcquire
  <2>3. /\ <<f, b>> \in Ranges /\ KindOf(p, f, b) \in LM!Kind
        /\ oslk'[p][<<f, b>>] = KindOf(p, f, b)
        /\ \A y \in Ranges \ {<<f, b>>} : oslk'[p][y] = oslk[p][y]
    BY <2>2 DEF KindOf, LM!Kind, Ranges, LockInv, TypeOK
  <2>4. \A q \in Proc \ {p} : ~ LM!Conflict(oslk'[p][<<f, b>>], oslk[q][<<f, b>>])
    BY <2>2, <2>3 DEF LM!Conflict, LockInv, KernelExcludes
  <2>5. LM!Take(p, <<f, b>>)
    BY <2>2, <2>3, <2>4 DEF LM!Take, LM!Others
  <2> QED BY <2>3, <2>5 DEF LM!Next
<1>3. CASE oslk' = oslk
  BY <1>3
<1> QED BY <1>1, <1>2, <1>3 DEF KernelMoves

\* The locks a process has by its own tables are those of a lock manager: it
\* takes one at a time, against nobody else's, and only it gives them back.
THEOREM Refinement == Spec => IsLockManager
<1>1. Init => LM!Init
  <2>1. ASSUME Init PROVE HeldLocks = oslk
    BY <2>1, RowInvInit, HeldIsKernel
  <2> QED BY <2>1 DEF Init, LM!Init
<1>2. (LockInv => HeldLocks = oslk)'
  BY HeldIsKernel, PTL
<1>3. LockInv /\ LockInv' /\ [Next]_vars => [LM!Next]_HeldLocks
  <2> SUFFICES ASSUME LockInv, LockInv', [Next]_vars
               PROVE  LM!Next \/ HeldLocks' = HeldLocks
    OBVIOUS
  <2>1. HeldLocks = oslk /\ HeldLocks' = oslk'
    BY <1>2, HeldIsKernel
  <2>2. CASE UNCHANGED vars
    BY <2>1, <2>2 DEF vars
  <2>3. CASE Next
    BY <2>1, <2>3, EveryStepMoves, MovesTake
  <2> QED BY <2>2, <2>3
<1> QED BY <1>1, <1>3, LockInvariant, PTL DEF Spec, IsLockManager, LM!Spec

HIDE FileLockAssumption DEF NULL, FLLCK, table

(***************************************************************************)
(* Filepi.                                                                 *)
(***************************************************************************)
FilepiTypeOK ==
  /\ fpicnt \in [Proc -> Nat]
  /\ counts \in [Proc -> BOOLEAN]
  /\ trapped \in [Proc -> BOOLEAN]
  /\ stage \in [Proc -> {"next", "verb", "io"}]

\* A program is at its next verb only when its call has returned.
SectionInv(p) ==
  /\ stage[p] = "next" => call[p] = Idle
  /\ \A f \in File : "HLK" \in lckflg[p][f] => fpicnt[p] > 0 \/ call[p].op = "fiolock"
  /\ fpicnt[p] > 0 => counts[p] \/ trapped[p]

FilepiInv == LockInv /\ FilepiTypeOK /\ \A p \in Proc : SectionInv(p)

LEMMA IdleOp == Idle.op = "idle"
BY DEF Idle

LEMMA FilepiConstants == {"fiolock", "fioflck"} \subseteq Calls /\ MaxCount \in Nat
BY FilepiAssumption

\* The count, whether verbs count, and the stage of p change.
LEMMA CountTo ==
  ASSUME FilepiTypeOK, NEW p \in Proc, NEW c \in Nat, CountIs(p, c)
  PROVE  fpicnt' \in [Proc -> Nat] /\ fpicnt'[p] = c /\ \A q \in Proc \ {p} : fpicnt'[q] = fpicnt[q]
BY DEF FilepiTypeOK, CountIs

LEMMA CountingTo ==
  ASSUME FilepiTypeOK, NEW p \in Proc, NEW c \in BOOLEAN, Counting(p, c)
  PROVE  /\ counts' \in [Proc -> BOOLEAN] /\ counts'[p] = c
         /\ \A q \in Proc \ {p} : counts'[q] = counts[q]
BY DEF FilepiTypeOK, Counting

LEMMA TrappedTo ==
  ASSUME FilepiTypeOK, NEW p \in Proc, NEW c \in BOOLEAN, Trapped(p, c)
  PROVE  /\ trapped' \in [Proc -> BOOLEAN] /\ trapped'[p] = c
         /\ \A q \in Proc \ {p} : trapped'[q] = trapped[q]
BY DEF FilepiTypeOK, Trapped

LEMMA GoesTo ==
  ASSUME FilepiTypeOK, NEW p \in Proc, NEW s \in {"next", "verb", "io"}, Goes(p, s)
  PROVE  /\ stage' \in [Proc -> {"next", "verb", "io"}] /\ stage'[p] = s
         /\ \A q \in Proc \ {p} : stage'[q] = stage[q]
BY DEF FilepiTypeOK, Goes

\* A step of p is one of FileLock, and leaves the others alone.
OthersSection(p) == \A q \in Proc \ {p} :
  /\ lckflg'[q] = lckflg[q] /\ call'[q] = call[q]
  /\ fpicnt'[q] = fpicnt[q] /\ counts'[q] = counts[q] /\ trapped'[q] = trapped[q]
  /\ stage'[q] = stage[q]

LEMMA SectionStep ==
  ASSUME FilepiInv, NEW p \in Proc, [Next]_vars, FilepiTypeOK', OthersSection(p), SectionInv(p)'
  PROVE  FilepiInv'
<1>1. LockInv'
  BY InvStep DEF FilepiInv
<1>2. ASSUME NEW q \in Proc \ {p} PROVE SectionInv(q)'
  BY DEF FilepiInv, SectionInv, OthersSection
<1> QED BY <1>1, <1>2 DEF FilepiInv

\* fiounlock of all files of filepi, by a program that is in no call.
LEMMA ZeroStep ==
  ASSUME FilepiInv, NEW p \in Proc, call[p] = Idle, FilepiZero(p)
  PROVE  /\ Next /\ fpicnt' \in [Proc -> Nat] /\ fpicnt'[p] = 0
         /\ \A f \in File : "HLK" \notin lckflg'[p][f]
         /\ call'[p] = Idle
         /\ \A q \in Proc \ {p} : /\ lckflg'[q] = lckflg[q] /\ call'[q] = call[q]
                                  /\ fpicnt'[q] = fpicnt[q]
<1>1. TypeOK /\ FilepiTypeOK
  BY DEF FilepiInv, LockInv
<1>2. Fiounlock(p, HighLocked(p))
  BY FilepiConstants DEF FilepiZero, Fiounlock
<1>3. Next
  BY <1>2 DEF Next, FileRelease
<1>4. /\ \A f \in File : lckflg'[p][f] = IF f \in HighLocked(p) THEN lckflg[p][f] \ {"HLK"} ELSE lckflg[p][f]
      /\ \A q \in Proc \ {p} : lckflg'[q] = lckflg[q]
  BY <1>1 DEF TypeOK, FilepiZero, UnlockHigh
<1>5. \A f \in File : "HLK" \notin lckflg'[p][f]
  BY <1>4 DEF HighLocked
<1>6. call' = call
  BY DEF FilepiZero
<1>7. fpicnt' \in [Proc -> Nat] /\ fpicnt'[p] = 0 /\ \A q \in Proc \ {p} : fpicnt'[q] = fpicnt[q]
  BY <1>1, CountTo DEF FilepiZero
<1> QED BY <1>3, <1>4, <1>5, <1>6, <1>7

LEMMA NextVerbStep == ASSUME FilepiInv, NEW p \in Proc, NextVerb(p) PROVE [Next]_vars /\ FilepiInv'
<1>1. TypeOK /\ FilepiTypeOK /\ call[p] = Idle /\ stage[p] = "next" /\ SectionInv(p)
  BY DEF FilepiInv, LockInv, SectionInv, NextVerb
<1>2. /\ stage' \in [Proc -> {"next", "verb", "io"}] /\ stage'[p] = "verb"
      /\ \A q \in Proc \ {p} : stage'[q] = stage[q]
  BY <1>1, GoesTo DEF NextVerb
<1>3. UNCHANGED trapped
  BY DEF NextVerb
<1>4. CASE ~counts[p] /\ UNCHANGED <<vars, fpicnt, counts>>
  <2>1. UNCHANGED <<vars, fpicnt, counts>> /\ UNCHANGED vars /\ UNCHANGED lckflg /\ UNCHANGED call
    BY <1>4 DEF vars
  <2>2. FilepiTypeOK'
    BY <1>1, <1>2, <1>3, <2>1 DEF FilepiTypeOK
  <2>3. OthersSection(p)
    BY <1>2, <1>3, <2>1 DEF OthersSection
  <2>4. SectionInv(p)'
    BY <1>1, <1>2, <1>3, <2>1 DEF SectionInv
  <2> QED BY <2>1, <2>2, <2>3, <2>4, SectionStep
<1>5. CASE counts[p] /\ fpicnt[p] > 1 /\ CountIs(p, fpicnt[p] - 1) /\ UNCHANGED <<vars, counts>>
  <2>1. UNCHANGED vars /\ UNCHANGED lckflg /\ UNCHANGED call /\ UNCHANGED counts
    BY <1>5 DEF vars
  <2>2. fpicnt[p] \in Nat /\ fpicnt[p] - 1 \in Nat /\ fpicnt[p] - 1 > 0
    BY <1>1, <1>5 DEF FilepiTypeOK
  <2>3. /\ fpicnt' \in [Proc -> Nat] /\ fpicnt'[p] = fpicnt[p] - 1
        /\ \A q \in Proc \ {p} : fpicnt'[q] = fpicnt[q]
    BY <1>1, <1>5, <2>2, CountTo
  <2>4. FilepiTypeOK' /\ OthersSection(p)
    BY <1>1, <1>2, <1>3, <2>1, <2>3 DEF FilepiTypeOK, OthersSection
  <2>5. SectionInv(p)'
    BY <1>1, <1>2, <1>3, <1>5, <2>1, <2>2, <2>3 DEF SectionInv
  <2> QED BY <2>1, <2>4, <2>5, SectionStep
<1>6. CASE /\ counts[p] /\ fpicnt[p] <= 1 /\ Counting(p, FALSE)
           /\ IF fpicnt[p] = 1 THEN FilepiZero(p) ELSE UNCHANGED <<vars, fpicnt>>
  <2>1. /\ counts' \in [Proc -> BOOLEAN]
        /\ \A q \in Proc \ {p} : counts'[q] = counts[q]
    BY <1>1, <1>6, CountingTo
  <2>2. /\ [Next]_vars /\ fpicnt' \in [Proc -> Nat] /\ fpicnt'[p] = 0
        /\ \A f \in File : "HLK" \notin lckflg'[p][f]
        /\ \A q \in Proc \ {p} : /\ lckflg'[q] = lckflg[q] /\ call'[q] = call[q]
                                 /\ fpicnt'[q] = fpicnt[q]
    <3>1. CASE fpicnt[p] = 1
      BY <1>1, <1>6, <3>1, ZeroStep
    <3>2. CASE fpicnt[p] # 1
      <4>1. fpicnt[p] = 0
        BY <1>1, <1>6, <3>2 DEF FilepiTypeOK
      <4>2. UNCHANGED vars /\ UNCHANGED lckflg /\ UNCHANGED call /\ UNCHANGED fpicnt
        BY <1>6, <3>2 DEF vars
      <4>3. \A f \in File : "HLK" \notin lckflg[p][f]
        BY <1>1, <4>1, IdleOp DEF SectionInv
      <4> QED BY <1>1, <4>1, <4>2, <4>3 DEF FilepiTypeOK
    <3> QED BY <3>1, <3>2
  <2>3. FilepiTypeOK' /\ OthersSection(p)
    BY <1>1, <1>2, <1>3, <2>1, <2>2 DEF FilepiTypeOK, OthersSection
  <2>4. SectionInv(p)'
    BY <1>2, <2>2 DEF SectionInv
  <2> QED BY <2>2, <2>3, <2>4, SectionStep
<1> QED BY <1>4, <1>5, <1>6 DEF NextVerb

\* Steps that leave the locks alone.
LEMMA QuietLocks ==
  ASSUME UNCHANGED vars
  PROVE  UNCHANGED lckflg /\ UNCHANGED call /\ [Next]_vars
BY DEF vars

LEMMA TrapCallStep == ASSUME FilepiInv, NEW p \in Proc, TrapCall(p) PROVE [Next]_vars /\ FilepiInv'
<1>1. FilepiTypeOK /\ SectionInv(p) /\ UNCHANGED vars /\ UNCHANGED fpicnt /\ UNCHANGED stage
  BY DEF FilepiInv, TrapCall
<1>2. counts' \in [Proc -> BOOLEAN] /\ \A q \in Proc \ {p} : counts'[q] = counts[q]
  BY <1>1, CountingTo DEF TrapCall
<1>3. trapped' \in [Proc -> BOOLEAN] /\ trapped'[p] = TRUE /\ \A q \in Proc \ {p} : trapped'[q] = trapped[q]
  BY <1>1, TrappedTo DEF TrapCall
<1>4. FilepiTypeOK' /\ OthersSection(p)
  BY <1>1, <1>2, <1>3, QuietLocks DEF FilepiTypeOK, OthersSection
<1>5. SectionInv(p)'
  BY <1>1, <1>3, QuietLocks DEF SectionInv
<1> QED BY <1>1, <1>4, <1>5, QuietLocks, SectionStep

LEMMA TrapReturnStep == ASSUME FilepiInv, NEW p \in Proc, TrapReturn(p) PROVE [Next]_vars /\ FilepiInv'
<1> DEFINE c == counts[p] \/ fpicnt[p] > 0
<1>1. FilepiTypeOK /\ SectionInv(p) /\ UNCHANGED vars /\ UNCHANGED fpicnt /\ UNCHANGED stage
  BY DEF FilepiInv, TrapReturn
<1>2. c \in BOOLEAN /\ Counting(p, c) /\ (fpicnt[p] > 0 => c)
  BY DEF TrapReturn
<1> HIDE DEF c
<1>3. counts' \in [Proc -> BOOLEAN] /\ counts'[p] = c /\ \A q \in Proc \ {p} : counts'[q] = counts[q]
  BY <1>1, <1>2, CountingTo
<1>4. trapped' \in [Proc -> BOOLEAN] /\ \A q \in Proc \ {p} : trapped'[q] = trapped[q]
  BY <1>1, TrappedTo DEF TrapReturn
<1>5. FilepiTypeOK' /\ OthersSection(p)
  BY <1>1, <1>3, <1>4, QuietLocks DEF FilepiTypeOK, OthersSection
<1>6. fpicnt'[p] > 0 => counts'[p]
  BY <1>1, <1>2, <1>3
<1>7. SectionInv(p)'
  BY <1>1, <1>6, QuietLocks DEF SectionInv
<1> QED BY <1>1, <1>5, <1>7, QuietLocks, SectionStep

LEMMA UncountedVerbStep == ASSUME FilepiInv, NEW p \in Proc, UncountedVerb(p) PROVE [Next]_vars /\ FilepiInv'
<1>1. FilepiTypeOK /\ SectionInv(p) /\ UNCHANGED vars /\ UNCHANGED counts /\ UNCHANGED trapped
      /\ call[p] = Idle /\ fpicnt[p] > 0
  BY DEF FilepiInv, UncountedVerb
<1>2. fpicnt[p] \in Nat /\ fpicnt[p] + 1 \in Nat /\ fpicnt[p] + 1 > 0
  BY <1>1 DEF FilepiTypeOK
<1>3. /\ fpicnt' \in [Proc -> Nat] /\ fpicnt'[p] = fpicnt[p] + 1
      /\ \A q \in Proc \ {p} : fpicnt'[q] = fpicnt[q]
  BY <1>1, <1>2, CountTo DEF UncountedVerb
<1>4. stage' \in [Proc -> {"next", "verb", "io"}] /\ \A q \in Proc \ {p} : stage'[q] = stage[q]
  BY <1>1, GoesTo DEF UncountedVerb
<1>5. FilepiTypeOK' /\ OthersSection(p)
  BY <1>1, <1>3, <1>4, QuietLocks DEF FilepiTypeOK, OthersSection
<1>6. SectionInv(p)'
  BY <1>1, <1>2, <1>3, QuietLocks DEF SectionInv
<1> QED BY <1>1, <1>5, <1>6, QuietLocks, SectionStep

LEMMA FilepiCancelStep == ASSUME FilepiInv, NEW p \in Proc, FilepiCancel(p) PROVE [Next]_vars /\ FilepiInv'
<1>1. FilepiTypeOK /\ call[p] = Idle /\ FilepiZero(p) /\ UNCHANGED counts /\ UNCHANGED trapped
  BY DEF FilepiInv, FilepiCancel
<1>2. stage' \in [Proc -> {"next", "verb", "io"}] /\ \A q \in Proc \ {p} : stage'[q] = stage[q]
  BY <1>1, GoesTo DEF FilepiCancel
<1>3. FilepiTypeOK' /\ OthersSection(p)
  BY <1>1, <1>2, ZeroStep DEF FilepiTypeOK, OthersSection
<1>4. SectionInv(p)'
  BY <1>1, ZeroStep DEF SectionInv
<1> QED BY <1>1, <1>3, <1>4, ZeroStep, SectionStep

LEMMA FilepiLockStep ==
  ASSUME FilepiInv, NEW p \in Proc, NEW L \in SUBSET Handle, L # {}, FilepiLock(p, L)
  PROVE  [Next]_vars /\ FilepiInv'
<1>1. /\ TypeOK /\ FilepiTypeOK /\ call[p] = Idle /\ stage[p] = "verb" /\ SectionInv(p)
      /\ UNCHANGED counts /\ UNCHANGED trapped /\ UNCHANGED stage
  BY DEF FilepiInv, LockInv, FilepiLock
<1>2. CASE fpicnt[p] > 0
  <2>1. FilepiZero(p)
    BY <1>2 DEF FilepiLock
  <2>2. FilepiTypeOK' /\ OthersSection(p)
    BY <1>1, <2>1, ZeroStep DEF FilepiTypeOK, OthersSection
  <2>3. SectionInv(p)'
    BY <1>1, <2>1, ZeroStep DEF SectionInv
  <2> QED BY <1>1, <2>1, <2>2, <2>3, ZeroStep, SectionStep
<1>3. CASE ~(fpicnt[p] > 0)
  <2>1. FiolockCall(p, L) /\ UNCHANGED fpicnt /\ ~ \E n \in L : ftab[p][n] = NULL
    BY <1>3 DEF FilepiLock
  <2>2. Next
    BY <2>1 DEF Next, FileCall
  <2>3. call' = [call EXCEPT ![p] = [op |-> "fiolock", fns |-> L, pos |-> FLLCK]]
    BY <2>1 DEF FiolockCall
  <2>4. call'[p].op = "fiolock" /\ \A q \in Proc \ {p} : call'[q] = call[q]
    BY <1>1, <2>3 DEF TypeOK
  <2>5. \A q \in Proc \ {p} : lckflg'[q] = lckflg[q]
    BY <1>1, <2>1 DEF FiolockCall, TypeOK
  <2>6. FilepiTypeOK' /\ OthersSection(p)
    BY <1>1, <2>1, <2>4, <2>5 DEF FilepiTypeOK, OthersSection
  <2>7. SectionInv(p)'
    BY <1>1, <1>3, <2>1, <2>4 DEF SectionInv
  <2> QED BY <2>2, <2>6, <2>7, SectionStep
<1> QED BY <1>2, <1>3

LEMMA FilepiDoneStep == ASSUME FilepiInv, NEW p \in Proc, FilepiDone(p) PROVE [Next]_vars /\ FilepiInv'
<1>1. /\ TypeOK /\ FilepiTypeOK /\ FiolockReturn(p) /\ UNCHANGED trapped /\ Counting(p, TRUE)
  BY DEF FilepiInv, LockInv, FilepiDone
<1>2. Next
  BY <1>1 DEF Next
<1>3. UNCHANGED lckflg /\ call'[p] = Idle /\ \A q \in Proc \ {p} : call'[q] = call[q]
  BY <1>1 DEF FiolockReturn, TypeOK
<1>4. PICK v \in 2 .. MaxCount : CountIs(p, v + 1)
  BY DEF FilepiDone
<1>5. v + 1 \in Nat /\ v + 1 > 0
  BY <1>4, FilepiConstants
<1>6. /\ fpicnt' \in [Proc -> Nat] /\ fpicnt'[p] = v + 1
      /\ \A q \in Proc \ {p} : fpicnt'[q] = fpicnt[q]
  BY <1>1, <1>4, <1>5, CountTo
<1>7. counts' \in [Proc -> BOOLEAN] /\ counts'[p] = TRUE /\ \A q \in Proc \ {p} : counts'[q] = counts[q]
  BY <1>1, CountingTo
<1>8. stage' \in [Proc -> {"next", "verb", "io"}] /\ \A q \in Proc \ {p} : stage'[q] = stage[q]
  BY <1>1, GoesTo DEF FilepiDone
<1>9. FilepiTypeOK' /\ OthersSection(p)
  BY <1>1, <1>3, <1>6, <1>7, <1>8 DEF FilepiTypeOK, OthersSection
<1>10. SectionInv(p)'
  BY <1>3, <1>5, <1>6, <1>7 DEF SectionInv
<1> QED BY <1>2, <1>9, <1>10, SectionStep

\* A verb that locks its file, and its end: no lock of filepi comes or goes.
LEMMA VerbStep ==
  ASSUME FilepiInv, NEW p \in Proc, [Next]_vars, UNCHANGED count,
         stage' \in [Proc -> {"next", "verb", "io"}], \A q \in Proc \ {p} : stage'[q] = stage[q],
         \A q \in Proc \ {p} : lckflg'[q] = lckflg[q] /\ call'[q] = call[q],
         call[p].op = "fiolock" => call'[p].op = "fiolock" \/ HighLocked(p)' = {},
         stage'[p] = "next" => call'[p] = Idle,
         \A f \in File : "HLK" \in lckflg'[p][f] => "HLK" \in lckflg[p][f] \/ call'[p].op = "fiolock"
  PROVE  FilepiInv'
<1>1. FilepiTypeOK /\ SectionInv(p) /\ UNCHANGED fpicnt /\ UNCHANGED counts /\ UNCHANGED trapped
  BY DEF FilepiInv, count
<1>2. FilepiTypeOK' /\ OthersSection(p)
  BY <1>1 DEF FilepiTypeOK, OthersSection
<1>3. SectionInv(p)'
  BY <1>1 DEF SectionInv, HighLocked
<1> QED BY <1>2, <1>3, SectionStep

LEMMA IoLockStep ==
  ASSUME FilepiInv, NEW p \in Proc, NEW n \in Handle, IoLock(p, n) PROVE [Next]_vars /\ FilepiInv'
<1>1. TypeOK /\ FilepiTypeOK /\ FioflckCall(p, n) /\ UNCHANGED count /\ UNCHANGED lckflg
  BY DEF FilepiInv, LockInv, IoLock, FioflckCall
<1>2. Next
  BY <1>1 DEF Next, FileCall
<1>3. /\ stage' \in [Proc -> {"next", "verb", "io"}] /\ stage'[p] = "io"
      /\ \A q \in Proc \ {p} : stage'[q] = stage[q]
  BY <1>1, GoesTo DEF IoLock
<1>4. call[p].op # "fiolock" /\ \A q \in Proc \ {p} : call'[q] = call[q]
  BY <1>1, IdleOp DEF FioflckCall, TypeOK
<1> QED BY <1>1, <1>2, <1>3, <1>4, VerbStep

LEMMA IoEndStep ==
  ASSUME FilepiInv, NEW p \in Proc, NEW n \in Handle, IoEnd(p, n) PROVE [Next]_vars /\ FilepiInv'
<1>1. TypeOK /\ FilepiTypeOK /\ Fiofulk(p, n) /\ UNCHANGED count /\ UNCHANGED call /\ call[p] = Idle
  BY DEF FilepiInv, LockInv, IoEnd, Fiofulk
<1>2. Next
  BY <1>1 DEF Next, FileRelease
<1>3. stage' \in [Proc -> {"next", "verb", "io"}] /\ \A q \in Proc \ {p} : stage'[q] = stage[q]
  BY <1>1, GoesTo DEF IoEnd
<1>4. /\ \A f \in File : "HLK" \in lckflg'[p][f] => "HLK" \in lckflg[p][f]
      /\ \A q \in Proc \ {p} : lckflg'[q] = lckflg[q]
  BY <1>1 DEF Fiofulk, TypeOK
<1> QED BY <1>1, <1>2, <1>3, <1>4, IdleOp, VerbStep

LEMMA OtherVerbStep == ASSUME FilepiInv, NEW p \in Proc, OtherVerb(p) PROVE [Next]_vars /\ FilepiInv'
<1>1. TypeOK /\ FilepiTypeOK /\ UNCHANGED count /\ call[p] = Idle
  BY DEF FilepiInv, LockInv, OtherVerb
<1>2. stage' \in [Proc -> {"next", "verb", "io"}] /\ \A q \in Proc \ {p} : stage'[q] = stage[q]
  BY <1>1, GoesTo DEF OtherVerb
<1>3. /\ [Next]_vars /\ UNCHANGED call
      /\ \A f \in File : "HLK" \in lckflg'[p][f] => "HLK" \in lckflg[p][f]
      /\ \A q \in Proc \ {p} : lckflg'[q] = lckflg[q]
  <2>1. CASE Opens(p)
    BY <1>1, <2>1 DEF Opens, Open, Next
  <2>2. CASE Closes(p)
    <3>1. PICK n \in Handle : Close(p, n)
      BY <2>2 DEF Closes
    <3>2. UNCHANGED call /\ ftab[p][n] \in File
      BY <1>1, <3>1 DEF Close, TypeOK
    <3>3. lckflg' = lckflg \/ lckflg' = [lckflg EXCEPT ![p][ftab[p][n]] = {}]
      BY <3>1 DEF Close
    <3>4. [Next]_vars
      BY <2>2 DEF Next
    <3>5. /\ \A f \in File : "HLK" \in lckflg'[p][f] => "HLK" \in lckflg[p][f]
          /\ \A q \in Proc \ {p} : lckflg'[q] = lckflg[q]
      <4> DEFINE f == ftab[p][n]
      <4>1. f \in File /\ lckflg \in [Proc -> [File -> SUBSET LockFlag]]
        BY <1>1, <3>2 DEF TypeOK
      <4> HIDE DEF f
      <4>2. CASE lckflg' = lckflg
        BY <4>2
      <4>3. CASE lckflg' = [lckflg EXCEPT ![p][f] = {}]
        BY <4>1, <4>3
      <4> QED BY <3>3, <4>2, <4>3 DEF f
    <3> QED BY <3>2, <3>4, <3>5
  <2>3. CASE UNCHANGED vars
    BY <2>3, QuietLocks
  <2> QED BY <2>1, <2>2, <2>3 DEF OtherVerb
<1> QED BY <1>1, <1>2, <1>3, IdleOp, VerbStep

LEMMA GrantedStep == ASSUME FilepiInv, NEW p \in Proc, Granted(p) PROVE [Next]_vars /\ FilepiInv'
<1>1. TypeOK /\ FilepiTypeOK /\ SectionInv(p) /\ FileGrant(p) /\ UNCHANGED count /\ UNCHANGED stage
  BY DEF FilepiInv, LockInv, Granted
<1>2. Next
  BY <1>1 DEF Next
<1>3. CASE FiolockGrant(p)
  <2>1. UNCHANGED call /\ call[p].op = "fiolock"
    BY <1>3 DEF FiolockGrant
  <2>2. \A q \in Proc \ {p} : lckflg'[q] = lckflg[q]
    BY <1>1, <1>3 DEF FiolockGrant, TypeOK
  <2> QED BY <1>1, <1>2, <2>1, <2>2, IdleOp, VerbStep DEF FilepiTypeOK, SectionInv
<1>4. CASE FioflckGrant(p)
  <2>1. /\ call[p].op = "fioflck" /\ call'[p] = Idle /\ \A q \in Proc \ {p} : call'[q] = call[q]
    BY <1>1, <1>4 DEF FioflckGrant, TypeOK
  <2>2. PICK n \in call[p].fns : lckflg' = [lckflg EXCEPT ![p][ftab[p][n]] = @ \cup {"LLK"}]
    BY <1>4 DEF FioflckGrant
  <2>3. /\ \A f \in File : "HLK" \in lckflg'[p][f] => "HLK" \in lckflg[p][f]
        /\ \A q \in Proc \ {p} : lckflg'[q] = lckflg[q]
    BY <1>1, <2>2 DEF TypeOK
  <2> QED BY <1>1, <1>2, <2>1, <2>3, VerbStep DEF FilepiTypeOK
<1> QED BY <1>1, <1>3, <1>4 DEF FileGrant

LEMMA VerbFailsStep == ASSUME FilepiInv, NEW p \in Proc, VerbFails(p) PROVE [Next]_vars /\ FilepiInv'
<1>1. TypeOK /\ FilepiTypeOK /\ Refused(p) /\ UNCHANGED count
  BY DEF FilepiInv, LockInv, VerbFails
<1>2. Next
  BY <1>1 DEF Next
<1>3. stage' \in [Proc -> {"next", "verb", "io"}] /\ \A q \in Proc \ {p} : stage'[q] = stage[q]
  BY <1>1, GoesTo DEF VerbFails
<1>4. call'[p] = Idle /\ \A q \in Proc \ {p} : call'[q] = call[q]
  BY <1>1 DEF Refused, TypeOK
<1>5. CASE call[p].op = "fiolock"
  <2>1. UnlockHigh(p, HighLocked(p))
    BY <1>1, <1>5 DEF Refused
  <2>2. /\ \A f \in File : lckflg'[p][f] = IF f \in HighLocked(p) THEN lckflg[p][f] \ {"HLK"} ELSE lckflg[p][f]
        /\ \A q \in Proc \ {p} : lckflg'[q] = lckflg[q]
    BY <1>1, <2>1 DEF UnlockHigh, TypeOK
  <2>3. \A f \in File : "HLK" \notin lckflg'[p][f]
    BY <2>2 DEF HighLocked
  <2> QED BY <1>1, <1>2, <1>3, <1>4, <2>2, <2>3, VerbStep DEF HighLocked
<1>6. CASE call[p].op # "fiolock"
  <2>1. UNCHANGED lckflg
    BY <1>1, <1>6 DEF Refused
  <2> QED BY <1>1, <1>2, <1>3, <1>4, <1>6, <2>1, VerbStep
<1> QED BY <1>5, <1>6

-----------------------------------------------------------------------------
LEMMA FilepiInitOK == FilepiInit => Init /\ FilepiInv
<1> SUFFICES ASSUME FilepiInit PROVE Init /\ FilepiInv
  OBVIOUS
<1>1. Init /\ LockInv
  BY RowInvInit DEF FilepiInit
<1>2. FilepiTypeOK
  BY DEF FilepiInit, FilepiTypeOK
<1>3. \A p \in Proc : call[p] = Idle /\ fpicnt[p] = 0 /\ \A f \in File : lckflg[p][f] = {}
  BY DEF FilepiInit, Init
<1> QED BY <1>1, <1>2, <1>3 DEF FilepiInv, SectionInv

LEMMA FilepiStep == FilepiInv /\ [FilepiNext]_fvars => [Next]_vars /\ FilepiInv'
<1> SUFFICES ASSUME FilepiInv, [FilepiNext]_fvars PROVE [Next]_vars /\ FilepiInv'
  OBVIOUS
<1>1. CASE UNCHANGED fvars
  <2>1. UNCHANGED vars /\ UNCHANGED fpicnt /\ UNCHANGED counts /\ UNCHANGED trapped /\ UNCHANGED stage
    BY <1>1 DEF fvars, count
  <2>2. LockInv'
    BY <2>1, InvStep DEF FilepiInv
  <2>3. FilepiTypeOK' /\ \A p \in Proc : SectionInv(p)'
    BY <2>1, QuietLocks DEF FilepiInv, FilepiTypeOK, SectionInv
  <2> QED BY <2>1, <2>2, <2>3 DEF FilepiInv
<1>2. ASSUME NEW p \in Proc, NextVerb(p) \/ TrapCall(p) \/ TrapReturn(p) \/ UncountedVerb(p)
      PROVE  [Next]_vars /\ FilepiInv'
  BY <1>2, NextVerbStep, TrapCallStep, TrapReturnStep, UncountedVerbStep
<1>3. ASSUME NEW p \in Proc, Counted(p) PROVE [Next]_vars /\ FilepiInv'
  BY <1>3, FilepiCancelStep, FilepiDoneStep, OtherVerbStep, FilepiLockStep, IoLockStep, IoEndStep DEF Counted
<1>4. ASSUME NEW p \in Proc, Granted(p) \/ VerbFails(p) PROVE [Next]_vars /\ FilepiInv'
  BY <1>4, GrantedStep, VerbFailsStep
<1> QED BY <1>1, <1>2, <1>3, <1>4 DEF FilepiNext

LEMMA FilepiInvariant == FilepiSpec => []FilepiInv
BY FilepiInitOK, FilepiStep, PTL DEF FilepiSpec

\* The programs of Filepi are programs of FileLock: what is proved there holds
\* for them, the locks of their tables and the exclusion of the others.
THEOREM FilepiUsesFileLock == FilepiSpec => Spec
BY FilepiInitOK, FilepiStep, FilepiInvariant, PTL DEF FilepiSpec, Spec

\* The files of filepi stay locked no longer than its count says, whatever is
\* refused and whatever trap routines run (dbcdio.c 2411-2465, dbciex.c 149-168).
THEOREM LocksEndWithSection == FilepiSpec => []SectionHasLocks
<1>1. FilepiInv => SectionHasLocks
  BY DEF FilepiInv, SectionInv, SectionHasLocks, HighLocked
<1> QED BY <1>1, FilepiInvariant, PTL

\* The count of a section is never lost to a trap routine or to a verb that is
\* not counted (dbciex.c 149-168).
THEOREM CountIsKept == FilepiSpec => []SectionIsCounted
<1>1. FilepiInv => SectionIsCounted
  BY DEF FilepiInv, SectionInv, SectionIsCounted
<1> QED BY <1>1, FilepiInvariant, PTL

(***************************************************************************)
(* The order of the waits.                                                 *)
(***************************************************************************)
\* A set of numbers has a least one, and a finite set a largest one.
LEMMA LeastNumber == ASSUME NEW T \in SUBSET Nat, T # {} PROVE \E x \in T : \A y \in T : x <= y
<1>1. PICK R : /\ IsWellFoundedOn(R, Nat)
               /\ \A x, y \in Nat : <<x, y>> \in R <=> x < y
  <2> DEFINE R == OpToRel(<, Nat)
  <2>1. IsWellFoundedOn(R, Nat)
    BY NatLessThanWellFounded
  <2>2. \A x, y \in Nat : <<x, y>> \in R <=> x < y
    BY DEF OpToRel
  <2> HIDE DEF R
  <2> QED BY <2>1, <2>2
<1>2. IsWellFoundedOn(R, Nat) /\ T \subseteq Nat
  BY <1>1
<1>3. \E x \in T : \A y \in T : ~ (<<y, x>> \in R)
  BY <1>2, WFMin
<1>4. PICK x \in T : \A y \in T : ~ (<<y, x>> \in R)
  BY <1>3
<1>5. ASSUME NEW y \in T PROVE x <= y
  <2>1. x \in Nat /\ y \in Nat /\ ~ (<<y, x>> \in R)
    BY <1>4
  <2>2. ~ (y < x)
    BY <1>1, <2>1
  <2> QED BY <2>1, <2>2
<1> QED BY <1>5

\* Induction, for a set of numbers.
LEMMA NumbersByInduction ==
  ASSUME NEW S, 0 \in S, \A n \in Nat : n \in S => n + 1 \in S
  PROVE  \A n \in Nat : n \in S
<1> SUFFICES ASSUME Nat \ S # {} PROVE FALSE
  OBVIOUS
<1>1. PICK j \in Nat \ S : \A k \in Nat \ S : j <= k
  BY LeastNumber
<1>2. j # 0 /\ j \in Nat
  OBVIOUS
<1>3. j - 1 \in Nat /\ j = (j - 1) + 1 /\ ~ (j <= j - 1)
  BY <1>2
<1>4. j - 1 \in S
  BY <1>1, <1>3
<1> QED BY <1>3, <1>4

LEMMA LargestNumber ==
  ASSUME NEW S \in SUBSET Nat, S # {}, IsFiniteSet(S)
  PROVE  \E m \in S : \A x \in S : x <= m
<1>1. PICK seq : \E n \in Nat : /\ seq \in [1 .. n -> S]
                                /\ \A x \in S : \E i \in 1 .. n : seq[i] = x
  BY DEF IsFiniteSet
<1>2. PICK n \in Nat : /\ seq \in [1 .. n -> S]
                       /\ \A x \in S : \E i \in 1 .. n : seq[i] = x
  BY <1>1
<1>3. \A i \in Nat : 1 <= i /\ i <= n => seq[i] \in Nat
  <2>1. \A i \in 1 .. n : seq[i] \in S
    BY <1>2
  <2>2. \A i \in Nat : 1 <= i /\ i <= n => i \in 1 .. n
    BY <1>2
  <2> QED BY <2>1, <2>2
<1> DEFINE T == {j \in Nat : j <= n => \E b \in Nat : \A i \in 1 .. j : seq[i] <= b}
<1>4. n \in T
  <2>1. 0 \in T
    OBVIOUS
  <2>2. ASSUME NEW j \in T PROVE j + 1 \in T
    <3>1. CASE j + 1 > n
      BY <3>1
    <3>2. CASE j + 1 <= n
      <4>1. PICK b \in Nat : \A i \in 1 .. j : seq[i] <= b
        BY <3>2
      <4>2. seq[j + 1] \in Nat
        BY <1>3, <3>2
      <4>3. \A i \in 1 .. j : seq[i] \in Nat
        BY <1>3, <3>2
      <4>4. \A i \in 1 .. j + 1 : seq[i] <= b + seq[j + 1]
        <5> TAKE i \in 1 .. j + 1
        <5>1. CASE i = j + 1
          BY <4>2, <5>1
        <5>2. CASE i # j + 1
          <6>1. i \in 1 .. j
            BY <5>2
          <6> QED BY <4>1, <4>2, <4>3, <6>1
        <5> QED BY <5>1, <5>2
      <4>5. b + seq[j + 1] \in Nat
        BY <4>2
      <4> QED BY <4>4, <4>5
    <3> QED BY <3>1, <3>2
  <2> HIDE DEF T
  <2>3. \A j \in Nat : j \in T => j + 1 \in T
    BY <2>2
  <2> QED BY <2>1, <2>3, NumbersByInduction
<1>10. PICK b \in Nat : \A i \in 1 .. n : seq[i] <= b
  BY <1>4
<1>5. \A x \in S : x \in Nat /\ x <= b
  BY <1>2, <1>10
<1> DEFINE D == {b - x : x \in S}
<1>6. D \subseteq Nat /\ D # {}
  <2>1. \A x \in S : b - x \in Nat
    BY <1>5
  <2> QED BY <2>1
<1>7. PICK d \in D : \A e \in D : d <= e
  BY <1>6, LeastNumber
<1>8. PICK m \in S : d = b - m
  BY <1>7
<1>9. ASSUME NEW x \in S PROVE x <= m
  <2>1. b - m <= b - x
    BY <1>7, <1>8
  <2> QED BY <1>5, <2>1
<1> QED BY <1>9

NoLow(p) == \A f \in File : "LLK" \notin lckflg[p][f]

\* A program in a call of fiolock has locked only files that come before all
\* it still waits for; one in a call of fioflck has no file locked, for the
\* verb before gave its file back and the section, if any, is over.
OrderInv(p) ==
  /\ call[p] = Idle \/ call[p].op = "fiolock" \/ (call[p].op = "fioflck" /\ call[p].pos = FLLCK)
  /\ call[p].op = "fioflck" => stage[p] = "io"
  /\ call[p].op = "fiolock" => stage[p] = "verb"
  /\ stage[p] # "io" \/ call[p] # Idle => NoLow(p)
  /\ \A f, g \in File : "LLK" \in lckflg[p][f] /\ "LLK" \in lckflg[p][g] => f = g
  /\ Disciplined /\ stage[p] = "io" => fpicnt[p] = 0
  /\ call[p].op = "fiolock" => \A f \in HighLocked(p), g \in Todo(p) : f < g

OrderedInv == FilepiInv /\ \A p \in Proc : OrderInv(p)

\* What the order of a program looks at, and a step of another one keeps.
OthersOrder(p) == \A q \in Proc \ {p} :
  /\ lckflg'[q] = lckflg[q] /\ call'[q] = call[q]
  /\ fpicnt'[q] = fpicnt[q] /\ stage'[q] = stage[q]
  /\ ftab'[q] = ftab[q] /\ mode'[q] = mode[q]

LEMMA OrderOfOthers ==
  ASSUME NEW p \in Proc, OthersOrder(p), NEW q \in Proc \ {p}, OrderInv(q)
  PROVE  OrderInv(q)'
<1>1. HighLocked(q)' = HighLocked(q)
  BY DEF OthersOrder, HighLocked
<1>2. Todo(q)' = Todo(q)
  BY DEF OthersOrder, Todo, Shared
<1>3. NoLow(q)' <=> NoLow(q)
  BY DEF OthersOrder, NoLow
<1> QED BY <1>1, <1>2, <1>3 DEF OthersOrder, OrderInv

\* What leaves the tables of the handles alone.
TableKept(p) == \A q \in Proc \ {p} : ftab'[q] = ftab[q] /\ mode'[q] = mode[q]

\* A step of a program that is in no call and locks nothing with fioflck.
LEMMA QuietOrder ==
  ASSUME NEW p \in Proc, NoLow(p), call'[p] = Idle, stage'[p] # "io",
         \A f \in File : "LLK" \in lckflg'[p][f] => "LLK" \in lckflg[p][f]
  PROVE  OrderInv(p)'
<1>1. NoLow(p)'
  BY DEF NoLow
<1> QED BY <1>1, IdleOp DEF OrderInv, NoLow

LEMMA ZeroOrder ==
  ASSUME FilepiInv, NEW p \in Proc, FilepiZero(p)
  PROVE  /\ \A f \in File : "LLK" \in lckflg'[p][f] => "LLK" \in lckflg[p][f]
         /\ \A q \in Proc \ {p} : lckflg'[q] = lckflg[q] /\ fpicnt'[q] = fpicnt[q]
         /\ UNCHANGED <<ftab, mode, call>>
<1>1. TypeOK /\ FilepiTypeOK
  BY DEF FilepiInv, LockInv
<1>2. /\ \A f \in File : lckflg'[p][f] = IF f \in HighLocked(p) THEN lckflg[p][f] \ {"HLK"} ELSE lckflg[p][f]
      /\ \A q \in Proc \ {p} : lckflg'[q] = lckflg[q]
  BY <1>1 DEF TypeOK, FilepiZero, UnlockHigh
<1>3. \A q \in Proc \ {p} : fpicnt'[q] = fpicnt[q]
  BY <1>1, CountTo DEF FilepiZero
<1> QED BY <1>2, <1>3 DEF FilepiZero, table

LEMMA NextVerbOrder ==
  ASSUME FilepiInv, NEW p \in Proc, OrderInv(p), NextVerb(p)
  PROVE  OthersOrder(p) /\ OrderInv(p)'
<1>1. FilepiTypeOK /\ call[p] = Idle /\ stage[p] = "next" /\ NoLow(p)
  BY DEF FilepiInv, SectionInv, NextVerb, OrderInv
<1>2. stage'[p] = "verb" /\ \A q \in Proc \ {p} : stage'[q] = stage[q]
  BY <1>1, GoesTo DEF NextVerb
<1>3. CASE UNCHANGED vars /\ \A q \in Proc \ {p} : fpicnt'[q] = fpicnt[q]
  <2>1. UNCHANGED <<lckflg, call, ftab, mode>>
    BY <1>3 DEF vars
  <2> QED BY <1>1, <1>2, <1>3, <2>1, QuietOrder DEF OthersOrder
<1>4. CASE FilepiZero(p)
  <2>1. UNCHANGED <<ftab, mode, call>>
    BY <1>4, ZeroOrder
  <2> QED BY <1>1, <1>2, <1>4, <2>1, ZeroOrder, QuietOrder DEF OthersOrder
<1>5. fpicnt[p] > 1 /\ CountIs(p, fpicnt[p] - 1) => \A q \in Proc \ {p} : fpicnt'[q] = fpicnt[q]
  BY <1>1 DEF FilepiTypeOK, CountIs
<1> QED BY <1>3, <1>4, <1>5 DEF NextVerb

LEMMA TrapOrder ==
  ASSUME FilepiInv, NEW p \in Proc, OrderInv(p), TrapCall(p) \/ TrapReturn(p)
  PROVE  OthersOrder(p) /\ OrderInv(p)'
<1>1. call[p] = Idle /\ stage[p] = "verb" /\ NoLow(p) /\ UNCHANGED <<vars, fpicnt, stage>>
  BY DEF TrapCall, TrapReturn, OrderInv
<1>2. UNCHANGED <<lckflg, call, ftab, mode, fpicnt, stage>>
  BY <1>1 DEF vars
<1> QED BY <1>1, <1>2, QuietOrder DEF OthersOrder

LEMMA UncountedVerbOrder ==
  ASSUME FilepiInv, NEW p \in Proc, OrderInv(p), UncountedVerb(p)
  PROVE  OthersOrder(p) /\ OrderInv(p)'
<1>1. FilepiTypeOK /\ call[p] = Idle /\ stage[p] = "verb" /\ NoLow(p) /\ UNCHANGED vars
  BY DEF UncountedVerb, OrderInv, FilepiInv
<1>2. UNCHANGED <<lckflg, call, ftab, mode>>
  BY <1>1 DEF vars
<1>3. stage'[p] = "next" /\ \A q \in Proc \ {p} : stage'[q] = stage[q]
  BY <1>1, GoesTo DEF UncountedVerb
<1>4. \A q \in Proc \ {p} : fpicnt'[q] = fpicnt[q]
  BY <1>1 DEF UncountedVerb, CountIs, FilepiTypeOK
<1> QED BY <1>1, <1>2, <1>3, <1>4, QuietOrder DEF OthersOrder

LEMMA FilepiCancelOrder ==
  ASSUME FilepiInv, NEW p \in Proc, OrderInv(p), FilepiCancel(p)
  PROVE  OthersOrder(p) /\ OrderInv(p)'
<1>1. FilepiTypeOK /\ call[p] = Idle /\ stage[p] = "verb" /\ NoLow(p) /\ FilepiZero(p)
  BY DEF FilepiCancel, OrderInv, FilepiInv
<1>2. UNCHANGED <<ftab, mode, call>>
  BY <1>1, ZeroOrder
<1>3. stage'[p] = "next" /\ \A q \in Proc \ {p} : stage'[q] = stage[q]
  BY <1>1, GoesTo DEF FilepiCancel
<1> QED BY <1>1, <1>2, <1>3, ZeroOrder, QuietOrder DEF OthersOrder

LEMMA FilepiLockOrder ==
  ASSUME FilepiInv, NEW p \in Proc, OrderInv(p), NEW L \in SUBSET Handle, FilepiLock(p, L)
  PROVE  OthersOrder(p) /\ OrderInv(p)'
<1>1. /\ TypeOK /\ FilepiTypeOK /\ call[p] = Idle /\ stage[p] = "verb" /\ NoLow(p)
      /\ UNCHANGED stage /\ SectionInv(p)
  BY DEF FilepiLock, OrderInv, FilepiInv, LockInv
<1>2. CASE fpicnt[p] > 0
  <2>1. FilepiZero(p)
    BY <1>2 DEF FilepiLock
  <2>2. UNCHANGED <<ftab, mode, call>>
    BY <2>1, ZeroOrder
  <2> QED BY <1>1, <2>1, <2>2, ZeroOrder, QuietOrder DEF OthersOrder
<1>3. CASE ~(fpicnt[p] > 0)
  <2>1. /\ FiolockCall(p, L) /\ UNCHANGED fpicnt /\ UNCHANGED <<ftab, mode>>
        /\ ~ \E n \in L : ftab[p][n] = NULL
    BY <1>3 DEF FilepiLock, FiolockCall, table
  <2>2. call'[p] = [op |-> "fiolock", fns |-> L, pos |-> FLLCK] /\ \A q \in Proc \ {p} : call'[q] = call[q]
    BY <1>1, <2>1 DEF FiolockCall, TypeOK
  <2>3. /\ \A f \in File : lckflg'[p][f] = lckflg[p][f]
        /\ \A q \in Proc \ {p} : lckflg'[q] = lckflg[q]
    BY <1>1, <2>1 DEF FiolockCall, TypeOK, NoLow
  <2>4. HighLocked(p)' = {}
    BY <1>1, <1>3, <2>3, IdleOp DEF SectionInv, HighLocked
  <2>5. NoLow(p)'
    BY <1>1, <2>3 DEF NoLow
  <2>6. OthersOrder(p)
    BY <1>1, <2>1, <2>2, <2>3 DEF OthersOrder
  <2>7. call'[p].op = "fiolock" /\ stage'[p] = "verb"
    BY <1>1, <2>2
  <2>8. OrderInv(p)'
    BY <2>4, <2>5, <2>7 DEF OrderInv, NoLow
  <2> QED BY <2>6, <2>8
<1> QED BY <1>2, <1>3

LEMMA FilepiDoneOrder ==
  ASSUME FilepiInv, NEW p \in Proc, OrderInv(p), FilepiDone(p)
  PROVE  OthersOrder(p) /\ OrderInv(p)'
<1>1. TypeOK /\ FilepiTypeOK /\ FiolockReturn(p)
  BY DEF FilepiInv, LockInv, FilepiDone
<1>2. /\ UNCHANGED <<lckflg, ftab, mode>> /\ call'[p] = Idle /\ call[p] # Idle
      /\ \A q \in Proc \ {p} : call'[q] = call[q]
  BY <1>1, IdleOp DEF FiolockReturn, TypeOK, table
<1>3. NoLow(p)
  BY <1>2 DEF OrderInv
<1>4. \A q \in Proc \ {p} : fpicnt'[q] = fpicnt[q]
  BY <1>1 DEF FilepiDone, CountIs, FilepiTypeOK
<1>5. stage'[p] = "next" /\ \A q \in Proc \ {p} : stage'[q] = stage[q]
  BY <1>1, GoesTo DEF FilepiDone
<1> QED BY <1>2, <1>3, <1>4, <1>5, QuietOrder DEF OthersOrder

LEMMA IoLockOrder ==
  ASSUME FilepiInv, NEW p \in Proc, OrderInv(p), NEW n \in Handle, IoLock(p, n)
  PROVE  OthersOrder(p) /\ OrderInv(p)'
<1>1. /\ TypeOK /\ FilepiTypeOK /\ FioflckCall(p, n) /\ UNCHANGED count
      /\ stage[p] = "verb" /\ (Disciplined => fpicnt[p] = 0)
  BY DEF FilepiInv, LockInv, IoLock
<1>2. /\ UNCHANGED <<lckflg, ftab, mode>> /\ \A q \in Proc \ {p} : call'[q] = call[q]
      /\ call'[p] = [op |-> "fioflck", fns |-> {n}, pos |-> FLLCK]
  BY <1>1 DEF FioflckCall, TypeOK, table
<1>3. stage'[p] = "io" /\ \A q \in Proc \ {p} : stage'[q] = stage[q]
  BY <1>1, GoesTo DEF IoLock
<1>4. UNCHANGED fpicnt
  BY <1>1 DEF count
<1>5. NoLow(p)' /\ NoLow(p)
  BY <1>1, <1>2 DEF OrderInv, NoLow
<1>6. call'[p].op = "fioflck" /\ call'[p].pos = FLLCK
  BY <1>2
<1>7. OthersOrder(p)
  BY <1>2, <1>3, <1>4 DEF OthersOrder
<1>8. OrderInv(p)'
  BY <1>1, <1>3, <1>4, <1>5, <1>6 DEF OrderInv, NoLow
<1> QED BY <1>7, <1>8

\* The only file fioflck has locked is the one fiofulk gives back.
LEMMA IoEndOrder ==
  ASSUME FilepiInv, NEW p \in Proc, OrderInv(p), NEW n \in Handle, IoEnd(p, n)
  PROVE  OthersOrder(p) /\ OrderInv(p)'
<1>1. TypeOK /\ FilepiTypeOK /\ Fiofulk(p, n) /\ UNCHANGED count
  BY DEF FilepiInv, LockInv, IoEnd
<1> DEFINE g == ftab[p][n]
<1>2. g \in File /\ "LLK" \in lckflg[p][g] /\ UNCHANGED <<ftab, mode, call>> /\ call[p] = Idle
  BY <1>1 DEF Fiofulk, TypeOK, table, NULL
<1>3. lckflg' = [lckflg EXCEPT ![p][g] = @ \ {"LLK"}]
  BY <1>1 DEF Fiofulk
<1> HIDE DEF g
<1>4. /\ \A f \in File : "LLK" \in lckflg'[p][f] => "LLK" \in lckflg[p][f] /\ f # g
      /\ \A q \in Proc \ {p} : lckflg'[q] = lckflg[q]
  BY <1>1, <1>2, <1>3 DEF TypeOK
<1>5. NoLow(p)'
  BY <1>2, <1>4 DEF NoLow, OrderInv
<1>6. stage'[p] = "next" /\ \A q \in Proc \ {p} : stage'[q] = stage[q]
  BY <1>1, GoesTo DEF IoEnd
<1>7. UNCHANGED fpicnt
  BY <1>1 DEF count
<1>8. OthersOrder(p)
  BY <1>2, <1>4, <1>6, <1>7 DEF OthersOrder
<1>9. OrderInv(p)'
  BY <1>2, <1>5, <1>6, IdleOp DEF OrderInv, NoLow
<1> QED BY <1>8, <1>9

LEMMA OtherVerbOrder ==
  ASSUME FilepiInv, NEW p \in Proc, OrderInv(p), OtherVerb(p)
  PROVE  OthersOrder(p) /\ OrderInv(p)'
<1>1. TypeOK /\ FilepiTypeOK /\ UNCHANGED count /\ call[p] = Idle /\ stage[p] = "verb" /\ NoLow(p)
  BY DEF FilepiInv, LockInv, OtherVerb, OrderInv
<1>2. stage'[p] = "next" /\ \A q \in Proc \ {p} : stage'[q] = stage[q]
  BY <1>1, GoesTo DEF OtherVerb
<1>3. /\ UNCHANGED call /\ TableKept(p)
      /\ \A f \in File : "LLK" \in lckflg'[p][f] => "LLK" \in lckflg[p][f]
      /\ \A q \in Proc \ {p} : lckflg'[q] = lckflg[q]
  <2>1. CASE Opens(p)
    BY <1>1, <2>1 DEF Opens, Open, TypeOK, TableKept
  <2>2. CASE Closes(p)
    <3>1. PICK n \in Handle : Close(p, n)
      BY <2>2 DEF Closes
    <3>2. UNCHANGED call /\ ftab[p][n] \in File
      BY <1>1, <3>1 DEF Close, TypeOK
    <3>3. lckflg' = lckflg \/ lckflg' = [lckflg EXCEPT ![p][ftab[p][n]] = {}]
      BY <3>1 DEF Close
    <3>4. mode' = mode \/ mode' = [mode EXCEPT ![p][ftab[p][n]] = "none"]
      BY <3>1 DEF Close
    <3>5. ftab' = [ftab EXCEPT ![p][n] = NULL]
      BY <3>1 DEF Close
    <3>6. TableKept(p)
      BY <1>1, <3>4, <3>5 DEF TableKept, TypeOK
    <3>7. /\ \A f \in File : "LLK" \in lckflg'[p][f] => "LLK" \in lckflg[p][f]
          /\ \A q \in Proc \ {p} : lckflg'[q] = lckflg[q]
      <4> DEFINE f == ftab[p][n]
      <4>1. f \in File /\ lckflg \in [Proc -> [File -> SUBSET LockFlag]]
        BY <1>1, <3>2 DEF TypeOK
      <4> HIDE DEF f
      <4>2. CASE lckflg' = lckflg
        BY <4>2
      <4>3. CASE lckflg' = [lckflg EXCEPT ![p][f] = {}]
        BY <4>1, <4>3
      <4> QED BY <3>3, <4>2, <4>3 DEF f
    <3> QED BY <3>2, <3>6, <3>7
  <2>3. CASE UNCHANGED vars
    BY <2>3 DEF vars, TableKept
  <2> QED BY <2>1, <2>2, <2>3 DEF OtherVerb
<1>4. UNCHANGED fpicnt
  BY <1>1 DEF count
<1>5. OthersOrder(p)
  BY <1>2, <1>3, <1>4 DEF OthersOrder, TableKept
<1> QED BY <1>1, <1>2, <1>3, <1>5, QuietOrder

LEMMA GrantedOrder ==
  ASSUME FilepiInv, NEW p \in Proc, OrderInv(p), Granted(p)
  PROVE  OthersOrder(p) /\ OrderInv(p)'
<1>1. /\ TypeOK /\ FileGrant(p) /\ UNCHANGED <<count, stage>>
      /\ UNCHANGED <<ftab, mode>> /\ UNCHANGED <<fpicnt, stage>>
  BY DEF FilepiInv, LockInv, Granted, FileGrant, FiolockGrant, FioflckGrant, table, count
<1>2. CASE FiolockGrant(p)
  <2>1. PICK f \in File : NextToLock(p, f) /\ lckflg' = [lckflg EXCEPT ![p][f] = @ \cup {"HLK"}]
    BY <1>2 DEF FiolockGrant
  <2>2. UNCHANGED call /\ call[p].op = "fiolock" /\ call[p] # Idle
    BY <1>2, IdleOp DEF FiolockGrant
  <2>3. /\ \A g \in File \ {f} : lckflg'[p][g] = lckflg[p][g]
        /\ lckflg'[p][f] = lckflg[p][f] \cup {"HLK"}
        /\ \A q \in Proc \ {p} : lckflg'[q] = lckflg[q]
    BY <1>1, <2>1 DEF TypeOK
  <2>4. NoLow(p)' /\ NoLow(p)
    BY <2>2, <2>3 DEF OrderInv, NoLow
  <2>5. Todo(p)' \subseteq Todo(p) \ {f}
    BY <1>1, <2>2, <2>3 DEF Todo, Shared
  <2>6. HighLocked(p)' \subseteq HighLocked(p) \cup {f}
    BY <2>3 DEF HighLocked
  <2>7. \A h \in HighLocked(p), g \in Todo(p) : h < g
    BY <2>2 DEF OrderInv
  <2>8. \A g \in Todo(p) \ {f} : f < g
    <3>1. \A g \in Todo(p) : f <= g /\ g \in Nat /\ f \in Nat
      BY <2>1, FileLockAssumption DEF NextToLock, Todo
    <3> QED BY <3>1
  <2>9. \A h \in HighLocked(p)', g \in Todo(p)' : h < g
    BY <2>5, <2>6, <2>7, <2>8
  <2>10. OthersOrder(p)
    BY <1>1, <2>2, <2>3 DEF OthersOrder
  <2>11. stage'[p] = "verb"
    BY <1>1, <2>2 DEF OrderInv
  <2>12. OrderInv(p)'
    BY <2>2, <2>4, <2>9, <2>11 DEF OrderInv, NoLow
  <2> QED BY <2>10, <2>12
<1>3. CASE FioflckGrant(p)
  <2>1. /\ call[p].op = "fioflck" /\ call'[p] = Idle /\ call[p] # Idle
        /\ \A q \in Proc \ {p} : call'[q] = call[q]
    BY <1>1, <1>3, IdleOp DEF FioflckGrant, TypeOK
  <2>2. PICK n \in call[p].fns : lckflg' = [lckflg EXCEPT ![p][ftab[p][n]] = @ \cup {"LLK"}]
    BY <1>3 DEF FioflckGrant
  <2> DEFINE g == ftab[p][n]
  <2>3. /\ \A f \in File : "LLK" \in lckflg'[p][f] => "LLK" \in lckflg[p][f] \/ f = g
        /\ \A q \in Proc \ {p} : lckflg'[q] = lckflg[q]
    BY <1>1, <2>2 DEF TypeOK
  <2> HIDE DEF g
  <2>4. NoLow(p) /\ stage[p] = "io"
    BY <2>1 DEF OrderInv
  <2>5. \A f \in File : "LLK" \in lckflg'[p][f] => f = g
    BY <2>3, <2>4 DEF NoLow
  <2>6. OthersOrder(p)
    BY <1>1, <2>1, <2>3 DEF OthersOrder
  <2>7. OrderInv(p)'
    BY <1>1, <2>1, <2>4, <2>5, IdleOp DEF OrderInv
  <2> QED BY <2>6, <2>7
<1> QED BY <1>1, <1>2, <1>3 DEF FileGrant

LEMMA VerbFailsOrder ==
  ASSUME FilepiInv, NEW p \in Proc, OrderInv(p), VerbFails(p)
  PROVE  OthersOrder(p) /\ OrderInv(p)'
<1>1. /\ TypeOK /\ FilepiTypeOK /\ Refused(p) /\ UNCHANGED count /\ UNCHANGED fpicnt
      /\ UNCHANGED <<ftab, mode>>
  BY DEF FilepiInv, LockInv, VerbFails, Refused, table, count
<1>2. stage'[p] = "next" /\ \A q \in Proc \ {p} : stage'[q] = stage[q]
  BY <1>1, GoesTo DEF VerbFails
<1>3. call'[p] = Idle /\ call[p] # Idle /\ \A q \in Proc \ {p} : call'[q] = call[q]
  BY <1>1, IdleOp DEF Refused, TypeOK
<1>4. NoLow(p)
  BY <1>3 DEF OrderInv
<1>5. /\ \A f \in File : "LLK" \in lckflg'[p][f] => "LLK" \in lckflg[p][f]
      /\ \A q \in Proc \ {p} : lckflg'[q] = lckflg[q]
  <2>1. CASE UnlockHigh(p, HighLocked(p))
    <3>1. /\ \A f \in File : lckflg'[p][f] = IF f \in HighLocked(p) THEN lckflg[p][f] \ {"HLK"}
                                             ELSE lckflg[p][f]
          /\ \A q \in Proc \ {p} : lckflg'[q] = lckflg[q]
      BY <1>1, <2>1 DEF UnlockHigh, TypeOK
    <3> QED BY <3>1
  <2>2. CASE UNCHANGED lckflg
    BY <2>2
  <2> QED BY <1>1, <2>1, <2>2 DEF Refused
<1>6. OthersOrder(p)
  BY <1>1, <1>2, <1>3, <1>5 DEF OthersOrder
<1> QED BY <1>2, <1>3, <1>4, <1>5, <1>6, QuietOrder

LEMMA OrderInit == FilepiInit => OrderedInv
<1> SUFFICES ASSUME FilepiInit PROVE OrderedInv
  OBVIOUS
<1>1. \A p \in Proc : call[p] = Idle /\ stage[p] = "next" /\ \A f \in File : lckflg[p][f] = {}
  BY DEF FilepiInit, Init
<1>2. \A p \in Proc : OrderInv(p)
  BY <1>1, IdleOp DEF OrderInv, NoLow
<1> QED BY <1>2, FilepiInitOK DEF OrderedInv

LEMMA OrderStep == OrderedInv /\ [FilepiNext]_fvars => OrderedInv'
<1> SUFFICES ASSUME OrderedInv, [FilepiNext]_fvars PROVE OrderedInv'
  OBVIOUS
<1>1. FilepiInv /\ FilepiInv' /\ \A p \in Proc : OrderInv(p)
  BY FilepiStep DEF OrderedInv
<1>2. CASE UNCHANGED fvars
  <2>1. UNCHANGED <<lckflg, call, ftab, mode, fpicnt, stage>>
    BY <1>2 DEF fvars, vars, count
  <2>2. ASSUME NEW p \in Proc PROVE OrderInv(p)'
    BY <1>1, <2>1 DEF OrderInv, NoLow, HighLocked, Todo, Shared
  <2> QED BY <1>1, <2>2 DEF OrderedInv
<1>3. ASSUME NEW p \in Proc, OthersOrder(p) /\ OrderInv(p)' PROVE OrderedInv'
  <2>1. ASSUME NEW q \in Proc \ {p} PROVE OrderInv(q)'
    BY <1>1, <1>3, OrderOfOthers
  <2> QED BY <1>1, <1>3, <2>1 DEF OrderedInv
<1>4. ASSUME NEW p \in Proc, NextVerb(p) \/ TrapCall(p) \/ TrapReturn(p) \/ UncountedVerb(p)
      PROVE  OrderedInv'
  BY <1>1, <1>3, <1>4, NextVerbOrder, TrapOrder, UncountedVerbOrder
<1>5. ASSUME NEW p \in Proc, Counted(p) PROVE OrderedInv'
  <2>1. OthersOrder(p) /\ OrderInv(p)'
    BY <1>1, <1>5, FilepiCancelOrder, FilepiDoneOrder, OtherVerbOrder, FilepiLockOrder,
       IoLockOrder, IoEndOrder DEF Counted
  <2> QED BY <1>3, <2>1
<1>6. ASSUME NEW p \in Proc, Granted(p) \/ VerbFails(p) PROVE OrderedInv'
  BY <1>1, <1>3, <1>6, GrantedOrder, VerbFailsOrder
<1> QED BY <1>2, <1>4, <1>5, <1>6 DEF FilepiNext

\* A program of S that waits for another one of them waits for a file that
\* one has locked with filepi, and so for a file before the one it waits for.
LEMMA WaitsUpwards ==
  ASSUME OrderedInv, Disciplined, NEW S \in SUBSET Proc, Deadlocked(S),
         NEW p \in S, NEW f \in File, NEW q \in S, q \in Blockers(p, f, FLLCK)
  PROVE  \E g \in File : \E r \in S : <<g, FLLCK>> \in Wanted(q) /\ r \in Blockers(q, g, FLLCK) /\ f < g
<1>1. FilepiInv /\ TypeOK /\ OrderInv(q) /\ SectionInv(q) /\ Agrees(q) /\ CallReady(q)
  BY DEF OrderedInv, FilepiInv, LockInv, RowInv
<1>2. oslk[q][<<f, FLLCK>>] # "none"
  BY DEF Blockers, Holders
<1>3. lckflg[q][f] # {}
  BY <1>1, <1>2 DEF Agrees
<1>4. PICK x \in Wanted(q) : \E r \in S : r \in Blockers(q, x[1], x[2])
  BY DEF Deadlocked, WaitsFor
<1>5. call[q] # Idle
  BY <1>4 DEF Wanted, Idle
<1>6. NoLow(q)
  BY <1>1, <1>5 DEF OrderInv
<1>7. "HLK" \in lckflg[q][f]
  <2>1. lckflg[q][f] \subseteq {"LLK", "HLK"}
    BY <1>1 DEF TypeOK, LockFlag
  <2>2. "LLK" \notin lckflg[q][f]
    BY <1>6 DEF NoLow
  <2> QED BY <1>3, <2>1, <2>2
<1>8. call[q].op = "fiolock"
  BY <1>1, <1>5, <1>7, Disciplined DEF OrderInv, SectionInv
<1>9. PICK g \in File : NextToLock(q, g) /\ x = <<g, FLLCK>>
  BY <1>4, <1>8 DEF Wanted
<1>10. f < g
  BY <1>1, <1>7, <1>8, <1>9 DEF OrderInv, HighLocked, NextToLock
<1>11. x[1] = g /\ x[2] = FLLCK
  BY <1>9
<1> QED BY <1>4, <1>9, <1>10, <1>11

LEMMA NoCircle == ASSUME OrderedInv, Disciplined PROVE NoDeadlock
<1> SUFFICES ASSUME NEW S \in SUBSET Proc, Deadlocked(S) PROVE FALSE
  BY DEF NoDeadlock
<1> DEFINE W == {f \in File : \E p, q \in S : <<f, FLLCK>> \in Wanted(p) /\ q \in Blockers(p, f, FLLCK)}
<1>1. PICK p \in S : p \in Proc /\ WaitsFor(p) \cap S # {}
  BY DEF Deadlocked
<1>2. PICK x \in Wanted(p), q \in S : q \in Blockers(p, x[1], x[2])
  BY <1>1 DEF WaitsFor
<1>3. W # {}
  <2>1. TypeOK /\ OrderInv(p) /\ CallReady(p) /\ call[p].fns \subseteq Handle
    BY <1>1, CallType DEF OrderedInv, FilepiInv, LockInv, RowInv
  <2>2. call[p] # Idle
    BY <1>2 DEF Wanted, Idle
  <2>3. CASE call[p].op = "fiolock"
    <3>1. PICK f \in File : x = <<f, FLLCK>>
      BY <1>2, <2>3 DEF Wanted
    <3>2. x[1] = f /\ x[2] = FLLCK
      BY <3>1
    <3> QED BY <1>2, <3>1, <3>2
  <2>4. CASE call[p].op = "fioflck" /\ call[p].pos = FLLCK
    <3>1. PICK n \in call[p].fns : x = <<ftab[p][n], FLLCK>>
      BY <1>2, <2>4 DEF Wanted
    <3>2. ftab[p][n] \in File
      BY <1>1, <2>1, <2>4, <3>1 DEF CallReady, TypeOK
    <3>3. x[1] = ftab[p][n] /\ x[2] = FLLCK
      BY <3>1
    <3> QED BY <1>2, <3>1, <3>2, <3>3
  <2> QED BY <2>1, <2>2, <2>3, <2>4 DEF OrderInv
<1>4. IsFiniteSet(W) /\ W \in SUBSET Nat
  BY FilepiAssumption, FileLockAssumption, FS_Subset
<1>5. PICK f \in W : \A g \in W : g <= f
  BY <1>3, <1>4, LargestNumber
<1>6. PICK r, s \in S : <<f, FLLCK>> \in Wanted(r) /\ s \in Blockers(r, f, FLLCK)
  BY <1>5
<1>7. \E g \in W : f < g
  BY <1>5, <1>6, WaitsUpwards
<1>8. \A g \in W : ~ (f < g)
  BY <1>4, <1>5
<1> QED BY <1>7, <1>8

\* Programs that lock their lists at once, and outside of a section one file
\* at a time, never wait for each other in a circle, for any number of them
\* and of files and whatever the order of the lists (fio.c 1195-1253,
\* dbcdio.c 2411-2465).
THEOREM NeverInACircle == ASSUME Disciplined PROVE FilepiSpec => []NoDeadlock
<1>1. OrderedInv => NoDeadlock
  BY NoCircle
<1> QED BY <1>1, OrderInit, OrderStep, PTL DEF FilepiSpec
=============================================================================
