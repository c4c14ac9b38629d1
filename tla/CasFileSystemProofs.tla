------------------------ MODULE CasFileSystemProofs ------------------------
(***************************************************************************)
(* For any number of writers, readers, objects, temporary names, manifests *)
(* and faults, on a directory and on S3: what is at an object's path, what *)
(* a returned Put promises, who owns a temporary file, and what Rehydrate  *)
(* brings back.                                                            *)
(***************************************************************************)
EXTENDS S3Store, TLAPS

PutRecord ==
    [pc : {"idle", "stat", "create", "return"} \cup Writing \cup OnS3,
     hash : Hashes \cup {None}, tmp : TempNames \cup {None},
     tries : 0..(ReadAttempts - 1), ans : {"ok", "integrity", "error", None}]

ReadRecord ==
    [pc : {"idle", "get", "return"}, todo : Seq(Hashes), all : BOOLEAN,
     got : SUBSET Hashes, want : SUBSET Hashes, held : SUBSET Hashes,
     ans : {"ok", "integrity", "notFound", "error", None}]

\* A Put works on one hash and on one temporary file, at points of its own
\* store.
PutShape ==
    /\ put \in [Putters -> PutRecord]
    /\ \A p \in Putters :
          /\ ~At(p, "idle") => Hash(p) \in Hashes
          /\ put[p].pc \in Writing => Temp(p) \in TempNames
          /\ put[p].pc \notin Writing => Temp(p) = None
          /\ store = "fs" => put[p].pc \notin OnS3
          /\ store = "s3" => put[p].pc \in {"idle", "return"} \cup OnS3
    /\ \A p, q \in Putters : Temp(p) = Temp(q) /\ Temp(p) # None => p = q

FileShape ==
    /\ obj \in [Hashes -> File \cup {None}]
    /\ DOMAIN tmp \subseteq TempNames /\ \A n \in DOMAIN tmp : tmp[n] \in File
    /\ sweep \in TempNames \cup {None}
    /\ acked \subseteq Hashes /\ flipped \subseteq Hashes
    /\ orphans \subseteq TempNames /\ late \subseteq Hashes
    /\ faults \in 0..MaxFaults
    /\ store = "s3" => DOMAIN tmp = {}

\* What is at an object's path is on the disk, and so is what a Put is about
\* to rename to it.
FilesWhole ==
    /\ \A h \in Hashes : Present(h) => obj[h].synced /\ (Intact(h) \/ h \in flipped)
    /\ \A p \in Putters : Temp(p) \in DOMAIN tmp =>
          /\ At(p, "sync")   => tmp[Temp(p)].data = "full"
          /\ At(p, "rename") => tmp[Temp(p)].data = "full" /\ tmp[Temp(p)].synced

\* A Rehydrate has, or still has to ask for, what was stored when it began,
\* and everything its package names if all is required.
Reads(c) ==
    /\ c.got \subseteq c.want /\ Range(c.todo) \subseteq c.want
    /\ c.pc = "get" =>
          /\ c.held \subseteq c.got \cup Range(c.todo)
          /\ c.all => c.want \subseteq c.got \cup Range(c.todo)
    /\ c.pc = "return" /\ c.ans = "ok" =>
          /\ c.held \subseteq c.got
          /\ c.all => c.want \subseteq c.got

ReadProgress ==
    /\ reader \in [Readers -> ReadRecord]
    /\ \A r \in Readers :
          /\ Reads(reader[r])
          /\ reader[r].pc = "get" => reader[r].held \subseteq acked

IInv ==
    /\ PutShape /\ FileShape /\ FilesWhole /\ AckedIsStored /\ TempsHaveOwners
    /\ ReadProgress

----------------------------------------------------------------------------
(* The steps by what they leave alone.                                     *)

FsPut(p) ==
    \/ StartPut(p) \/ Stat(p) \/ CreateTemp(p) \/ Write(p) \/ Sync(p)
    \/ PutFails(p) \/ Rename(p) \/ RenameFails(p) \/ ReadBack(p)
    \/ ReadBackBusy(p) \/ EndPut(p) \/ Crash(p)
S3Puts(p) ==
    \/ StartS3Put(p) \/ S3Has(p) \/ S3HasFails(p) \/ S3Put(p)
    \/ S3PutFails(p) \/ S3Crash(p)
    \/ EndPut(p) /\ UNCHANGED late
Sweeping == SweepRemove \/ \E n \in TempNames : Age(n) \/ SweepFind(n)
Reading(r) ==
    \/ S3GetDamaged(r)
    \/ (StartRehydrate(r) \/ Get(r) \/ GetFails(r) \/ EndRehydrate(r)) /\ UNCHANGED late

StepKind ==
    \/ UNCHANGED s3Vars
    \/ store = "fs" /\ UNCHANGED late /\ \E p \in Putters : FsPut(p)
    \/ store = "s3" /\ \E p \in Putters : S3Puts(p)
    \/ store = "fs" /\ UNCHANGED late /\ Sweeping
    \/ \E r \in Readers : Reading(r)
    \/ UNCHANGED late /\ \E h \in Hashes : BitFlip(h)
    \/ store = "s3" /\ \E h \in Hashes : S3LatePut(h)
    \/ store = "fs" /\ UNCHANGED late /\ PowerLoss

\* Every step is of one kind, and nobody changes the store.
LEMMA Kinds == [StoreNext]_s3Vars => store' = store /\ StepKind
<1> SUFFICES ASSUME [StoreNext]_s3Vars PROVE store' = store /\ StepKind
  OBVIOUS
<1>1. CASE UNCHANGED s3Vars
  BY <1>1 DEF s3Vars, StepKind
<1>2. CASE store = "fs" /\ Next /\ UNCHANGED <<late, store>>
  BY <1>2 DEF Next, StepKind, FsPut, Sweeping, Reading
<1>3. CASE store = "s3" /\ S3Next /\ UNCHANGED store
  BY <1>3 DEF S3Next, StepKind, S3Puts, Reading
<1> QED
  BY <1>1, <1>2, <1>3 DEF StoreNext

\* A Put leaves the readers and the damage alone and takes no promise back.
LEMMA FsPutFrame ==
    ASSUME NEW p \in Putters, FsPut(p)
    PROVE  UNCHANGED <<sweep, reader, flipped>> /\ acked \subseteq acked'
  BY DEF FsPut, StartPut, Stat, CreateTemp, Write, Sync, PutFails, Rename, RenameFails,
     ReadBack, ReadBackBusy, EndPut, Crash, Finish, Return

\* So does one on S3, which has no temporary files.
LEMMA S3PutsFrame ==
    ASSUME NEW p \in Putters, S3Puts(p)
    PROVE  UNCHANGED <<tmp, sweep, reader, flipped, orphans>> /\ acked \subseteq acked'
  BY DEF S3Puts, StartS3Put, S3Has, S3HasFails, S3Put, S3PutFails, S3Crash, EndPut, Return

\* The sweeper touches temporary files only.
LEMMA SweepFrame ==
    ASSUME Sweeping
    PROVE  UNCHANGED <<obj, put, reader, acked, flipped, orphans, faults>>
  BY DEF Sweeping, SweepRemove, Age, SweepFind

\* Rehydrate writes nothing.
LEMMA ReadFrame ==
    ASSUME NEW r \in Readers, Reading(r)
    PROVE  UNCHANGED <<obj, tmp, put, sweep, acked, flipped, orphans, late>>
  BY DEF Reading, S3GetDamaged, StartRehydrate, Get, GetFails, EndRehydrate

----------------------------------------------------------------------------
(* Put's record.                                                           *)

\* The Put of p is at a point, about a hash, with a temporary file.
Sets(p, label, h, t) ==
    /\ put' \in [Putters -> PutRecord]
    /\ put'[p].pc = label /\ put'[p].hash = h /\ put'[p].tmp = t
    /\ \A q \in Putters \ {p} : put'[q] = put[q]

Labels == {"idle", "stat", "create", "return"} \cup Writing \cup OnS3

\* Put goes on.
LEMMA GotoSets ==
    ASSUME PutShape, NEW p \in Putters, NEW label \in Labels, Goto(p, label)
    PROVE  Sets(p, label, Hash(p), Temp(p))
<1> DEFINE r == [put[p] EXCEPT !.pc = label]
<1>1. put' = [put EXCEPT ![p] = r]
  BY DEF PutShape, Goto
<1>2. put[p] \in PutRecord
  BY DEF PutShape
<1>3. r \in PutRecord /\ r.pc = label /\ r.hash = put[p].hash /\ r.tmp = put[p].tmp
  BY <1>2 DEF PutRecord, Labels
<1> HIDE DEF r
<1> QED
  BY <1>1, <1>3 DEF PutShape, Sets, Hash, Temp

\* Put begins.
LEMMA StartSets ==
    ASSUME PutShape, NEW p \in Putters, NEW label \in Labels, NEW h \in Hashes,
           put' = [put EXCEPT ![p] = [NoPut EXCEPT !.pc = label, !.hash = h]]
    PROVE  Sets(p, label, h, None)
<1> DEFINE r == [NoPut EXCEPT !.pc = label, !.hash = h]
<1>1. NoPut \in PutRecord /\ NoPut.tmp = None
  BY DEF PutRecord, NoPut, ReadAttempts
<1>2. r \in PutRecord /\ r.pc = label /\ r.hash = h /\ r.tmp = None
  BY <1>1 DEF PutRecord, Labels
<1>3. put' = [put EXCEPT ![p] = r]
  OBVIOUS
<1> HIDE DEF r
<1> QED
  BY <1>2, <1>3 DEF PutShape, Sets

\* The caller has the answer, or the process is gone.
LEMMA EndSets ==
    ASSUME PutShape, NEW p \in Putters, put' = [put EXCEPT ![p] = NoPut]
    PROVE  Sets(p, "idle", None, None)
<1>1. NoPut \in PutRecord /\ NoPut.pc = "idle" /\ NoPut.hash = None /\ NoPut.tmp = None
  BY DEF PutRecord, NoPut, ReadAttempts
<1> QED
  BY <1>1 DEF PutShape, Sets

\* Put returns.
LEMMA ReturnSets ==
    ASSUME PutShape, NEW p \in Putters, NEW ans \in {"ok", "integrity", "error"}, Return(p, ans)
    PROVE  Sets(p, "return", Hash(p), None)
<1> DEFINE r == [put[p] EXCEPT !.pc = "return", !.ans = ans, !.tmp = None]
<1>1. put' = [put EXCEPT ![p] = r]
  BY DEF PutShape, Return
<1>2. put[p] \in PutRecord
  BY DEF PutShape
<1>3. r \in PutRecord /\ r.pc = "return" /\ r.hash = put[p].hash /\ r.tmp = None
  BY <1>2 DEF PutRecord
<1> HIDE DEF r
<1> QED
  BY <1>1, <1>3 DEF PutShape, Sets, Hash

\* The temporary file is open.
LEMMA CreateSets ==
    ASSUME PutShape, NEW p \in Putters, NEW n \in TempNames,
           put' = [put EXCEPT ![p].pc = "write", ![p].tmp = n]
    PROVE  Sets(p, "write", Hash(p), n)
<1> DEFINE r == [put[p] EXCEPT !.pc = "write", !.tmp = n]
<1>1. put' = [put EXCEPT ![p] = r]
  BY DEF PutShape
<1>2. put[p] \in PutRecord
  BY DEF PutShape
<1>3. r \in PutRecord /\ r.pc = "write" /\ r.hash = put[p].hash /\ r.tmp = n
  BY <1>2 DEF PutRecord, Writing
<1> HIDE DEF r
<1> QED
  BY <1>1, <1>3 DEF PutShape, Sets, Hash

\* One more attempt to read the object back.
LEMMA BusySets ==
    ASSUME PutShape, NEW p \in Putters, put[p].tries + 1 < ReadAttempts,
           put' = [put EXCEPT ![p].tries = @ + 1]
    PROVE  Sets(p, put[p].pc, Hash(p), Temp(p))
<1> DEFINE r == [put[p] EXCEPT !.tries = @ + 1]
<1>1. put' = [put EXCEPT ![p] = r]
  BY DEF PutShape
<1>2. put[p] \in PutRecord
  BY DEF PutShape
<1>3. /\ r \in PutRecord /\ r.pc = put[p].pc /\ r.hash = put[p].hash
      /\ r.tmp = put[p].tmp
  BY <1>2 DEF PutRecord, ReadAttempts
<1> HIDE DEF r
<1> QED
  BY <1>1, <1>3 DEF PutShape, Sets, Hash, Temp

----------------------------------------------------------------------------
(* What the operations do, without their records.                          *)

\* Put returns the answer; a hash it returned is acknowledged.
Answers(p, ans) ==
    /\ Sets(p, "return", Hash(p), None)
    /\ acked' = IF ans = "ok" THEN acked \cup {Hash(p)} ELSE acked

\* The operation of p on the directory: it begins, goes on, returns or dies.
FsEffect(p) ==
    \/ /\ At(p, "idle") /\ \E h \in Hashes : Sets(p, "stat", h, None)
       /\ UNCHANGED <<obj, tmp, acked, orphans, faults>>
    \/ /\ At(p, "stat") /\ Sets(p, "create", Hash(p), Temp(p))
       /\ UNCHANGED <<obj, tmp, acked, orphans, faults>>
    \/ /\ At(p, "stat") /\ \E ans \in {"ok", "integrity"} :
             Answers(p, ans) /\ (ans = "ok" => Intact(Hash(p)))
       /\ UNCHANGED <<obj, tmp, orphans, faults>>
    \/ /\ At(p, "create")
       /\ \E n \in TempNames \ DOMAIN tmp :
             /\ \A q \in Putters : Temp(q) # n
             /\ tmp' = With(tmp, n, [data |-> "junk", synced |-> FALSE, old |-> FALSE])
             /\ Sets(p, "write", Hash(p), n)
             /\ orphans' = orphans \ {n}
       /\ UNCHANGED <<obj, acked, faults>>
    \/ Write(p) /\ Sets(p, "sync", Hash(p), Temp(p))
    \/ Sync(p) /\ Sets(p, "rename", Hash(p), Temp(p))
    \/ /\ At(p, "rename") /\ Temp(p) \in DOMAIN tmp
       /\ obj' = [obj EXCEPT ![Hash(p)] = tmp[Temp(p)]]
       /\ Answers(p, "ok") /\ tmp' = Without(tmp, Temp(p))
       /\ UNCHANGED <<orphans, faults>>
    \/ /\ At(p, "rename") /\ Sets(p, "readBack", Hash(p), Temp(p))
       /\ UNCHANGED <<obj, tmp, acked, orphans>> /\ faults' \in 0..MaxFaults
    \/ /\ At(p, "readBack") /\ Sets(p, "readBack", Hash(p), Temp(p))
       /\ UNCHANGED <<obj, tmp, acked, orphans, faults>>
    \/ /\ put[p].pc \in {"stat", "create"} \cup Writing
       /\ \E ans \in {"ok", "integrity", "error"} :
             Answers(p, ans) /\ (ans = "ok" => Intact(Hash(p)))
       /\ RemoveTemp(p)
       /\ UNCHANGED obj /\ faults' \in 0..MaxFaults
    \/ /\ At(p, "return") /\ Sets(p, "idle", None, None)
       /\ UNCHANGED <<obj, tmp, acked, orphans, faults>>
    \/ /\ ~At(p, "idle") /\ Sets(p, "idle", None, None)
       /\ orphans' = orphans \cup ({Temp(p)} \cap DOMAIN tmp)
       /\ UNCHANGED <<obj, tmp, acked>> /\ faults' \in 0..MaxFaults

\* A fault is counted within the bound.
LEMMA FaultBound == ASSUME FileShape, Fault PROVE faults' \in 0..MaxFaults
  BY CasFaultsAssumption DEF FileShape, Fault

\* Each action of Put on the directory does so.
LEMMA FsEffects ==
    ASSUME PutShape, FileShape, NEW p \in Putters, FsPut(p) PROVE FsEffect(p)
<1> USE DEF Labels, Writing, At
<1>1. CASE StartPut(p)
  BY <1>1, StartSets, WrittenAssumption DEF StartPut, FsEffect
<1>2. CASE Stat(p)
  <2>1. CASE Present(Hash(p))
    BY <1>2, <2>1, ReturnSets DEF Stat, FsEffect, Answers, Return
  <2>2. CASE ~Present(Hash(p))
    BY <1>2, <2>2, GotoSets DEF Stat, FsEffect
  <2> QED
    BY <2>1, <2>2
<1>3. CASE CreateTemp(p)
  <2>1. PICK n \in TempNames \ DOMAIN tmp :
          /\ \A q \in Putters : Temp(q) # n
          /\ tmp' = With(tmp, n, [data |-> "junk", synced |-> FALSE, old |-> FALSE])
          /\ put' = [put EXCEPT ![p].pc = "write", ![p].tmp = n]
          /\ orphans' = orphans \ {n}
    BY <1>3 DEF CreateTemp
  <2>2. Sets(p, "write", Hash(p), n)
    BY <2>1, CreateSets
  <2> QED
    BY <1>3, <2>1, <2>2 DEF CreateTemp, FsEffect
<1>4. CASE Write(p)
  BY <1>4, GotoSets DEF Write, FsEffect
<1>5. CASE Sync(p)
  BY <1>5, GotoSets DEF Sync, FsEffect
<1>6. CASE PutFails(p)
  <2>1. Answers(p, "error")
    BY <1>6, ReturnSets DEF PutFails, Finish, Answers, Return
  <2> QED
    BY <1>6, <2>1, FaultBound DEF PutFails, Finish, FsEffect
<1>7. CASE Rename(p)
  <2>1. CASE Temp(p) \in DOMAIN tmp
    <3>1. Answers(p, "ok")
      BY <1>7, <2>1, ReturnSets DEF Rename, Answers, Return
    <3> QED
      BY <1>7, <2>1, <3>1 DEF Rename, FsEffect
  <2>2. CASE Temp(p) \notin DOMAIN tmp
    <3>1. Sets(p, "readBack", Hash(p), Temp(p))
      BY <1>7, <2>2, GotoSets DEF Rename
    <3> QED
      BY <1>7, <2>2, <3>1 DEF Rename, FsEffect, FileShape
  <2> QED
    BY <2>1, <2>2
<1>8. CASE RenameFails(p)
  BY <1>8, GotoSets, FaultBound DEF RenameFails, FsEffect
<1>9. CASE ReadBack(p)
  <2> DEFINE ans == IF Intact(Hash(p)) THEN "ok"
                    ELSE IF Present(Hash(p)) THEN "integrity" ELSE "error"
  <2>1. ans \in {"ok", "integrity", "error"} /\ (ans = "ok" => Intact(Hash(p)))
    OBVIOUS
  <2>2. At(p, "readBack") /\ Return(p, ans) /\ RemoveTemp(p) /\ UNCHANGED <<obj, faults>>
    BY <1>9 DEF ReadBack, Finish
  <2> HIDE DEF ans
  <2>3. Answers(p, ans)
    BY <2>1, <2>2, ReturnSets DEF Answers, Return
  <2> QED
    BY <2>1, <2>2, <2>3 DEF FsEffect, FileShape
<1>10. CASE ReadBackBusy(p)
  <2>1. CASE put[p].tries + 1 < ReadAttempts
    BY <1>10, <2>1, BusySets DEF ReadBackBusy, FsEffect
  <2>2. CASE ~(put[p].tries + 1 < ReadAttempts)
    <3>1. Answers(p, "error")
      BY <1>10, <2>2, ReturnSets DEF ReadBackBusy, Finish, Answers, Return
    <3> QED
      BY <1>10, <2>2, <3>1 DEF ReadBackBusy, Finish, FsEffect, FileShape
  <2> QED
    BY <2>1, <2>2
<1>11. CASE EndPut(p)
  BY <1>11, EndSets DEF EndPut, FsEffect
<1>12. CASE Crash(p)
  BY <1>12, EndSets, FaultBound DEF Crash, FsEffect
<1> QED
  BY <1>1, <1>2, <1>3, <1>4, <1>5, <1>6, <1>7, <1>8, <1>9, <1>10, <1>11, <1>12 DEF FsPut

\* The operation of p on S3.  An object that is there counts as stored.
S3Effect(p) ==
    \/ /\ At(p, "idle") /\ \E h \in Hashes : Sets(p, "head", h, None)
       /\ UNCHANGED <<obj, acked, late, faults>>
    \/ /\ At(p, "head") /\ Present(Hash(p)) /\ Answers(p, "ok")
       /\ UNCHANGED <<obj, late, faults>>
    \/ /\ At(p, "head") /\ Sets(p, "upload", Hash(p), Temp(p))
       /\ UNCHANGED <<obj, acked, late>> /\ faults' \in 0..MaxFaults
    \/ At(p, "upload") /\ Upload(Hash(p)) /\ Answers(p, "ok") /\ UNCHANGED <<late, faults>>
    \/ /\ At(p, "upload") /\ late' \in {late, late \cup {Hash(p)}} /\ Answers(p, "error")
       /\ UNCHANGED obj /\ faults' \in 0..MaxFaults
    \/ /\ ~At(p, "idle") /\ late' \in {late, late \cup {Hash(p)}}
       /\ Sets(p, "idle", None, None)
       /\ UNCHANGED <<obj, acked>> /\ faults' \in 0..MaxFaults

\* Each action of Put on S3 does so.
LEMMA S3Effects ==
    ASSUME PutShape, FileShape, NEW p \in Putters, S3Puts(p) PROVE S3Effect(p)
<1> USE DEF Labels, OnS3, At
<1>1. CASE StartS3Put(p)
  BY <1>1, StartSets, WrittenAssumption DEF StartS3Put, S3Effect
<1>2. CASE S3Has(p)
  <2>1. CASE Present(Hash(p))
    BY <1>2, <2>1, ReturnSets DEF S3Has, S3Effect, Answers, Return
  <2>2. CASE ~Present(Hash(p))
    BY <1>2, <2>2, GotoSets DEF S3Has, S3Effect, FileShape
  <2> QED
    BY <2>1, <2>2
<1>3. CASE S3HasFails(p)
  BY <1>3, GotoSets, FaultBound DEF S3HasFails, S3Effect
<1>4. CASE S3Put(p)
  BY <1>4, ReturnSets DEF S3Put, S3Effect, Answers, Return
<1>5. CASE S3PutFails(p)
  BY <1>5, ReturnSets, FaultBound DEF S3PutFails, S3Effect, Answers, Return
<1>6. CASE S3Crash(p)
  BY <1>6, EndSets, FaultBound DEF S3Crash, S3Effect
<1>7. CASE EndPut(p) /\ UNCHANGED late
  BY <1>7, EndSets DEF EndPut, S3Effect, FileShape
<1> QED
  BY <1>1, <1>2, <1>3, <1>4, <1>5, <1>6, <1>7 DEF S3Puts

----------------------------------------------------------------------------
(* The invariant, part by part.                                            *)

\* A Put at a point of its own store, with a hash and with a temporary file of
\* its own while it writes, keeps the shape of the calls.
LEMMA SetsKeepShape ==
    ASSUME PutShape, store' = store, NEW p \in Putters, NEW label, NEW h, NEW t,
           Sets(p, label, h, t), label = "idle" \/ h \in Hashes,
           store = "fs" => label \notin OnS3,
           store = "s3" => label \in {"idle", "return"} \cup OnS3,
           \/ label \in Writing /\ t \in TempNames
           \/ label \notin Writing /\ t = None,
           t = None \/ t = Temp(p) \/ \A q \in Putters : Temp(q) # t
    PROVE  PutShape'
<1>1. put' \in [Putters -> PutRecord]
  BY DEF Sets
<1>2. ASSUME NEW q \in Putters
      PROVE /\ put'[q].pc # "idle" => put'[q].hash \in Hashes
            /\ put'[q].pc \in Writing => put'[q].tmp \in TempNames
            /\ put'[q].pc \notin Writing => put'[q].tmp = None
            /\ store = "fs" => put'[q].pc \notin OnS3
            /\ store = "s3" => put'[q].pc \in {"idle", "return"} \cup OnS3
  BY DEF PutShape, Sets, At, Hash, Temp
<1>3. ASSUME NEW q1 \in Putters, NEW q2 \in Putters,
             put'[q1].tmp = put'[q2].tmp, put'[q1].tmp # None
      PROVE  q1 = q2
  BY <1>3 DEF PutShape, Sets, Temp
<1> QED
  BY <1>1, <1>2, <1>3 DEF PutShape, At, Hash, Temp

\* Calls of Put keep their shape.
LEMMA PutStep == PutShape /\ FileShape /\ [StoreNext]_s3Vars => PutShape'
<1> SUFFICES ASSUME PutShape, FileShape, [StoreNext]_s3Vars PROVE PutShape'
  OBVIOUS
<1>0. store' = store /\ StepKind
  BY Kinds
<1> HIDE DEF StepKind
<1>1. ASSUME put' = put PROVE PutShape'
  BY <1>0, <1>1 DEF PutShape, At, Hash, Temp
<1>2. ASSUME store = "fs", NEW p \in Putters, FsPut(p) PROVE PutShape'
  <2>1. FsEffect(p)
    BY <1>2, FsEffects
  <2>2. /\ ~At(p, "idle") => Hash(p) \in Hashes
        /\ put[p].pc \in Writing => Temp(p) \in TempNames
        /\ put[p].pc \notin Writing => Temp(p) = None
    BY DEF PutShape
  <2> DEFINE Next1(label, h, t) ==
        /\ Sets(p, label, h, t)
        /\ label = "idle" \/ h \in Hashes
        /\ label \notin OnS3
        /\ \/ label \in Writing /\ t \in TempNames
           \/ label \notin Writing /\ t = None
        /\ t = None \/ t = Temp(p) \/ \A q \in Putters : Temp(q) # t
  <2>3. \E label \in Labels, h \in Hashes \cup {None}, t \in TempNames \cup {None} :
           Next1(label, h, t)
    BY <2>1, <2>2 DEF FsEffect, Write, Sync, Answers, At, Writing, OnS3, Labels
  <2>4. PICK label \in Labels, h \in Hashes \cup {None}, t \in TempNames \cup {None} :
           Next1(label, h, t)
    BY <2>3
  <2> QED
    BY <1>0, <1>2, <2>4, SetsKeepShape
<1>3. ASSUME store = "s3", NEW p \in Putters, S3Puts(p) PROVE PutShape'
  <2>1. S3Effect(p)
    BY <1>3, S3Effects
  <2>2. /\ ~At(p, "idle") => Hash(p) \in Hashes
        /\ put[p].pc \notin Writing => Temp(p) = None
    BY DEF PutShape
  <2>3. PICK label \in Labels, h \in Hashes \cup {None} :
          /\ Sets(p, label, h, None)
          /\ label = "idle" \/ h \in Hashes
          /\ label \in {"idle", "return"} \cup OnS3 /\ label \notin Writing
    BY <2>1, <2>2 DEF S3Effect, Answers, At, Writing, OnS3, Labels
  <2> QED
    BY <1>0, <1>3, <2>3, SetsKeepShape
<1>4. ASSUME NEW h \in Hashes, BitFlip(h) \/ S3LatePut(h) PROVE PutShape'
  BY <1>1, <1>4 DEF BitFlip, S3LatePut
<1>5. CASE store = "fs" /\ PowerLoss
  <2>1. put' = [p \in Putters |-> NoPut]
    BY <1>5 DEF PowerLoss
  <2>2. NoPut \in PutRecord /\ NoPut.pc = "idle" /\ NoPut.tmp = None
    BY DEF NoPut, PutRecord, ReadAttempts
  <2> QED
    BY <1>0, <1>5, <2>1, <2>2 DEF PutShape, At, Hash, Temp, Writing, OnS3
<1>6. CASE UNCHANGED s3Vars
  BY <1>1, <1>6 DEF s3Vars, vars
<1>7. CASE Sweeping
  BY <1>1, <1>7, SweepFrame
<1>8. ASSUME NEW r \in Readers, Reading(r) PROVE PutShape'
  BY <1>1, <1>8, ReadFrame
<1> QED
  BY <1>0, <1>2, <1>3, <1>4, <1>5, <1>6, <1>7, <1>8 DEF StepKind

\* Removing a temporary file leaves the others as they are.
LEMMA RemoveFile ==
    ASSUME NEW f, NEW n
    PROVE  /\ DOMAIN Without(f, n) = DOMAIN f \ {n}
           /\ \A k \in DOMAIN f \ {n} : Without(f, n)[k] = f[k]
  BY DEF Without

\* Writing to a file, syncing it and damaging it change that file only.
LEMMA ChangeFile ==
    ASSUME NEW f, NEW n \in DOMAIN f, \A k \in DOMAIN f : f[k] \in File
    PROVE  /\ DOMAIN [f EXCEPT ![n].synced = TRUE] = DOMAIN f
           /\ [f EXCEPT ![n].synced = TRUE][n] \in File
           /\ [f EXCEPT ![n].synced = TRUE][n].data = f[n].data
           /\ [f EXCEPT ![n].synced = TRUE][n].synced
           /\ \A k \in DOMAIN f \ {n} : [f EXCEPT ![n].synced = TRUE][k] = f[k]
<1> DEFINE g == [f[n] EXCEPT !.synced = TRUE]
<1>1. g \in File /\ g.data = f[n].data /\ g.synced
  BY DEF File
<1>2. [f EXCEPT ![n].synced = TRUE] = [f EXCEPT ![n] = g]
  OBVIOUS
<1> HIDE DEF g
<1> QED
  BY <1>1, <1>2

\* Files keep their types, and no fault goes past the bound.
LEMMA FileStep == PutShape /\ FileShape /\ [StoreNext]_s3Vars => FileShape'
<1> SUFFICES ASSUME PutShape, FileShape, [StoreNext]_s3Vars PROVE FileShape'
  OBVIOUS
<1>0. store' = store /\ StepKind
  BY Kinds
<1>1. CASE UNCHANGED s3Vars
  BY <1>1 DEF s3Vars, vars, FileShape
<1>2. ASSUME store = "fs", UNCHANGED late, NEW p \in Putters, FsPut(p) PROVE FileShape'
  <2>1. FsEffect(p) /\ sweep' = sweep /\ flipped' = flipped
    BY <1>2, FsEffects, FsPutFrame
  <2>2. ~At(p, "idle") => Hash(p) \in Hashes
    BY DEF PutShape
  <2>3. put[p].pc \in Labels /\ (\A ans : Answers(p, ans) /\ ~At(p, "idle") => acked' \subseteq Hashes)
    BY <2>2 DEF Answers, FileShape, PutShape, PutRecord, Labels
  <2>4. acked' \subseteq Hashes
    BY <2>1, <2>3 DEF FsEffect, FileShape, Write, Sync, At, Writing
  <2>5. obj' \in [Hashes -> File \cup {None}]
    BY <2>1, <2>2 DEF FsEffect, FileShape, Write, Sync, At
  <2>6. faults' \in 0..MaxFaults /\ orphans' \subseteq TempNames
    BY <2>1 DEF FsEffect, FileShape, Write, Sync, RemoveTemp
  <2>7. DOMAIN tmp' \subseteq TempNames /\ \A n \in DOMAIN tmp' : tmp'[n] \in File
    <3>1. CASE tmp' = tmp
      BY <3>1 DEF FileShape
    <3>2. CASE tmp' = Without(tmp, Temp(p))
      BY <3>2, RemoveFile DEF FileShape
    <3>3. ASSUME NEW n \in TempNames,
                 tmp' = With(tmp, n, [data |-> "junk", synced |-> FALSE, old |-> FALSE])
          PROVE  DOMAIN tmp' \subseteq TempNames /\ \A k \in DOMAIN tmp' : tmp'[k] \in File
      <4> DEFINE v == [data |-> "junk", synced |-> FALSE, old |-> FALSE]
      <4>1. v \in File
        BY DEF File
      <4> HIDE DEF v
      <4>2. tmp' = With(tmp, n, v)
        BY <3>3 DEF v
      <4>3. /\ DOMAIN tmp' = DOMAIN tmp \cup {n} /\ tmp'[n] = v
            /\ \A k \in DOMAIN tmp \ {n} : tmp'[k] = tmp[k]
        BY <4>2 DEF With
      <4> QED
        BY <4>1, <4>3 DEF FileShape
    <3>4. CASE Write(p)
      BY <3>4 DEF Write, WriteTo, FileShape, File
    <3>5. CASE Sync(p)
      <4>1. CASE Temp(p) \in DOMAIN tmp
        <5>1. tmp' = [tmp EXCEPT ![Temp(p)].synced = TRUE]
          BY <3>5, <4>1 DEF Sync
        <5> QED
          BY <4>1, <5>1, ChangeFile DEF FileShape
      <4>2. CASE Temp(p) \notin DOMAIN tmp
        BY <3>5, <4>2 DEF Sync, FileShape
      <4> QED
        BY <4>1, <4>2
    <3> QED
      BY <2>1, <3>1, <3>2, <3>3, <3>4, <3>5 DEF FsEffect, RemoveTemp
  <2> QED
    BY <1>0, <1>2, <2>1, <2>4, <2>5, <2>6, <2>7 DEF FileShape
<1>3. ASSUME store = "s3", NEW p \in Putters, S3Puts(p) PROVE FileShape'
  <2>1. S3Effect(p) /\ UNCHANGED <<tmp, sweep, flipped, orphans>>
    BY <1>3, S3Effects, S3PutsFrame
  <2>2. ~At(p, "idle") => Hash(p) \in Hashes
    BY DEF PutShape
  <2>3. acked' \subseteq Hashes /\ late' \subseteq Hashes /\ faults' \in 0..MaxFaults
    BY <2>1, <2>2 DEF S3Effect, Answers, FileShape, At
  <2>4. obj' \in [Hashes -> File \cup {None}]
    <3>1. Complete \in File
      BY DEF Complete, File
    <3> QED
      BY <2>1, <2>2, <3>1 DEF S3Effect, FileShape, At, Upload
  <2> QED
    BY <1>0, <1>3, <2>1, <2>3, <2>4 DEF FileShape
<1>4. CASE store = "fs" /\ UNCHANGED late /\ Sweeping
  <2>1. UNCHANGED <<obj, acked, flipped, orphans, faults>>
    BY <1>4, SweepFrame
  <2>2. /\ DOMAIN tmp' \subseteq TempNames /\ \A n \in DOMAIN tmp' : tmp'[n] \in File
        /\ sweep' \in TempNames \cup {None}
    <3>1. CASE SweepRemove
      <4>1. tmp' = tmp \/ tmp' = Without(tmp, sweep)
        BY <3>1 DEF SweepRemove
      <4>2. /\ DOMAIN Without(tmp, sweep) \subseteq DOMAIN tmp
            /\ \A k \in DOMAIN Without(tmp, sweep) : Without(tmp, sweep)[k] = tmp[k]
        BY RemoveFile
      <4>3. sweep' = None
        BY <3>1 DEF SweepRemove
      <4> QED
        BY <4>1, <4>2, <4>3 DEF FileShape
    <3>2. ASSUME NEW n \in TempNames, SweepFind(n)
          PROVE  /\ DOMAIN tmp' \subseteq TempNames /\ \A k \in DOMAIN tmp' : tmp'[k] \in File
                 /\ sweep' \in TempNames \cup {None}
      BY <3>2 DEF SweepFind, FileShape
    <3>3. ASSUME NEW n \in TempNames, Age(n)
          PROVE  /\ DOMAIN tmp' \subseteq TempNames /\ \A k \in DOMAIN tmp' : tmp'[k] \in File
                 /\ sweep' \in TempNames \cup {None}
      BY <3>3 DEF Age, FileShape, File
    <3> QED
      BY <1>4, <3>1, <3>2, <3>3 DEF Sweeping
  <2> QED
    BY <1>0, <1>4, <2>1, <2>2 DEF FileShape
<1>5. ASSUME NEW r \in Readers, Reading(r) PROVE FileShape'
  <2>1. faults' \in 0..MaxFaults
    BY <1>5, FaultBound DEF Reading, S3GetDamaged, StartRehydrate, Get, GetFails, EndRehydrate,
       FileShape
  <2> QED
    BY <1>0, <1>5, <2>1, ReadFrame DEF FileShape
<1>6. ASSUME UNCHANGED late, NEW h \in Hashes, BitFlip(h) PROVE FileShape'
  <2>1. faults' \in 0..MaxFaults /\ flipped' \subseteq Hashes
    BY <1>6, FaultBound DEF BitFlip, FileShape
  <2>2. obj' \in [Hashes -> File \cup {None}]
    BY <1>6 DEF BitFlip, FileShape, Intact, Present, File
  <2> QED
    BY <1>0, <1>6, <2>1, <2>2 DEF FileShape, BitFlip
<1>7. ASSUME NEW h \in Hashes, S3LatePut(h) PROVE FileShape'
  <2>1. obj' \in [Hashes -> File \cup {None}]
    BY <1>7 DEF S3LatePut, FileShape, Upload, Complete, File
  <2> QED
    BY <1>0, <1>7, <2>1 DEF FileShape, S3LatePut
<1>8. CASE store = "fs" /\ UNCHANGED late /\ PowerLoss
  <2>1. faults' \in 0..MaxFaults
    BY <1>8, FaultBound DEF PowerLoss
  <2>2. PICK kept \in SUBSET DOMAIN tmp : tmp' \in [kept -> File] /\ orphans' = kept
    BY <1>8 DEF PowerLoss
  <2>3. obj' \in [Hashes -> File \cup {None}] /\ sweep' = None /\ acked' = {} /\ flipped' = flipped
    BY <1>8 DEF PowerLoss
  <2> QED
    BY <1>0, <1>8, <2>1, <2>2, <2>3 DEF FileShape
<1> QED
  BY <1>0, <1>1, <1>2, <1>3, <1>4, <1>5, <1>6, <1>7, <1>8 DEF StepKind

\* Objects at their paths stay whole, and a writer renames only what it wrote
\* and synced.
LEMMA WholeStep == PutShape /\ FileShape /\ FilesWhole /\ [StoreNext]_s3Vars => FilesWhole'
<1> SUFFICES ASSUME PutShape, FileShape, FilesWhole, [StoreNext]_s3Vars PROVE FilesWhole'
  OBVIOUS
<1> DEFINE Paths == \A h \in Hashes :
              Present(h) => obj[h].synced /\ (Intact(h) \/ h \in flipped)
           Temps == \A p \in Putters : Temp(p) \in DOMAIN tmp =>
              /\ At(p, "sync")   => tmp[Temp(p)].data = "full"
              /\ At(p, "rename") => tmp[Temp(p)].data = "full" /\ tmp[Temp(p)].synced
<1>a. Paths /\ Temps
  BY DEF FilesWhole
<1>b. ASSUME Paths', Temps' PROVE FilesWhole'
  BY <1>b DEF FilesWhole
<1>0. store' = store /\ StepKind
  BY Kinds
<1>c. ASSUME UNCHANGED <<obj, flipped>> PROVE Paths'
  BY <1>a, <1>c DEF Present, Intact
<1>d. ASSUME put' = put, DOMAIN tmp' \subseteq DOMAIN tmp,
             \A n \in DOMAIN tmp' : /\ tmp'[n].data = tmp[n].data
                                    /\ tmp[n].synced => tmp'[n].synced
      PROVE  Temps'
  BY <1>a, <1>d DEF Temp, At
<1>e. ASSUME DOMAIN tmp' = {} PROVE Temps'
  BY <1>e
<1>f. ASSUME NEW h \in Hashes, Upload(h), flipped' = flipped PROVE Paths'
  <2>1. Complete.data = "full" /\ Complete.synced
    BY DEF Complete
  <2>2. obj' = [obj EXCEPT ![h] = Complete] /\ obj \in [Hashes -> File \cup {None}]
    BY <1>f DEF Upload, FileShape
  <2> QED
    BY <1>a, <1>f, <2>1, <2>2 DEF Present, Intact
<1> HIDE DEF Paths, Temps
<1>1. CASE UNCHANGED s3Vars
  BY <1>1, <1>b, <1>c, <1>d DEF s3Vars, vars
<1>2. ASSUME store = "fs", UNCHANGED late, NEW p \in Putters, FsPut(p) PROVE FilesWhole'
  <2>1. FsEffect(p) /\ flipped' = flipped
    BY <1>2, FsEffects, FsPutFrame
  <2>2. Paths'
    <3>1. CASE obj' = obj
      BY <2>1, <3>1, <1>c
    <3>2. CASE At(p, "rename") /\ Temp(p) \in DOMAIN tmp /\ obj' = [obj EXCEPT ![Hash(p)] = tmp[Temp(p)]]
      <4>1. tmp[Temp(p)].data = "full" /\ tmp[Temp(p)].synced
        BY <1>a, <3>2 DEF Temps
      <4>2. obj \in [Hashes -> File \cup {None}]
        BY DEF FileShape
      <4> QED
        BY <1>a, <2>1, <3>2, <4>1, <4>2 DEF Paths, Present, Intact
    <3> QED
      BY <2>1, <3>1, <3>2 DEF FsEffect, Write, Sync
  <2>3. Temps'
    <3>1. ASSUME NEW q \in Putters \ {p} PROVE
            /\ put'[q] = put[q]
            /\ Temp(q) \in DOMAIN tmp' => Temp(q) \in DOMAIN tmp /\ tmp'[Temp(q)] = tmp[Temp(q)]
      <4>1. put'[q] = put[q]
        BY <2>1 DEF FsEffect, Sets, Answers
      <4>2. Temp(q) # Temp(p) \/ Temp(q) = None
        BY DEF PutShape
      <4>3. CASE tmp' = tmp
        BY <4>1, <4>3
      <4>4. CASE tmp' = Without(tmp, Temp(p))
        BY <4>1, <4>4, RemoveFile
      <4>5. ASSUME NEW n \in TempNames \ DOMAIN tmp, Temp(q) # n,
                   tmp' = With(tmp, n, [data |-> "junk", synced |-> FALSE, old |-> FALSE])
            PROVE  Temp(q) \in DOMAIN tmp' => Temp(q) \in DOMAIN tmp /\ tmp'[Temp(q)] = tmp[Temp(q)]
        BY <4>5 DEF With
      <4>6. None \notin DOMAIN tmp
        BY NoTempAssumption DEF FileShape
      <4>7. CASE Write(p) \/ Sync(p)
        BY <4>1, <4>2, <4>6, <4>7 DEF Write, WriteTo, Sync
      <4> QED
        BY <2>1, <4>1, <4>3, <4>4, <4>5, <4>7 DEF FsEffect, RemoveTemp
    <3>2. /\ put'[p].tmp \in DOMAIN tmp' => 
             /\ put'[p].pc = "sync"   => tmp'[put'[p].tmp].data = "full"
             /\ put'[p].pc = "rename" => tmp'[put'[p].tmp].data = "full" /\ tmp'[put'[p].tmp].synced
      <4>1. CASE Write(p) /\ Sets(p, "sync", Hash(p), Temp(p))
        BY <4>1 DEF Write, WriteTo, Sets
      <4>2. CASE Sync(p) /\ Sets(p, "rename", Hash(p), Temp(p))
        <5>1. put'[p].pc = "rename" /\ put'[p].tmp = Temp(p) /\ At(p, "sync")
          BY <4>2 DEF Sets, Sync
        <5>2. CASE Temp(p) \in DOMAIN tmp
          <6>1. tmp' = [tmp EXCEPT ![Temp(p)].synced = TRUE]
            BY <4>2, <5>2 DEF Sync
          <6>2. tmp[Temp(p)].data = "full"
            BY <1>a, <5>1, <5>2 DEF Temps
          <6>3. \A n \in DOMAIN tmp : tmp[n] \in File
            BY DEF FileShape
          <6>4. tmp'[Temp(p)].data = tmp[Temp(p)].data /\ tmp'[Temp(p)].synced
            BY <5>2, <6>1, <6>3, ChangeFile
          <6> QED
            BY <5>1, <6>2, <6>4
        <5>3. CASE Temp(p) \notin DOMAIN tmp
          BY <4>2, <5>1, <5>3 DEF Sync
        <5> QED
          BY <5>2, <5>3
      <4>3. ASSUME put'[p].pc \notin {"sync", "rename"}
            PROVE  put'[p].tmp \in DOMAIN tmp' => 
                     /\ put'[p].pc = "sync"   => tmp'[put'[p].tmp].data = "full"
                     /\ put'[p].pc = "rename" => tmp'[put'[p].tmp].data = "full" /\ tmp'[put'[p].tmp].synced
        BY <4>3
      <4> QED
        BY <2>1, <4>1, <4>2, <4>3 DEF FsEffect, Sets, Answers
    <3> QED
      BY <1>a, <3>1, <3>2 DEF Temps, Temp, At
  <2> QED
    BY <2>2, <2>3, <1>b
<1>3. ASSUME store = "s3", NEW p \in Putters, S3Puts(p) PROVE FilesWhole'
  <2>1. S3Effect(p) /\ UNCHANGED <<tmp, flipped>> /\ DOMAIN tmp = {}
    BY <1>3, S3Effects, S3PutsFrame DEF FileShape
  <2>2. At(p, "upload") => Hash(p) \in Hashes
    BY DEF PutShape, At
  <2>3. Paths'
    BY <2>1, <2>2, <1>c, <1>f DEF S3Effect
  <2> QED
    BY <2>1, <2>3, <1>b, <1>e
<1>4. CASE Sweeping
  <2>1. UNCHANGED <<obj, put, flipped>>
    BY <1>4, SweepFrame
  <2>2. /\ DOMAIN tmp' \subseteq DOMAIN tmp
        /\ \A n \in DOMAIN tmp' : /\ tmp'[n].data = tmp[n].data
                                  /\ tmp[n].synced => tmp'[n].synced
    <3>1. CASE SweepRemove
      <4>1. tmp' = tmp \/ tmp' = Without(tmp, sweep)
        BY <3>1 DEF SweepRemove
      <4>2. /\ DOMAIN Without(tmp, sweep) \subseteq DOMAIN tmp
            /\ \A k \in DOMAIN Without(tmp, sweep) : Without(tmp, sweep)[k] = tmp[k]
        BY RemoveFile
      <4> QED
        BY <4>1, <4>2
    <3>2. ASSUME NEW n \in TempNames, SweepFind(n) PROVE tmp' = tmp
      BY <3>2 DEF SweepFind
    <3>3. ASSUME NEW n \in TempNames, Age(n)
          PROVE  /\ DOMAIN tmp' \subseteq DOMAIN tmp
                 /\ \A k \in DOMAIN tmp' : /\ tmp'[k].data = tmp[k].data
                                           /\ tmp[k].synced => tmp'[k].synced
      BY <3>3 DEF Age, FileShape, File
    <3> QED
      BY <1>4, <3>1, <3>2, <3>3 DEF Sweeping
  <2> QED
    BY <2>1, <2>2, <1>b, <1>c, <1>d
<1>5. ASSUME NEW r \in Readers, Reading(r) PROVE FilesWhole'
  BY <1>5, <1>b, <1>c, <1>d, ReadFrame
<1>6. ASSUME NEW h \in Hashes, BitFlip(h) PROVE FilesWhole'
  <2>1. UNCHANGED <<tmp, put>> /\ flipped' = flipped \cup {h}
    BY <1>6 DEF BitFlip
  <2>2. /\ obj'[h].data = "junk" /\ (obj[h].synced => obj'[h].synced) /\ Present(h)
        /\ \A k \in Hashes \ {h} : obj'[k] = obj[k]
    BY <1>6 DEF BitFlip, FileShape, Intact, Present, File
  <2>3. Paths'
    BY <1>a, <2>1, <2>2 DEF Paths, Present, Intact
  <2> QED
    BY <2>1, <2>3, <1>b, <1>d
<1>7. ASSUME NEW h \in Hashes, S3LatePut(h) PROVE FilesWhole'
  BY <1>7, <1>b, <1>d, <1>f DEF S3LatePut
<1>8. CASE PowerLoss
  <2>1. \A h \in Hashes : Present(h)' => Present(h) /\ obj'[h] = obj[h]
    BY <1>8, <1>a DEF Paths, PowerLoss, After, Present
  <2>2. Paths'
    BY <1>8, <1>a, <2>1 DEF Paths, PowerLoss, Present, Intact
  <2>3. \A p \in Putters : put'[p].pc = "idle"
    BY <1>8 DEF PowerLoss, NoPut
  <2>4. Temps'
    BY <2>3 DEF Temps, At
  <2> QED
    BY <2>2, <2>4, <1>b
<1> QED
  BY <1>0, <1>1, <1>2, <1>3, <1>4, <1>5, <1>6, <1>7, <1>8 DEF StepKind

\* A file, and so an object that is there, is not None.
LEMMA Files == ASSUME FileShape, NEW f \in File PROVE f # None
  BY NoFileAssumption

\* No step but a power loss takes an acknowledged object away, and an object is
\* acknowledged only when it is there.
LEMMA AckedStep ==
    PutShape /\ FileShape /\ FilesWhole /\ AckedIsStored /\ [StoreNext]_s3Vars => AckedIsStored'
<1> SUFFICES ASSUME PutShape, FileShape, FilesWhole, AckedIsStored, [StoreNext]_s3Vars
             PROVE  AckedIsStored'
  OBVIOUS
<1> DEFINE Stored(h) == Intact(h) \/ (Present(h) /\ h \in flipped)
<1>0. store' = store /\ StepKind
  BY Kinds
<1>1. ASSUME \A h \in Hashes : Stored(h) => Stored(h)',
             \A h \in acked' \ acked : Stored(h)'
      PROVE  AckedIsStored'
  BY <1>1 DEF AckedIsStored, FileShape
<1>2. ASSUME UNCHANGED <<obj, flipped>> PROVE \A h \in Hashes : Stored(h) => Stored(h)'
  BY <1>2 DEF Intact, Present
<1>3. ASSUME NEW h \in Hashes, NEW f \in File, f.data = "full", flipped' = flipped,
             obj' = [obj EXCEPT ![h] = f]
      PROVE  Stored(h)' /\ \A k \in Hashes : Stored(k) => Stored(k)'
  BY <1>3, Files DEF Intact, Present, FileShape
<1>4. \A h \in Hashes : Present(h) => Stored(h)
  BY DEF FilesWhole, Intact
<1>5. ASSUME UNCHANGED <<obj, flipped>>, acked' = acked PROVE AckedIsStored'
  BY <1>1, <1>2, <1>5
<1>6. ASSUME UNCHANGED <<obj, flipped>>, NEW p \in Putters, NEW ans, Answers(p, ans),
             ~At(p, "idle"), ans = "ok" => Present(Hash(p))
      PROVE  AckedIsStored'
  <2>1. Hash(p) \in Hashes
    BY <1>6 DEF PutShape
  <2>2. ans = "ok" => Stored(Hash(p))
    BY <1>4, <1>6, <2>1
  <2>3. acked' = IF ans = "ok" THEN acked \cup {Hash(p)} ELSE acked
    BY <1>6 DEF Answers
  <2> QED
    BY <1>1, <1>2, <1>6, <2>2, <2>3 DEF Intact, Present
<1>7. ASSUME store = "fs", NEW p \in Putters, FsPut(p) PROVE AckedIsStored'
  <2>1. FsEffect(p) /\ flipped' = flipped
    BY <1>7, FsEffects, FsPutFrame
  <2>2. CASE At(p, "rename") /\ Temp(p) \in DOMAIN tmp /\ Answers(p, "ok")
             /\ obj' = [obj EXCEPT ![Hash(p)] = tmp[Temp(p)]]
    <3>1. Hash(p) \in Hashes
      BY <2>2 DEF PutShape, At
    <3>2. tmp[Temp(p)] \in File /\ tmp[Temp(p)].data = "full"
      BY <2>2 DEF FilesWhole, FileShape
    <3>3. obj'[Hash(p)] = tmp[Temp(p)] /\ acked' = acked \cup {Hash(p)}
      BY <2>2, <3>1 DEF FileShape, Answers
    <3>4. \A k \in Hashes : Stored(k) => Stored(k)'
      BY <1>3, <2>1, <2>2, <3>1, <3>2
    <3>5. \A h \in acked' \ acked : Stored(h)'
      BY <3>2, <3>3, Files DEF Intact, Present
    <3> QED
      BY <1>1, <3>4, <3>5
  <2>3. CASE Write(p) \/ Sync(p)
    BY <1>5, <2>1, <2>3 DEF Write, Sync
  <2>4. ASSUME NEW ans, Answers(p, ans), ans = "ok" => Intact(Hash(p)), obj' = obj,
               ~At(p, "idle")
        PROVE  AckedIsStored'
    BY <1>6, <2>1, <2>4 DEF Intact
  <2>5. CASE UNCHANGED <<obj, acked>>
    BY <1>5, <2>1, <2>5
  <2> QED
    BY <2>1, <2>2, <2>3, <2>4, <2>5 DEF FsEffect, At, Writing
<1>8. ASSUME store = "s3", NEW p \in Putters, S3Puts(p) PROVE AckedIsStored'
  <2>1. S3Effect(p) /\ flipped' = flipped
    BY <1>8, S3Effects, S3PutsFrame
  <2>2. CASE At(p, "upload") /\ Upload(Hash(p)) /\ Answers(p, "ok")
    <3>1. Hash(p) \in Hashes
      BY <2>2 DEF PutShape, At
    <3>2. Complete \in File /\ Complete.data = "full"
      BY DEF Complete, File
    <3>3. /\ obj' = [obj EXCEPT ![Hash(p)] = Complete]
          /\ obj'[Hash(p)] = Complete /\ acked' = acked \cup {Hash(p)}
      BY <2>2, <3>1 DEF FileShape, Answers, Upload
    <3>4. \A k \in Hashes : Stored(k) => Stored(k)'
      BY <1>3, <2>1, <3>1, <3>2, <3>3
    <3>5. \A h \in acked' \ acked : Stored(h)'
      BY <3>2, <3>3, Files DEF Intact, Present
    <3> QED
      BY <1>1, <3>4, <3>5
  <2>3. ASSUME NEW ans, Answers(p, ans), ans = "ok" => Present(Hash(p)), obj' = obj,
               ~At(p, "idle")
        PROVE  AckedIsStored'
    BY <1>6, <2>1, <2>3
  <2>4. CASE UNCHANGED <<obj, acked>>
    BY <1>5, <2>1, <2>4
  <2> QED
    BY <2>1, <2>2, <2>3, <2>4 DEF S3Effect, At
<1>9. ASSUME NEW h \in Hashes, BitFlip(h) PROVE AckedIsStored'
  <2>1. flipped' = flipped \cup {h} /\ acked' = acked
    BY <1>9 DEF BitFlip
  <2>2. /\ obj'[h] \in File /\ \A k \in Hashes \ {h} : obj'[k] = obj[k]
    BY <1>9 DEF BitFlip, FileShape, Intact, Present, File
  <2>3. \A k \in Hashes : Stored(k) => Stored(k)'
    BY <2>1, <2>2, Files DEF Intact, Present
  <2> QED
    BY <1>1, <2>1, <2>3
<1>10. ASSUME NEW h \in Hashes, S3LatePut(h) PROVE AckedIsStored'
  <2>1. obj' = [obj EXCEPT ![h] = Complete] /\ acked' = acked /\ flipped' = flipped
    BY <1>10 DEF S3LatePut, Upload
  <2>2. Complete \in File /\ Complete.data = "full"
    BY DEF Complete, File
  <2>3. \A k \in Hashes : Stored(k) => Stored(k)'
    BY <1>3, <2>1, <2>2
  <2> QED
    BY <1>1, <2>1, <2>3
<1>11. CASE PowerLoss
  BY <1>11 DEF PowerLoss, AckedIsStored
<1>12. CASE UNCHANGED s3Vars \/ Sweeping \/ \E r \in Readers : Reading(r)
  BY <1>5, <1>12, SweepFrame, ReadFrame DEF s3Vars, vars
<1> QED
  BY <1>0, <1>7, <1>8, <1>9, <1>10, <1>11, <1>12 DEF StepKind

\* A temporary file belongs to a Put until that Put removes it, fails to or
\* dies.
LEMMA OwnerStep ==
    PutShape /\ FileShape /\ TempsHaveOwners /\ [StoreNext]_s3Vars => TempsHaveOwners'
<1> SUFFICES ASSUME PutShape, FileShape, TempsHaveOwners, [StoreNext]_s3Vars
             PROVE  TempsHaveOwners'
  OBVIOUS
<1>0. store' = store /\ StepKind
  BY Kinds
<1>1. ASSUME put' = put, DOMAIN tmp' \subseteq DOMAIN tmp, orphans' = orphans
      PROVE  TempsHaveOwners'
  BY <1>1 DEF TempsHaveOwners, Temp
<1>2. ASSUME store = "fs", NEW p \in Putters, FsPut(p) PROVE TempsHaveOwners'
  <2>1. FsEffect(p)
    BY <1>2, FsEffects
  <2>2. put[p].pc \notin Writing => Temp(p) = None
    BY DEF PutShape
  <2>3. None \notin DOMAIN tmp
    BY NoTempAssumption DEF FileShape
  <2>4. \A q \in Putters \ {p} : put'[q] = put[q]
    BY <2>1 DEF FsEffect, Sets, Answers
  <2>5. ASSUME NEW n \in DOMAIN tmp' PROVE n \in orphans' \/ \E q \in Putters : put'[q].tmp = n
    <3>1. n \in DOMAIN tmp => n \in orphans \/ \E q \in Putters : put[q].tmp = n
      BY DEF TempsHaveOwners, Temp
    <3>2. n \in DOMAIN tmp /\ n \in orphans => n \in orphans'
      BY <2>1 DEF FsEffect, Write, Sync, RemoveTemp
    <3>3. n \notin DOMAIN tmp => put'[p].tmp = n
      <4>1. CASE DOMAIN tmp' \subseteq DOMAIN tmp
        BY <4>1
      <4>2. ASSUME NEW m \in TempNames, Sets(p, "write", Hash(p), m),
                   tmp' = With(tmp, m, [data |-> "junk", synced |-> FALSE, old |-> FALSE])
            PROVE  n \notin DOMAIN tmp => put'[p].tmp = n
        BY <4>2 DEF With, Sets
      <4>3. CASE Write(p) \/ Sync(p)
        BY <4>3 DEF Write, WriteTo, Sync
      <4>4. DOMAIN Without(tmp, Temp(p)) \subseteq DOMAIN tmp
        BY RemoveFile
      <4>5. RemoveTemp(p) => DOMAIN tmp' \subseteq DOMAIN tmp
        BY <4>4 DEF RemoveTemp
      <4> QED
        BY <2>1, <4>1, <4>2, <4>3, <4>4, <4>5 DEF FsEffect
    <3>4. n \in DOMAIN tmp /\ put[p].tmp = n => put'[p].tmp = n \/ n \in orphans'
      <4> SUFFICES ASSUME n \in DOMAIN tmp, put[p].tmp = n PROVE put'[p].tmp = n \/ n \in orphans'
        OBVIOUS
      <4>1. put[p].pc \in Writing
        BY <2>2, <2>3 DEF Temp
      <4>2. n \notin DOMAIN Without(tmp, Temp(p))
        <5>1. Temp(p) = n
          BY DEF Temp
        <5> QED
          BY <5>1 DEF Without
      <4>3. tmp' # Without(tmp, Temp(p))
        BY <4>2
      <4>4. RemoveTemp(p) => n \in orphans'
        BY <4>3 DEF RemoveTemp, Temp
      <4> QED
        BY <2>1, <4>1, <4>3, <4>4 DEF FsEffect, Sets, At, Writing, Temp
    <3> QED
      BY <2>4, <3>1, <3>2, <3>3, <3>4
  <2> QED
    BY <2>5 DEF TempsHaveOwners, Temp
<1>3. ASSUME store = "s3", NEW p \in Putters, S3Puts(p) PROVE TempsHaveOwners'
  BY <1>3, S3PutsFrame DEF TempsHaveOwners, FileShape
<1>4. CASE Sweeping
  <2>1. put' = put /\ orphans' = orphans
    BY <1>4, SweepFrame
  <2>2. DOMAIN Without(tmp, sweep) \subseteq DOMAIN tmp
    BY RemoveFile
  <2>3. DOMAIN tmp' \subseteq DOMAIN tmp
    BY <1>4, <2>2 DEF Sweeping, SweepRemove, SweepFind, Age
  <2> QED
    BY <1>1, <2>1, <2>3
<1>5. CASE PowerLoss
  BY <1>5 DEF PowerLoss, TempsHaveOwners
<1>6. ASSUME NEW h \in Hashes, BitFlip(h) \/ S3LatePut(h) PROVE TempsHaveOwners'
  BY <1>1, <1>6 DEF BitFlip, S3LatePut
<1>7. CASE UNCHANGED s3Vars \/ \E r \in Readers : Reading(r)
  BY <1>1, <1>7, ReadFrame DEF s3Vars, vars
<1> QED
  BY <1>0, <1>2, <1>3, <1>4, <1>5, <1>6, <1>7 DEF StepKind

----------------------------------------------------------------------------
(* Rehydrate.                                                              *)

\* What is left to ask for after the first hash of the list.
LEMMA TailRange ==
    ASSUME NEW s \in Seq(Hashes), s # << >>
    PROVE  /\ Tail(s) \in Seq(Hashes) /\ Head(s) \in Hashes
           /\ Range(s) = {Head(s)} \cup Range(Tail(s))
<1>1. Tail(s) \in Seq(Hashes) /\ Head(s) \in Hashes
  OBVIOUS
<1>2. /\ Len(s) \in Nat /\ Len(s) > 0 /\ Head(s) = s[1]
      /\ DOMAIN s = 1..Len(s) /\ DOMAIN Tail(s) = 1..(Len(s) - 1)
      /\ \A i \in 1..(Len(s) - 1) : Tail(s)[i] = s[i + 1]
  OBVIOUS
<1>3. ASSUME NEW i \in DOMAIN s PROVE s[i] \in {Head(s)} \cup Range(Tail(s))
  <2>1. CASE i = 1
    BY <1>2, <2>1
  <2>2. CASE i # 1
    <3>1. i - 1 \in DOMAIN Tail(s) /\ Tail(s)[i - 1] = s[i]
      BY <1>2, <2>2
    <3> QED
      BY <3>1 DEF Range
  <2> QED
    BY <2>1, <2>2
<1>4. ASSUME NEW i \in DOMAIN Tail(s) PROVE Tail(s)[i] \in Range(s)
  <2>1. i + 1 \in DOMAIN s /\ Tail(s)[i] = s[i + 1]
    BY <1>2
  <2> QED
    BY <2>1 DEF Range
<1>5. Head(s) \in Range(s)
  <2>1. 1 \in DOMAIN s
    BY <1>2
  <2> QED
    BY <1>2, <2>1 DEF Range
<1>6. Range(s) \subseteq {Head(s)} \cup Range(Tail(s))
  BY <1>3 DEF Range
<1>7. Range(Tail(s)) \subseteq Range(s)
  BY <1>4 DEF Range
<1> QED
  BY <1>1, <1>5, <1>6, <1>7

\* A call that has not begun.
LEMMA NotReading == NoRead \in ReadRecord /\ Reads(NoRead) /\ NoRead.pc = "idle"
<1>1. NoRead \in ReadRecord
  BY DEF NoRead, ReadRecord
<1>2. Range(<< >>) = {}
  BY DEF Range
<1> QED
  BY <1>1, <1>2 DEF NoRead, Reads

\* The call of r becomes c, the others stay.
Becomes(r, c) == reader' = [reader EXCEPT ![r] = c]

\* A Rehydrate that goes on keeps the progress of all.
LEMMA BecomesKeeps ==
    ASSUME ReadProgress, NEW r \in Readers, NEW c \in ReadRecord, Becomes(r, c), Reads(c),
           c.pc = "get" => c.held \subseteq acked, acked' = acked
    PROVE  ReadProgress'
<1>1. reader' \in [Readers -> ReadRecord]
  BY DEF ReadProgress, Becomes
<1>2. \A q \in Readers : reader'[q] = IF q = r THEN c ELSE reader[q]
  BY DEF ReadProgress, Becomes
<1>3. \A q \in Readers :
        Reads(reader'[q]) /\ (reader'[q].pc = "get" => reader'[q].held \subseteq acked')
  BY <1>2 DEF ReadProgress
<1> QED
  BY <1>1, <1>3 DEF ReadProgress

\* The call returns: with everything if the list is at its end, or an error.
LEMMA GiveKeeps ==
    ASSUME ReadProgress, NEW r \in Readers, reader[r].pc = "get",
           NEW ans \in {"ok", "integrity", "notFound", "error"}, Give(r, ans),
           ans = "ok" => reader[r].todo = << >>, acked' = acked
    PROVE  ReadProgress'
<1> DEFINE c == [reader[r] EXCEPT !.pc = "return", !.ans = ans]
<1>1. Becomes(r, c)
  BY DEF Give, Becomes, ReadProgress
<1>2. reader[r] \in ReadRecord /\ Reads(reader[r])
  BY DEF ReadProgress
<1>3. /\ c \in ReadRecord /\ c.pc = "return" /\ c.ans = ans /\ c.todo = reader[r].todo
      /\ c.got = reader[r].got /\ c.want = reader[r].want /\ c.held = reader[r].held
      /\ c.all => reader[r].all
  BY <1>2 DEF ReadRecord
<1> HIDE DEF c
<1>4. Range(<< >>) = {}
  BY DEF Range
<1>5. Reads(c)
  BY <1>2, <1>3, <1>4 DEF Reads
<1> QED
  BY <1>1, <1>3, <1>5, BecomesKeeps

\* The first hash is dealt with: it was brought back, or it may be missing and
\* was not promised.
LEMMA NextKeeps ==
    ASSUME ReadProgress, NEW r \in Readers, reader[r].pc = "get", reader[r].todo # << >>,
           NEW got \in SUBSET Hashes, reader[r].got \subseteq got, got \subseteq reader[r].want,
           \/ Head(reader[r].todo) \in got
           \/ ~reader[r].all /\ Head(reader[r].todo) \notin reader[r].held,
           Becomes(r, [reader[r] EXCEPT !.todo = Tail(@), !.got = got]), acked' = acked
    PROVE  ReadProgress'
<1> DEFINE c == [reader[r] EXCEPT !.todo = Tail(@), !.got = got]
<1>1. reader[r] \in ReadRecord /\ Reads(reader[r]) /\ reader[r].held \subseteq acked
  BY DEF ReadProgress
<1>2. reader[r].todo \in Seq(Hashes)
  BY <1>1 DEF ReadRecord
<1>3. /\ Tail(reader[r].todo) \in Seq(Hashes)
      /\ Range(reader[r].todo) = {Head(reader[r].todo)} \cup Range(Tail(reader[r].todo))
  BY <1>2, TailRange
<1>4. /\ c \in ReadRecord /\ c.pc = "get" /\ c.todo = Tail(reader[r].todo)
      /\ c.got = got /\ c.want = reader[r].want /\ c.held = reader[r].held
      /\ c.all => reader[r].all
  BY <1>1, <1>3 DEF ReadRecord
<1>5. Becomes(r, c)
  OBVIOUS
<1> HIDE DEF c
<1>6. Reads(c)
  BY <1>1, <1>3, <1>4 DEF Reads
<1> QED
  BY <1>1, <1>4, <1>5, <1>6, BecomesKeeps

\* Rehydrate makes progress on its list and loses nothing that was promised.
LEMMA ReadStep ==
    FileShape /\ AckedIsStored /\ ReadProgress /\ [StoreNext]_s3Vars => ReadProgress'
<1> SUFFICES ASSUME FileShape, AckedIsStored, ReadProgress, [StoreNext]_s3Vars
             PROVE  ReadProgress'
  OBVIOUS
<1>0. StepKind
  BY Kinds
<1>1. ASSUME reader' = reader, acked \subseteq acked' PROVE ReadProgress'
  BY <1>1 DEF ReadProgress
<1>2. CASE UNCHANGED s3Vars
  BY <1>1, <1>2 DEF s3Vars, vars
<1>3. ASSUME NEW p \in Putters, FsPut(p) \/ S3Puts(p) PROVE ReadProgress'
  BY <1>1, <1>3, FsPutFrame, S3PutsFrame
<1>4. CASE Sweeping
  BY <1>1, <1>4, SweepFrame
<1>5. ASSUME NEW h \in Hashes, BitFlip(h) \/ S3LatePut(h) PROVE ReadProgress'
  BY <1>1, <1>5 DEF BitFlip, S3LatePut
<1>6. CASE PowerLoss
  <2>1. reader' = [r \in Readers |-> NoRead]
    BY <1>6 DEF PowerLoss
  <2> QED
    BY <2>1, NotReading DEF ReadProgress
<1>7. ASSUME NEW r \in Readers, Reading(r) PROVE ReadProgress'
  <2>1. acked' = acked
    BY <1>7, ReadFrame
  <2>2. CASE StartRehydrate(r)
    <3>1. PICK m \in Manifests, all \in BOOLEAN :
            reader' = [reader EXCEPT ![r] = [NoRead EXCEPT
                        !.pc = "get", !.todo = m, !.all = all, !.want = Range(m),
                        !.held = acked \cap Range(m)]]
      BY <2>2 DEF StartRehydrate
    <3> DEFINE c == [NoRead EXCEPT !.pc = "get", !.todo = m, !.all = all,
                        !.want = Range(m), !.held = acked \cap Range(m)]
    <3>2. m \in Seq(Hashes) /\ Range(m) \in SUBSET Hashes
      BY ManifestsAssumption DEF Range
    <3>3. NoRead \in ReadRecord /\ NoRead.got = {}
      BY NotReading DEF NoRead
    <3>4. /\ c \in ReadRecord /\ c.pc = "get" /\ c.todo = m /\ c.got = {}
          /\ c.want = Range(m) /\ c.held = acked \cap Range(m)
      BY <3>2, <3>3 DEF ReadRecord
    <3>5. Becomes(r, c)
      BY <3>1 DEF Becomes
    <3> HIDE DEF c
    <3>6. Reads(c) /\ c.held \subseteq acked
      BY <3>4 DEF Reads
    <3> QED
      BY <2>1, <3>4, <3>5, <3>6, BecomesKeeps
  <2>3. CASE Get(r)
    <3> DEFINE c == reader[r]
               h == Head(c.todo)
    <3>1. c \in ReadRecord /\ c.pc = "get" /\ Reads(c) /\ c.held \subseteq acked
      BY <2>3 DEF ReadProgress, Get
    <3>2. CASE c.todo = << >>
      <4>1. Give(r, "ok")
        BY <2>3, <3>2 DEF Get
      <4> QED
        BY <2>1, <3>1, <3>2, <4>1, GiveKeeps
    <3>3. ASSUME c.todo # << >>, Give(r, "integrity") \/ Give(r, "notFound")
          PROVE  ReadProgress'
      BY <2>1, <3>1, <3>3, GiveKeeps
    <3>4. ASSUME c.todo # << >> PROVE h \in Hashes /\ h \in c.want
      <4>1. c.todo \in Seq(Hashes)
        BY <3>1 DEF ReadRecord
      <4> QED
        BY <3>1, <3>4, <4>1, TailRange DEF Reads
    <3>5. ASSUME c.todo # << >>, Skip(r), h \in c.got \/ (~c.all /\ ~Present(h))
          PROVE  ReadProgress'
      <4>1. h \in c.got \/ (~c.all /\ h \notin c.held)
        BY <3>1, <3>4, <3>5 DEF AckedIsStored, Intact
      <4>2. [c EXCEPT !.todo = Tail(@)] = [c EXCEPT !.todo = Tail(@), !.got = c.got]
        BY <3>1 DEF ReadRecord
      <4>3. Becomes(r, [c EXCEPT !.todo = Tail(@), !.got = c.got])
        BY <3>5, <4>2 DEF Skip, Becomes, ReadProgress
      <4>4. c.got \in SUBSET Hashes /\ c.got \subseteq c.want
        BY <3>1 DEF ReadRecord, Reads
      <4> QED
        BY <2>1, <3>1, <3>5, <4>1, <4>3, <4>4, NextKeeps
    <3>6. ASSUME c.todo # << >>,
                 reader' = [reader EXCEPT ![r].todo = Tail(@), ![r].got = @ \cup {h}]
          PROVE  ReadProgress'
      <4>1. Becomes(r, [c EXCEPT !.todo = Tail(@), !.got = c.got \cup {h}])
        BY <3>6 DEF Becomes, ReadProgress
      <4>2. c.got \cup {h} \in SUBSET Hashes /\ c.got \cup {h} \subseteq c.want
        BY <3>1, <3>4, <3>6 DEF ReadRecord, Reads
      <4> QED
        BY <2>1, <3>1, <3>6, <4>1, <4>2, NextKeeps
    <3> QED
      BY <2>3, <3>2, <3>3, <3>5, <3>6 DEF Get
  <2>4. CASE GetFails(r)
    BY <2>1, <2>4, GiveKeeps DEF GetFails
  <2>5. CASE S3GetDamaged(r)
    BY <2>1, <2>5, GiveKeeps DEF S3GetDamaged
  <2>6. CASE EndRehydrate(r)
    <3>1. Becomes(r, NoRead)
      BY <2>6 DEF EndRehydrate, Becomes
    <3> QED
      BY <2>1, <3>1, NotReading, BecomesKeeps
  <2> QED
    BY <1>7, <2>2, <2>3, <2>4, <2>5, <2>6 DEF Reading
<1> QED
  BY <1>0, <1>2, <1>3, <1>4, <1>5, <1>6, <1>7 DEF StepKind

----------------------------------------------------------------------------
\* The store before anybody uses it.
LEMMA InitIInv == StoreInit => IInv
<1> SUFFICES ASSUME StoreInit PROVE IInv
  OBVIOUS
<1> USE DEF StoreInit, Init
<1>1. PutShape
  <2>1. NoPut \in PutRecord /\ NoPut.pc = "idle" /\ NoPut.tmp = None
    BY DEF NoPut, PutRecord, ReadAttempts
  <2> QED
    BY <2>1 DEF PutShape, At, Hash, Temp, Writing, OnS3
<1>2. Complete \in File /\ Complete.data = "full" /\ Complete.synced
  BY DEF Complete, File
<1>3. FileShape
  BY <1>2, CasFaultsAssumption DEF FileShape
<1>4. FilesWhole
  BY <1>2 DEF FilesWhole, Present, Intact
<1>5. AckedIsStored /\ TempsHaveOwners
  BY DEF AckedIsStored, TempsHaveOwners
<1>6. ReadProgress
  BY NotReading DEF ReadProgress
<1> QED
  BY <1>1, <1>3, <1>4, <1>5, <1>6 DEF IInv

\* The inductive invariant holds for ever.
THEOREM StoreInvariant == StoreSpec => []IInv
<1>1. IInv /\ [StoreNext]_s3Vars => IInv'
  BY PutStep, FileStep, WholeStep, AckedStep, OwnerStep, ReadStep DEF IInv
<1> QED
  BY InitIInv, <1>1, PTL DEF StoreSpec

\* A Put has a temporary file of its own exactly while it writes one, and the
\* files, calls and counters have their types, on either store.
THEOREM TypeCorrect == StoreSpec => []TypeOK
<1>1. IInv => TypeOK
  <2> SUFFICES ASSUME IInv PROVE TypeOK
    OBVIOUS
  <2>1. ASSUME NEW p \in Putters
        PROVE  /\ put[p].pc \in {"idle", "stat", "create", "return"} \cup Writing \cup OnS3
               /\ put[p].tries \in 0..(ReadAttempts - 1)
    BY DEF IInv, PutShape, PutRecord
  <2>2. ASSUME NEW r \in Readers
        PROVE  reader[r].got \subseteq Hashes /\ reader[r].todo \in Seq(Hashes)
    BY DEF IInv, ReadProgress, ReadRecord
  <2> QED
    BY <2>1, <2>2 DEF IInv, PutShape, FileShape, TypeOK
<1> QED
  BY <1>1, StoreInvariant, PTL

\* cas.py's promise: whatever races, crashes, sweeps or power losses happen, a
\* file at an object's path holds the object's bytes unless it was damaged from
\* outside.
THEOREM ObjectsNeverTorn == StoreSpec => []OnlyMissOrFlip
<1>1. IInv => OnlyMissOrFlip
  BY DEF IInv, FilesWhole, OnlyMissOrFlip
<1> QED
  BY <1>1, StoreInvariant, PTL

\* A hash that a Put returned can be read until the machine loses power.
THEOREM AckedStaysStored == StoreSpec => []AckedIsStored
  BY StoreInvariant, PTL DEF IInv

\* cas.go, Put: every way out of it removes its temporary file or has got an
\* error, which it ignores, from os.Remove.  So a file without a writer was left
\* by a failed removal or by a writer that died.
THEOREM NoForgottenTemps == StoreSpec => []TempsHaveOwners
  BY StoreInvariant, PTL DEF IInv

\* A Rehydrate that succeeds has everything its package names if all is
\* required, and otherwise what had been stored when it began.
THEOREM RehydrateComplete == StoreSpec => []RehydratedIsComplete
<1>1. IInv => RehydratedIsComplete
  BY DEF IInv, ReadProgress, Reads, RehydratedIsComplete
<1> QED
  BY <1>1, StoreInvariant, PTL

=============================================================================
