--------------------------- MODULE CasFileSystem ---------------------------
(***************************************************************************)
(* trajir/cas on a directory: Put (stat, temporary file, fsync, rename,    *)
(* read back), SweepStaleTempFiles and Rehydrate, by any number of         *)
(* processes on one root.  The bytes with hash h are the contents "full"   *)
(* of object h; anything else a file may hold is "junk", so that hashing a *)
(* file and comparing is asking whether it is full.                        *)
(*                                                                         *)
(* A process may die between any two system calls.  At a power loss every  *)
(* process dies, a file that was not fsynced may be junk afterwards, and   *)
(* any directory entry may be gone (the code never fsyncs a directory).    *)
(*                                                                         *)
(* "Variant" definitions are the following one with a mistake in it.       *)
(***************************************************************************)
EXTENDS Naturals, Sequences, FiniteSets

CONSTANTS
    Hashes,     \* content hashes
    Written,    \* those Put is called with; the others are stored already
    Putters,    \* processes that call Put
    Readers,    \* processes that call Rehydrate
    Manifests,  \* lists of hashes a package may name
    TempNames,  \* names os.CreateTemp may choose
    MaxFaults,  \* bound on crashes, failed calls, bit flips and power losses
    None

ASSUME WrittenAssumption   == Written \subseteq Hashes
ASSUME ManifestsAssumption == Manifests \subseteq Seq(Hashes)
ASSUME CasFaultsAssumption == MaxFaults \in Nat
ASSUME NoTempAssumption    == None \notin TempNames

ReadAttempts == 5   \* read-backs after a failed rename

VARIABLES
    obj,      \* hash -> file at cas/<2hex>/<hash>, or None
    tmp,      \* temporary files: name -> file
    put,      \* putter -> its Put call
    sweep,    \* temporary file the sweeper has found stale, or None
    reader,   \* reader -> its Rehydrate call
    acked,    \* history: hashes some Put has returned, since the last power loss
    flipped,  \* history: objects damaged from outside
    orphans,  \* history: temporary files whose writer died or could not remove them
    faults

vars == <<obj, tmp, put, sweep, reader, acked, flipped, orphans, faults>>

\* A file: its contents, whether they are on the disk, and whether its
\* modification time is more than maxAge ago.
File == [data : {"full", "junk"}, synced : BOOLEAN, old : BOOLEAN]

ASSUME NoFileAssumption == \A f \in File : f # None

Complete == [data |-> "full", synced |-> TRUE, old |-> FALSE]

NoPut  == [pc |-> "idle", hash |-> None, tmp |-> None, tries |-> 0, ans |-> None]
NoRead == [pc |-> "idle", todo |-> << >>, all |-> FALSE, got |-> {}, want |-> {},
           held |-> {}, ans |-> None]

Init ==
    /\ obj = [h \in Hashes |-> IF h \in Written THEN None ELSE Complete]
    /\ tmp = [n \in {} |-> None]
    /\ put = [p \in Putters |-> NoPut]
    /\ sweep = None
    /\ reader = [r \in Readers |-> NoRead]
    /\ acked = {}
    /\ flipped = {}
    /\ orphans = {}
    /\ faults = 0

Without(f, n) == [k \in DOMAIN f \ {n} |-> f[k]]
With(f, n, v) == [k \in DOMAIN f \cup {n} |-> IF k = n THEN v ELSE f[k]]

Present(h) == obj[h] # None
Intact(h)  == Present(h) /\ obj[h].data = "full"

Fault == faults < MaxFaults /\ faults' = faults + 1

----------------------------------------------------------------------------
(* FileSystem.Put                                                          *)

At(p, label)   == put[p].pc = label
Goto(p, label) == put' = [put EXCEPT ![p].pc = label]
Hash(p)        == put[p].hash
Temp(p)        == put[p].tmp

\* Put returns; unless the rename was done the deferred function removes the
\* temporary file, and ignores an error of os.Remove.
Return(p, ans) ==
    /\ put' = [put EXCEPT ![p].pc = "return", ![p].ans = ans, ![p].tmp = None]
    /\ acked' = IF ans = "ok" THEN acked \cup {Hash(p)} ELSE acked
RemoveTemp(p) ==
    \/ tmp' = Without(tmp, Temp(p)) /\ UNCHANGED orphans
    \/ /\ Temp(p) \in DOMAIN tmp
       /\ orphans' = orphans \cup {Temp(p)}
       /\ UNCHANGED tmp
Finish(p, ans) == Return(p, ans) /\ RemoveTemp(p)

StartPut(p) ==
    /\ At(p, "idle")
    /\ \E h \in Written : put' = [put EXCEPT ![p] = [NoPut EXCEPT !.pc = "stat", !.hash = h]]
    /\ UNCHANGED <<obj, tmp, sweep, reader, acked, flipped, orphans, faults>>

\* An object that exists is read and compared; it is never written again.
Stat(p) ==
    /\ At(p, "stat")
    /\ IF Present(Hash(p))
       THEN Return(p, IF Intact(Hash(p)) THEN "ok" ELSE "integrity")
       ELSE Goto(p, "create") /\ UNCHANGED acked
    /\ UNCHANGED <<obj, tmp, sweep, reader, flipped, orphans, faults>>

CreateTemp(p) ==
    /\ At(p, "create")
    /\ \E n \in TempNames \ DOMAIN tmp :
          /\ \A q \in Putters : Temp(q) # n
          /\ sweep # n
          /\ tmp' = With(tmp, n, [data |-> "junk", synced |-> FALSE, old |-> FALSE])
          /\ put' = [put EXCEPT ![p].pc = "write", ![p].tmp = n]
          /\ orphans' = orphans \ {n}
    /\ UNCHANGED <<obj, sweep, reader, acked, flipped, faults>>

\* Writing goes to the open file, whether or not its name is still there.
WriteTo(p, file) ==
    tmp' = IF Temp(p) \in DOMAIN tmp THEN [tmp EXCEPT ![Temp(p)] = file] ELSE tmp

Write(p) ==
    /\ At(p, "write")
    /\ WriteTo(p, [data |-> "full", synced |-> FALSE, old |-> FALSE])
    /\ Goto(p, "sync")
    /\ UNCHANGED <<obj, sweep, reader, acked, flipped, orphans, faults>>

\* Variant: no fsync before the rename.
SyncNever(p) ==
    /\ At(p, "sync")
    /\ Goto(p, "rename")
    /\ UNCHANGED <<obj, tmp, sweep, reader, acked, flipped, orphans, faults>>

Sync(p) ==
    /\ At(p, "sync")
    /\ IF Temp(p) \in DOMAIN tmp
       THEN tmp' = [tmp EXCEPT ![Temp(p)].synced = TRUE] ELSE UNCHANGED tmp
    /\ Goto(p, "rename")
    /\ UNCHANGED <<obj, sweep, reader, acked, flipped, orphans, faults>>

\* Reading the existing object, CreateTemp, Write, Sync or Close fails.
PutFails(p) ==
    /\ put[p].pc \in {"stat", "create", "write", "sync"}
    /\ Fault
    /\ Finish(p, "error")
    /\ UNCHANGED <<obj, sweep, reader, flipped>>

\* The rename replaces whatever is there, or fails because a sweep has removed
\* the temporary file.
Rename(p) ==
    /\ At(p, "rename")
    /\ IF Temp(p) \in DOMAIN tmp
       THEN /\ obj' = [obj EXCEPT ![Hash(p)] = tmp[Temp(p)]]
            /\ tmp' = Without(tmp, Temp(p))
            /\ Return(p, "ok")
       ELSE Goto(p, "readBack") /\ UNCHANGED <<obj, tmp, acked>>
    /\ UNCHANGED <<sweep, reader, flipped, orphans, faults>>

\* Windows: the destination exists and is open elsewhere.
RenameFails(p) ==
    /\ At(p, "rename")
    /\ Fault
    /\ Goto(p, "readBack")
    /\ UNCHANGED <<obj, tmp, sweep, reader, acked, flipped, orphans>>

\* Variant: the successful read-back leaves the temporary file behind.
ReadBackKeepsTemp(p) ==
    /\ At(p, "readBack")
    /\ Return(p, IF Intact(Hash(p)) THEN "ok"
                 ELSE IF Present(Hash(p)) THEN "integrity" ELSE "error")
    /\ UNCHANGED <<obj, tmp, sweep, reader, flipped, orphans, faults>>

\* Another Put of the same bytes may have won: its object counts if it is
\* intact.
ReadBack(p) ==
    /\ At(p, "readBack")
    /\ Finish(p, IF Intact(Hash(p)) THEN "ok"
                 ELSE IF Present(Hash(p)) THEN "integrity" ELSE "error")
    /\ UNCHANGED <<obj, sweep, reader, flipped, faults>>

\* Variant: one attempt too many.
ReadBackBusyTooLong(p) ==
    /\ At(p, "readBack")
    /\ Present(Hash(p))
    /\ IF put[p].tries < ReadAttempts
       THEN put' = [put EXCEPT ![p].tries = @ + 1] /\ UNCHANGED <<tmp, acked, orphans>>
       ELSE Finish(p, "error")
    /\ UNCHANGED <<obj, sweep, reader, flipped, faults>>

\* A sharing violation: again, five times at most.
ReadBackBusy(p) ==
    /\ At(p, "readBack")
    /\ Present(Hash(p))
    /\ IF put[p].tries + 1 < ReadAttempts
       THEN put' = [put EXCEPT ![p].tries = @ + 1] /\ UNCHANGED <<tmp, acked, orphans>>
       ELSE Finish(p, "error")
    /\ UNCHANGED <<obj, sweep, reader, flipped, faults>>

EndPut(p) ==
    /\ At(p, "return")
    /\ put' = [put EXCEPT ![p] = NoPut]
    /\ UNCHANGED <<obj, tmp, sweep, reader, acked, flipped, orphans, faults>>

\* The process dies; its temporary file stays.
Crash(p) ==
    /\ ~At(p, "idle")
    /\ Fault
    /\ put' = [put EXCEPT ![p] = NoPut]
    /\ orphans' = orphans \cup ({Temp(p)} \cap DOMAIN tmp)
    /\ UNCHANGED <<obj, tmp, sweep, reader, acked, flipped>>

----------------------------------------------------------------------------
(* SweepStaleTempFiles, by a process of its own: the look at a file's age  *)
(* and its removal are two calls.                                          *)

\* Time passes: the writer of n is stalled, or dead.
Age(n) ==
    /\ n \in DOMAIN tmp
    /\ ~tmp[n].old
    /\ tmp' = [tmp EXCEPT ![n].old = TRUE]
    /\ UNCHANGED <<obj, put, sweep, reader, acked, flipped, orphans, faults>>

SweepFind(n) ==
    /\ sweep = None
    /\ n \in DOMAIN tmp /\ tmp[n].old
    /\ sweep' = n
    /\ UNCHANGED <<obj, tmp, put, reader, acked, flipped, orphans, faults>>

\* An error of os.Remove is ignored.
SweepRemove ==
    /\ sweep # None
    /\ tmp' \in {tmp, Without(tmp, sweep)}
    /\ sweep' = None
    /\ UNCHANGED <<obj, put, reader, acked, flipped, orphans, faults>>

----------------------------------------------------------------------------
(* Rehydrate: Get for every hash of a manifest.                            *)

Range(s) == {s[i] : i \in DOMAIN s}

StartRehydrate(r) ==
    /\ reader[r].pc = "idle"
    /\ \E m \in Manifests, all \in BOOLEAN :
          reader' = [reader EXCEPT ![r] = [NoRead EXCEPT
                        !.pc = "get", !.todo = m, !.all = all, !.want = Range(m),
                        !.held = acked \cap Range(m)]]
    /\ UNCHANGED <<obj, tmp, put, sweep, acked, flipped, orphans, faults>>

Skip(r)     == reader' = [reader EXCEPT ![r].todo = Tail(@)]
Give(r, ans) == reader' = [reader EXCEPT ![r].pc = "return", ![r].ans = ans]

\* Variant: a failed Get of any kind is skipped unless all are required.
GetLenient(r) ==
    /\ reader[r].pc = "get"
    /\ LET c == reader[r]  h == Head(c.todo)
       IN  IF c.todo = << >> THEN Give(r, "ok")
           ELSE IF h \in c.got THEN Skip(r)
           ELSE IF Intact(h)
                THEN reader' = [reader EXCEPT ![r].todo = Tail(@), ![r].got = @ \cup {h}]
           ELSE IF ~c.all THEN Skip(r) ELSE Give(r, "notFound")
    /\ UNCHANGED <<obj, tmp, put, sweep, acked, flipped, orphans, faults>>

\* A missing object may be skipped; a damaged one never.
Get(r) ==
    /\ reader[r].pc = "get"
    /\ LET c == reader[r]  h == Head(c.todo)
       IN  IF c.todo = << >> THEN Give(r, "ok")
           ELSE IF h \in c.got THEN Skip(r)
           ELSE IF Intact(h)
                THEN reader' = [reader EXCEPT ![r].todo = Tail(@), ![r].got = @ \cup {h}]
           ELSE IF Present(h) THEN Give(r, "integrity")
           ELSE IF c.all THEN Give(r, "notFound") ELSE Skip(r)
    /\ UNCHANGED <<obj, tmp, put, sweep, acked, flipped, orphans, faults>>

GetFails(r) ==
    /\ reader[r].pc = "get" /\ reader[r].todo # << >>
    /\ Fault
    /\ Give(r, "error")
    /\ UNCHANGED <<obj, tmp, put, sweep, acked, flipped, orphans>>

EndRehydrate(r) ==
    /\ reader[r].pc = "return"
    /\ reader' = [reader EXCEPT ![r] = NoRead]
    /\ UNCHANGED <<obj, tmp, put, sweep, acked, flipped, orphans, faults>>

----------------------------------------------------------------------------
(* The environment.                                                        *)

BitFlip(h) ==
    /\ Intact(h)
    /\ Fault
    /\ obj' = [obj EXCEPT ![h].data = "junk"]
    /\ flipped' = flipped \cup {h}
    /\ UNCHANGED <<tmp, put, sweep, reader, acked, orphans>>

\* What a file may hold after a power loss.
After(f) == IF f.synced THEN {f} ELSE {f, [f EXCEPT !.data = "junk"]}

PowerLoss ==
    /\ Fault
    /\ obj' \in [Hashes -> File \cup {None}]
    /\ \A h \in Hashes : obj'[h] = None \/ (Present(h) /\ obj'[h] \in After(obj[h]))
    /\ \E kept \in SUBSET DOMAIN tmp :
          /\ tmp' \in [kept -> File]
          /\ \A n \in kept : tmp'[n] \in After(tmp[n])
          /\ orphans' = kept
    /\ put' = [p \in Putters |-> NoPut]
    /\ reader' = [r \in Readers |-> NoRead]
    /\ sweep' = None
    /\ acked' = {}
    /\ UNCHANGED flipped

Next ==
    \/ \E p \in Putters :
          \/ StartPut(p) \/ Stat(p) \/ CreateTemp(p) \/ Write(p) \/ Sync(p)
          \/ PutFails(p) \/ Rename(p) \/ RenameFails(p) \/ ReadBack(p)
          \/ ReadBackBusy(p) \/ EndPut(p) \/ Crash(p)
    \/ \E n \in TempNames : Age(n) \/ SweepFind(n)
    \/ SweepRemove
    \/ \E r \in Readers : StartRehydrate(r) \/ Get(r) \/ GetFails(r) \/ EndRehydrate(r)
    \/ \E h \in Hashes : BitFlip(h)
    \/ PowerLoss

Spec == Init /\ [][Next]_vars

----------------------------------------------------------------------------
Writing == {"write", "sync", "rename", "readBack"}
OnS3    == {"head", "upload"}   \* where the Put of S3Store makes its calls

\* A Put has a temporary file exactly while it is writing, and no two have
\* the same.
TypeOK ==
    /\ obj \in [Hashes -> File \cup {None}]
    /\ DOMAIN tmp \subseteq TempNames /\ \A n \in DOMAIN tmp : tmp[n] \in File
    /\ \A p \in Putters :
          /\ put[p].pc \in {"idle", "stat", "create", "return"} \cup Writing \cup OnS3
          /\ ~At(p, "idle") => Hash(p) \in Hashes
          /\ IF put[p].pc \in Writing THEN Temp(p) \in TempNames ELSE Temp(p) = None
          /\ put[p].tries \in 0..(ReadAttempts - 1)
          /\ \A q \in Putters : Temp(p) = Temp(q) /\ Temp(p) # None => p = q
    /\ sweep \in TempNames \cup {None}
    /\ \A r \in Readers : reader[r].got \subseteq Hashes /\ reader[r].todo \in Seq(Hashes)
    /\ acked \subseteq Hashes /\ flipped \subseteq Hashes /\ orphans \subseteq TempNames
    /\ faults \in 0..MaxFaults

\* cas.py, "A given hash never changes once written; the only failure mode is a
\* miss or a bit flip": whatever crashes, races, sweeps or power losses happen,
\* a file at an object's path holds the object's bytes unless it was damaged
\* from outside.
OnlyMissOrFlip == \A h \in Hashes : Present(h) => Intact(h) \/ h \in flipped

\* A hash that some Put has returned can be read, until the machine loses
\* power: neither a sweep, nor another Put, nor a crash takes it away.
AckedIsStored == \A h \in acked : Intact(h) \/ (Present(h) /\ h \in flipped)

\* cas.go, "orphaned Put temp files": every way out of Put tries to remove its
\* file.  One without a writer was left by a writer that died, or that got an
\* error from os.Remove, which it ignores: SweepStaleTempFiles is for these.
TempsHaveOwners ==
    \A n \in DOMAIN tmp : n \in orphans \/ \E p \in Putters : Temp(p) = n

\* Rehydrate: a package that comes back complete has every object it names when
\* all were required, and otherwise at least those that had been stored when it
\* began.
RehydratedIsComplete ==
    \A r \in Readers : reader[r].pc = "return" /\ reader[r].ans = "ok" =>
       /\ reader[r].got \subseteq reader[r].want
       /\ reader[r].held \subseteq reader[r].got
       /\ reader[r].all => reader[r].got = reader[r].want

=============================================================================
