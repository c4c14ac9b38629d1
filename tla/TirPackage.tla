----------------------------- MODULE TirPackage -----------------------------
(***************************************************************************)
(* trajir/tir: Export and Sign write one package file, Load and Import     *)
(* read it.  One process writes the path; any number read it meanwhile and *)
(* import it into one destination log, where the trajectory may also be    *)
(* continued locally.                                                      *)
(*                                                                         *)
(* A trajectory is its nodes 1, 2, ... in the (step, seq) order in which   *)
(* ListNodes returns them and one worker writes them.  A package is a      *)
(* prefix of it: how many nodes, how many of them have a seal, and for how *)
(* many nodes its SIGNATURE was made (0 without one).  An archive without  *)
(* a central directory is not "whole" and cannot be opened.                *)
(*                                                                         *)
(* Processes may die between any two system calls.  At a power loss all    *)
(* die, and a file that was not fsynced may lose its contents; a completed *)
(* rename is kept.                                                         *)
(*                                                                         *)
(* "Variant" definitions are the following one with a mistake in it.       *)
(***************************************************************************)
EXTENDS Naturals, FiniteSets, SlotStore

CONSTANTS
    Readers,    \* processes that call Load or Import
    MaxNodes,   \* bound on the length of a trajectory
    MaxFaults,  \* bound on crashes, failed calls and power losses
    None

ASSUME NodesAssumption  == MaxNodes \in Nat
ASSUME FaultsAssumption == MaxFaults \in Nat

VARIABLES
    src,       \* nodes in the exporting log
    dlog,      \* importing log: node -> "pkg", or "local" if written there
    dest,      \* archive at the package's path, or None
    bak,       \* archive at <path>.trajir-replace-bak, or None
    writer,    \* the Export or Sign call in progress
    reader,    \* reader -> its Load or Import call
    promised,  \* history: what the last successful Export or Sign left at dest
    imported,  \* history: nodes of the longest package an Import accepted
    faults

fileVars == <<dest, bak>>
readVars == <<dlog, reader, imported>>
vars     == <<src, fileVars, writer, readVars, promised, faults>>

Archive == [whole : BOOLEAN, nodes : 0..MaxNodes, seals : 0..MaxNodes,
            sig : 0..MaxNodes, synced : BOOLEAN]
Torn == [whole |-> FALSE, nodes |-> 0, seals |-> 0, sig |-> 0, synced |-> FALSE]
Zip(n, sig) ==
    [whole |-> TRUE, nodes |-> n, seals |-> n, sig |-> sig, synced |-> FALSE]

Promise == [nodes : 1..MaxNodes, signed : BOOLEAN]

ASSUME NoFileAssumption == None \notin Archive \cup Promise

NotWriting == [pc |-> "idle", nodes |-> 0, sign |-> FALSE, tmp |-> None]
NotReading == [pc |-> "idle", import |-> FALSE, name |-> "none", pkg |-> Torn,
               sig |-> 0, next |-> 1]

Init ==
    /\ src = 0
    /\ dlog = [k \in {} |-> None]
    /\ dest = None
    /\ bak = None
    /\ writer = NotWriting
    /\ reader = [r \in Readers |-> NotReading]
    /\ promised = None
    /\ imported = 0
    /\ faults = 0

Fault == faults < MaxFaults /\ faults' = faults + 1

\* An open archive keeps its identity when its file is renamed or unlinked:
\* name is the one it has now, "none" when nobody can write to it any more.
Renamed(from, to) ==
    reader' = [r \in Readers |->
       IF reader[r].name = from THEN [reader[r] EXCEPT !.name = to] ELSE reader[r]]

SourceAppend ==
    /\ src < MaxNodes
    /\ src' = src + 1
    /\ UNCHANGED <<fileVars, writer, readVars, promised, faults>>

\* A run continues the trajectory on the importing side.
LocalAppend ==
    /\ Cardinality(DOMAIN dlog) < MaxNodes
    /\ dlog' = Put(dlog, Cardinality(DOMAIN dlog) + 1, "local")
    /\ UNCHANGED <<src, fileVars, writer, reader, imported, promised, faults>>

----------------------------------------------------------------------------
(* Export                                                                  *)

At(label)   == writer.pc = label
Goto(label) == writer' = [writer EXCEPT !.pc = label]

\* The call returns; Sign's deferred function has removed the temporary file
\* unless it was renamed.
ReturnOk(n, signed) ==
    writer' = NotWriting /\ promised' = [nodes |-> n, signed |-> signed]
ReturnError == writer' = NotWriting /\ UNCHANGED promised

\* ListNodes, and everything Export computes before it touches the file.
StartExport ==
    /\ At("idle")
    /\ src > 0
    /\ \E sign \in BOOLEAN :
          writer' = [NotWriting EXCEPT !.pc = "create", !.nodes = src, !.sign = sign]
    /\ UNCHANGED <<src, fileVars, readVars, promised, faults>>

\* os.Create: a package that is there is truncated in place.
CreateFile ==
    /\ At("create")
    /\ dest' = Torn
    /\ Goto("write")
    /\ promised' = None
    /\ UNCHANGED <<src, bak, readVars, faults>>

\* The members, the central directory and Close; no fsync.
WriteZip ==
    /\ At("write")
    /\ dest' = Zip(writer.nodes, 0)
    /\ IF writer.sign THEN Goto("read") /\ UNCHANGED promised
                      ELSE ReturnOk(writer.nodes, FALSE)
    /\ UNCHANGED <<src, bak, readVars, faults>>

\* A failed write leaves what was written; a failed Close, all of it.
ExportFails ==
    /\ writer.pc \in {"create", "write"}
    /\ Fault
    /\ \/ UNCHANGED dest
       \/ At("write") /\ dest' = Zip(writer.nodes, 0)
    /\ ReturnError
    /\ UNCHANGED <<src, bak, readVars>>

----------------------------------------------------------------------------
(* Sign, called by Export or by itself                                     *)

StartSign ==
    /\ At("idle")
    /\ Goto("read")
    /\ UNCHANGED <<src, fileVars, readVars, promised, faults>>

ReadPackage ==
    /\ At("read")
    /\ IF dest # None /\ dest.whole
       THEN /\ writer' = [writer EXCEPT !.pc = "temp", !.nodes = dest.nodes]
            /\ UNCHANGED promised
       ELSE ReturnError
    /\ UNCHANGED <<src, fileVars, readVars, faults>>

\* The archive with its SIGNATURE, in a temporary file beside it.
WriteTemp ==
    /\ At("temp")
    /\ writer' = [writer EXCEPT !.pc = "sync",
                     !.tmp = [dest EXCEPT !.sig = writer.nodes, !.synced = FALSE]]
    /\ UNCHANGED <<src, fileVars, readVars, promised, faults>>

SyncTemp ==
    /\ At("sync")
    /\ writer' = [writer EXCEPT !.pc = "rename", !.tmp.synced = TRUE]
    /\ UNCHANGED <<src, fileVars, readVars, promised, faults>>

\* replaceFile.
Replace ==
    /\ At("rename")
    /\ dest' = writer.tmp
    /\ Renamed("dest", "none")
    /\ ReturnOk(writer.nodes, TRUE)
    /\ UNCHANGED <<src, bak, dlog, imported, faults>>

ReplaceFails ==
    /\ At("rename")
    /\ Fault
    /\ Goto("removeBak")
    /\ UNCHANGED <<src, fileVars, readVars, promised>>

\* replaceFileViaBackup.
RemoveBackup ==
    /\ At("removeBak")
    /\ bak' = None
    /\ Renamed("bak", "none")
    /\ Goto("aside")
    /\ UNCHANGED <<src, dest, dlog, imported, promised, faults>>

\* Variant: the package is removed where it should be moved aside.
MoveAsideRemoves ==
    /\ At("aside")
    /\ dest' = None
    /\ Renamed("dest", "none")
    /\ Goto("install")
    /\ UNCHANGED <<src, bak, dlog, imported, promised, faults>>

MoveAside ==
    /\ At("aside")
    /\ bak' = dest
    /\ dest' = None
    /\ Renamed("dest", "bak")
    /\ Goto("install")
    /\ UNCHANGED <<src, dlog, imported, promised, faults>>

Install ==
    /\ At("install")
    /\ dest' = writer.tmp
    /\ writer' = [writer EXCEPT !.pc = "dropBak", !.tmp = None]
    /\ UNCHANGED <<src, bak, readVars, promised, faults>>

InstallFails ==
    /\ At("install")
    /\ Fault
    /\ Goto("restore")
    /\ UNCHANGED <<src, fileVars, readVars, promised>>

Restore ==
    /\ At("restore")
    /\ dest' = bak
    /\ bak' = None
    /\ Renamed("bak", "dest")
    /\ ReturnError
    /\ UNCHANGED <<src, dlog, imported, faults>>

DropBackup ==
    /\ At("dropBak")
    /\ bak' = None
    /\ Renamed("bak", "none")
    /\ ReturnOk(writer.nodes, TRUE)
    /\ UNCHANGED <<src, dest, dlog, imported, faults>>

\* Any other call of Sign fails; so may the renames of the fallback.
SignFails ==
    /\ writer.pc \in {"read", "temp", "sync", "aside", "restore"}
    /\ Fault
    /\ ReturnError
    /\ UNCHANGED <<src, fileVars, readVars>>

----------------------------------------------------------------------------
(* Load and Import                                                         *)

Reading(r, label) == reader[r].pc = label
SameBytes(a, b)   == [a EXCEPT !.synced = TRUE] = [b EXCEPT !.synced = TRUE]

\* zip.OpenReader reads the central directory; it holds every member's length
\* and checksum, so that a later read gives the member's bytes or an error.
Open(r) ==
    /\ Reading(r, "idle")
    /\ dest # None /\ dest.whole
    /\ \E import \in BOOLEAN :
          reader' = [reader EXCEPT ![r] =
             [NotReading EXCEPT !.pc = "read", !.import = import, !.name = "dest",
                                !.pkg = dest]]
    /\ UNCHANGED <<src, fileVars, writer, dlog, imported, promised, faults>>

\* Only Export writes into a file that others may have open.
Unreadable(r) == reader[r].name = "dest" /\ ~SameBytes(dest, reader[r].pkg)

\* verifyNodeRecord holds of every node Export wrote; a package has some.
NodesOk(pkg)  == pkg.nodes > 0
\* ... and a seal for every DECISION.
Verified(pkg) == NodesOk(pkg) /\ pkg.nodes <= pkg.seals

\* Variant: the archive is not closed.
LoadedKeepsOpen(r, sig) ==
    reader' = [reader EXCEPT ![r].sig = sig,
                  ![r].pc = IF reader[r].import THEN "append" ELSE "return"]

Loaded(r, sig) ==
    reader' = [reader EXCEPT ![r].sig = sig, ![r].name = "none",
                  ![r].pc = IF reader[r].import THEN "append" ELSE "return"]

ReadMembers(r) ==
    /\ Reading(r, "read")
    /\ ~Unreadable(r)
    /\ Verified(reader[r].pkg)
    /\ IF reader[r].pkg.sig = 0
       THEN Loaded(r, 0)
       ELSE reader' = [reader EXCEPT ![r].pc = "signature"]
    /\ UNCHANGED <<src, fileVars, writer, dlog, imported, promised, faults>>

\* Variant: the signature is verified on the file now at the path.
CheckSignatureAtPath(r) ==
    /\ Reading(r, "signature")
    /\ dest # None /\ dest.whole /\ dest.sig = dest.nodes
    /\ Loaded(r, dest.sig)
    /\ UNCHANGED <<src, fileVars, writer, dlog, imported, promised, faults>>

\* verifySignatureFromZipFiles: the members are read a second time, from the
\* archive that is open.
CheckSignature(r) ==
    /\ Reading(r, "signature")
    /\ ~Unreadable(r)
    /\ reader[r].pkg.sig = reader[r].pkg.nodes
    /\ Loaded(r, reader[r].pkg.sig)
    /\ UNCHANGED <<src, fileVars, writer, dlog, imported, promised, faults>>

\* An error return of Load: nothing has been written.
LoadFails(r) ==
    /\ \/ Reading(r, "read") /\ (Unreadable(r) \/ ~Verified(reader[r].pkg))
       \/ Reading(r, "signature")
             /\ (Unreadable(r) \/ reader[r].pkg.sig # reader[r].pkg.nodes)
    /\ reader' = [reader EXCEPT ![r] = NotReading]
    /\ UNCHANGED <<src, fileVars, writer, dlog, imported, promised, faults>>

\* Variant: an Append that fails is skipped.
ImportNodeLenient(r) ==
    /\ Reading(r, "append")
    /\ reader[r].next <= reader[r].pkg.nodes
    /\ dlog' = PutIfAbsent(dlog, reader[r].next, "pkg")
    /\ reader' = [reader EXCEPT ![r].next = @ + 1]
    /\ UNCHANGED <<src, fileVars, writer, imported, promised, faults>>

\* nodeLog.Append of the package's next node; ErrSlotConflict ends the Import.
ImportNode(r) ==
    /\ Reading(r, "append")
    /\ reader[r].next <= reader[r].pkg.nodes
    /\ IF SlotConflict(dlog, reader[r].next, "pkg")
       THEN reader' = [reader EXCEPT ![r] = NotReading] /\ UNCHANGED dlog
       ELSE /\ dlog' = PutIfAbsent(dlog, reader[r].next, "pkg")
            /\ reader' = [reader EXCEPT ![r].next = @ + 1]
    /\ UNCHANGED <<src, fileVars, writer, imported, promised, faults>>

ImportDone(r) ==
    /\ Reading(r, "append")
    /\ reader[r].next > reader[r].pkg.nodes
    /\ imported' = IF reader[r].pkg.nodes > imported THEN reader[r].pkg.nodes ELSE imported
    /\ reader' = [reader EXCEPT ![r].pc = "return"]
    /\ UNCHANGED <<src, fileVars, writer, dlog, promised, faults>>

EndRead(r) ==
    /\ Reading(r, "return")
    /\ reader' = [reader EXCEPT ![r] = NotReading]
    /\ UNCHANGED <<src, fileVars, writer, dlog, imported, promised, faults>>

----------------------------------------------------------------------------
WriterCrash ==
    /\ ~At("idle")
    /\ Fault
    /\ writer' = NotWriting
    /\ UNCHANGED <<src, fileVars, readVars, promised>>

\* The process dies, or an Append fails for a reason of the log's own.
ReaderStops(r) ==
    /\ ~Reading(r, "idle")
    /\ Fault
    /\ reader' = [reader EXCEPT ![r] = NotReading]
    /\ UNCHANGED <<src, fileVars, writer, dlog, imported, promised>>

\* What a path may hold after a power loss.
After(f) == IF f = None \/ f.synced THEN {f} ELSE {f, Torn}

PowerLoss ==
    /\ Fault
    /\ dest' \in After(dest) /\ bak' \in After(bak)
    /\ writer' = NotWriting
    /\ reader' = [r \in Readers |-> NotReading]
    /\ promised' = IF promised # None /\ promised.signed THEN promised ELSE None
    /\ UNCHANGED <<src, dlog, imported>>

Writes ==
    \/ StartExport \/ CreateFile \/ WriteZip \/ ExportFails
    \/ StartSign \/ ReadPackage \/ WriteTemp \/ SyncTemp \/ Replace \/ ReplaceFails
    \/ RemoveBackup \/ MoveAside \/ Install \/ InstallFails \/ Restore \/ DropBackup
    \/ SignFails \/ WriterCrash

Reads(r) ==
    \/ Open(r) \/ ReadMembers(r) \/ CheckSignature(r) \/ LoadFails(r)
    \/ ImportNode(r) \/ ImportDone(r) \/ EndRead(r) \/ ReaderStops(r)

Next == SourceAppend \/ LocalAppend \/ Writes \/ (\E r \in Readers : Reads(r)) \/ PowerLoss

Spec == Init /\ [][Next]_vars

----------------------------------------------------------------------------
\* A call in progress holds what its program point has computed, and a reader
\* has the archive open until it has read it.
TypeOK ==
    /\ src \in 0..MaxNodes /\ imported \in 0..MaxNodes /\ faults \in 0..MaxFaults
    /\ DOMAIN dlog \subseteq 1..MaxNodes /\ \A k \in DOMAIN dlog : dlog[k] \in {"pkg", "local"}
    /\ {dest, bak, writer.tmp} \subseteq Archive \cup {None}
    /\ writer.nodes \in 0..src
    /\ writer.pc \in {"write", "temp", "sync", "rename", "removeBak", "aside"} => dest # None
    /\ writer.tmp # None <=> writer.pc \in {"sync", "rename", "removeBak", "aside",
                                            "install", "restore"}
    /\ promised \in {None} \cup Promise
    /\ \A r \in Readers :
          /\ reader[r].pkg \in Archive
          /\ reader[r].next \in 1..(reader[r].pkg.nodes + 1)
          /\ reader[r].name \in {"dest", "bak"} => reader[r].pc \in {"read", "signature"}

\* tir.go, "never re-open path": a package that Load returns is what one Export
\* wrote, all its DECISIONs sealed, and its SignatureInfo is there exactly if
\* the loaded archive was signed and covers the nodes loaded, although the file
\* may be rewritten in place or replaced while it is read.
LoadedIsOnePackage ==
    \A r \in Readers : reader[r].pc \in {"append", "return"} =>
       LET pkg == reader[r].pkg IN
       /\ pkg.nodes \in 1..src /\ pkg.seals = pkg.nodes
       /\ reader[r].sig = IF pkg.sig = 0 THEN 0 ELSE pkg.nodes

\* signature.go, "installs src at dest without deleting dest until src is in
\* place" and "a crash after replaceFile cannot leave a truncated package that
\* reported success": what a successful Export or Sign left is at the path or
\* its backup until the next Export, whatever later Signs fail or crash, and
\* when it was signed also after a power loss.
PackageNotLost ==
    promised # None =>
       \E f \in {dest, bak} \ {None} :
          /\ f.whole
          /\ f.nodes = promised.nodes /\ f.seals = promised.nodes
          /\ promised.signed => f.sig = promised.nodes

\* tir.go Import: the nodes of a package that was imported without an error are
\* the log's nodes in their slots, for good, and however many Imports stop
\* half-way the log has no hole: a reader of it never finds a COMMIT_STEP or a
\* TOOL_RESULT without the nodes before it; also when two Imports of different
\* exports and a local run append at once.
ImportedIsWhole ==
    /\ \A k \in 1..imported : k \in DOMAIN dlog /\ dlog[k] = "pkg"
    /\ DOMAIN dlog = 1..Cardinality(DOMAIN dlog)

=============================================================================
