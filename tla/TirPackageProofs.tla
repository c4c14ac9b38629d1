-------------------------- MODULE TirPackageProofs --------------------------
(***************************************************************************)
(* For any number of readers, nodes and faults: what a successful Export   *)
(* or Sign left is not lost, what Load returns is one package, and an      *)
(* Import leaves no hole in the log.                                       *)
(***************************************************************************)
EXTENDS TirPackage, FiniteSetTheorems, TLAPS

WriterPCs == {"idle", "create", "write", "read", "temp", "sync", "rename", "removeBak",
              "aside", "install", "restore", "dropBak"}
WithTemp  == {"sync", "rename", "removeBak", "aside", "install", "restore"}
WithDest  == {"write", "temp", "sync", "rename", "removeBak", "aside", "dropBak"}

WriterRecord == [pc : WriterPCs, nodes : 0..MaxNodes, sign : BOOLEAN,
                 tmp : Archive \cup {None}]
ReaderRecord == [pc : {"idle", "read", "signature", "append", "return"}, import : BOOLEAN,
                 name : {"none", "dest", "bak"}, pkg : Archive, sig : 0..MaxNodes,
                 next : 1..(MaxNodes + 1)]

\* An archive is what one Export wrote, and perhaps one Sign rewrote.
Made(f) ==
    /\ f.nodes <= src /\ f.seals = f.nodes /\ f.sig \in {0, f.nodes}
    /\ f.whole => f.nodes > 0

\* A file at the path or its backup; a signed one went there after its fsync.
Placed(f) == f = None \/ (f \in Archive /\ Made(f) /\ (f.sig # 0 => f.synced))

\* The archive with the SIGNATURE of the package that Sign has read.
Signed(f) == f.whole /\ f.nodes = writer.nodes /\ f.seals = f.nodes /\ f.sig = f.nodes

FileTypes ==
    /\ src \in 0..MaxNodes /\ faults \in 0..MaxFaults
    /\ Placed(dest) /\ Placed(bak)
    /\ writer \in WriterRecord /\ promised \in Promise \cup {None}

\* What Export and Sign know at each of their steps.
WriterProgress ==
    /\ writer.nodes <= src
    /\ writer.pc \in {"create", "write"} => writer.nodes > 0
    /\ writer.pc = "write" => promised = None
    /\ writer.pc \in WithDest => dest # None
    /\ writer.pc \in {"install", "restore"} => dest = None
    /\ writer.tmp # None <=> writer.pc \in WithTemp
    /\ writer.pc = "temp" => dest.whole /\ dest.nodes = writer.nodes
    /\ writer.tmp # None => Signed(writer.tmp) /\ writer.nodes > 0
    /\ writer.pc \in WithTemp \ {"sync"} => writer.tmp.synced
    /\ writer.pc = "dropBak" => Signed(dest) /\ writer.nodes > 0

\* The archive is the package that was promised.
Holds(f) ==
    /\ f # None /\ f.whole
    /\ f.nodes = promised.nodes /\ f.seals = promised.nodes
    /\ promised.signed => f.sig = promised.nodes

\* The promised package is at the path, or at the backup when nothing is at the
\* path; and what Sign is about to install is that package too.
PackageSafe ==
    promised # None =>
       /\ Holds(IF dest # None THEN dest ELSE bak)
       /\ writer.tmp # None => Holds(writer.tmp)

\* What Load and Import know at each of their steps.
ReaderProgress ==
    /\ reader \in [Readers -> ReaderRecord]
    /\ \A r \in Readers :
          /\ Made(reader[r].pkg)
          /\ reader[r].next <= reader[r].pkg.nodes + 1
          /\ reader[r].pc \in {"idle", "read", "signature"} => reader[r].next = 1
          /\ reader[r].name \in {"dest", "bak"} => reader[r].pc \in {"read", "signature"}
          /\ reader[r].pc \in {"signature", "append", "return"} => reader[r].pkg.nodes > 0
          /\ reader[r].pc \in {"append", "return"} =>
                reader[r].sig = IF reader[r].pkg.sig = 0 THEN 0 ELSE reader[r].pkg.nodes

FromPackage(k) == k \in DOMAIN dlog /\ dlog[k] = "pkg"

\* The log has no hole, and every Import that goes on has its nodes so far in it.
LogProgress ==
    /\ imported \in 0..MaxNodes
    /\ \E n \in 0..MaxNodes : DOMAIN dlog = 1..n
    /\ \A k \in DOMAIN dlog : dlog[k] \in {"pkg", "local"}
    /\ \A k \in 1..imported : FromPackage(k)
    /\ \A r \in Readers : reader[r].pc = "append" =>
          \A k \in 1..(reader[r].next - 1) : FromPackage(k)

IInv == FileTypes /\ WriterProgress /\ PackageSafe /\ ReaderProgress /\ LogProgress

----------------------------------------------------------------------------
(* The writer: Export and Sign.                                            *)

\* The records the writer's calls start from, and the archives they make.
LEMMA Records ==
    /\ NotWriting \in WriterRecord /\ Torn \in Archive
    /\ NotReading \in ReaderRecord /\ None \notin Archive /\ None \notin Promise
  BY NodesAssumption, NoFileAssumption
  DEF NotWriting, WriterRecord, WriterPCs, Torn, Archive, NotReading, ReaderRecord

\* What the writer works on, unchanged by readers and by the importing log.
LEMMA ReadFrame ==
    ASSUME LocalAppend \/ (\E r \in Readers : Reads(r)) \/ UNCHANGED vars
    PROVE  UNCHANGED <<src, dest, bak, writer, promised>> /\ (faults' = faults \/ Fault)
  BY DEF LocalAppend, Reads, Open, ReadMembers, CheckSignature, LoadFails, ImportNode,
     ImportDone, EndRead, ReaderStops, vars, fileVars

\* The bound on faults holds after one more.
LEMMA FaultBound == ASSUME faults \in 0..MaxFaults, Fault PROVE faults' \in 0..MaxFaults
  BY FaultsAssumption DEF Fault

\* What Export writes.
LEMMA ZipFields ==
    ASSUME NEW n \in 0..MaxNodes
    PROVE  /\ Zip(n, 0) \in Archive /\ Zip(n, 0).whole
           /\ Zip(n, 0).nodes = n /\ Zip(n, 0).seals = n /\ Zip(n, 0).sig = 0
  BY NodesAssumption DEF Zip, Archive

\* What Sign writes beside it.
SignedCopy(f, n) == [f EXCEPT !.sig = n, !.synced = FALSE]

\* It is the same package with a SIGNATURE.
LEMMA CopyFields ==
    ASSUME NEW f \in Archive, NEW n \in 0..MaxNodes
    PROVE  /\ SignedCopy(f, n) \in Archive /\ (f.whole => SignedCopy(f, n).whole)
           /\ SignedCopy(f, n).nodes = f.nodes /\ SignedCopy(f, n).seals = f.seals
           /\ SignedCopy(f, n).sig = n
  BY DEF Archive, SignedCopy

\* ... and what its fsync makes of it.
LEMMA SyncedFields ==
    ASSUME NEW f \in Archive, f.whole, NEW g, g = [f EXCEPT !.synced = TRUE]
    PROVE  /\ g \in Archive /\ g.whole /\ g.synced
           /\ g.nodes = f.nodes /\ g.seals = f.seals /\ g.sig = f.sig
  BY DEF Archive

\* A file after a power loss.
LEMMA AfterPlaced ==
    ASSUME FileTypes, NEW f, Placed(f), NEW g \in After(f) PROVE Placed(g)
<1>1. CASE g = f
  BY <1>1
<1>2. CASE g = Torn
  <2>1. Torn \in Archive /\ src >= 0
    BY Records, NodesAssumption DEF FileTypes
  <2> QED
    BY <1>2, <2>1 DEF Placed, Made, Torn
<1> QED
  BY <1>1, <1>2 DEF After

\* The files and the writer's call keep their types, and every file at the
\* path or its backup is one that Export made.
LEMMA TypesStep == FileTypes /\ WriterProgress /\ [Next]_vars => FileTypes'
<1> SUFFICES ASSUME FileTypes, WriterProgress, [Next]_vars PROVE FileTypes'
  OBVIOUS
<1> USE NodesAssumption, FaultBound, Records DEF fileVars, readVars
<1>1. CASE StartExport
  BY <1>1 DEF FileTypes, WriterProgress, Placed, Made, Signed, At, Goto, WriterRecord,
     WriterPCs, WithTemp, WithDest, Archive, Promise, StartExport, NotWriting
<1>2. CASE CreateFile
  BY <1>2 DEF FileTypes, WriterProgress, Placed, Made, Signed, At, Goto, WriterRecord,
     WriterPCs, WithTemp, WithDest, Archive, Promise, CreateFile, Torn
<1>3. CASE WriteZip
  <2>1. writer.nodes \in 0..MaxNodes /\ writer.nodes > 0 /\ writer.nodes <= src
    BY <1>3 DEF WriteZip, At, FileTypes, WriterProgress, WriterRecord
  <2>2. Placed(dest)' /\ Placed(bak)'
    BY <1>3, <2>1, ZipFields DEF WriteZip, FileTypes, Placed, Made
  <2>3. CASE writer.sign
    BY <1>3, <2>2, <2>3 DEF WriteZip, FileTypes, Goto, WriterRecord, WriterPCs
  <2>4. CASE ~writer.sign
    <3>1. promised' \in Promise
      <4>1. promised' = [nodes |-> writer.nodes, signed |-> FALSE]
        BY <1>3, <2>4 DEF WriteZip, ReturnOk
      <4> QED
        BY <2>1, <4>1, NodesAssumption DEF Promise
    <3> QED
      BY <1>3, <2>2, <2>4, <3>1 DEF WriteZip, FileTypes, ReturnOk
  <2> QED
    BY <2>3, <2>4
<1>4. CASE ExportFails
  <2>1. writer.nodes \in 0..MaxNodes /\ writer.nodes > 0 /\ writer.nodes <= src
    BY <1>4 DEF ExportFails, At, FileTypes, WriterProgress, WriterRecord
  <2>2. Placed(dest)' /\ Placed(bak)'
    BY <1>4, <2>1, ZipFields DEF ExportFails, FileTypes, Placed, Made
  <2> QED
    BY <1>4, <2>2 DEF ExportFails, ReturnError, FileTypes
<1>5. CASE StartSign
  BY <1>5 DEF FileTypes, WriterProgress, Placed, Made, Signed, At, Goto, WriterRecord,
     WriterPCs, WithTemp, WithDest, Archive, Promise, StartSign
<1>6. CASE ReadPackage
  <2>1. CASE dest # None /\ dest.whole
    <3>1. dest.nodes \in 0..MaxNodes
      BY <2>1 DEF FileTypes, Placed, Archive
    <3>2. writer' \in WriterRecord
      BY <1>6, <2>1, <3>1 DEF ReadPackage, FileTypes, WriterRecord, WriterPCs
    <3> QED
      BY <1>6, <2>1, <3>2 DEF ReadPackage, FileTypes, Placed, Made
  <2>2. CASE ~(dest # None /\ dest.whole)
    BY <1>6, <2>2 DEF ReadPackage, ReturnError, FileTypes, Placed, Made
  <2> QED
    BY <2>1, <2>2
<1>7. CASE WriteTemp
  BY <1>7 DEF FileTypes, WriterProgress, Placed, Made, Signed, At, Goto, WriterRecord,
     WriterPCs, WithTemp, WithDest, Archive, Promise, WriteTemp
<1>8. CASE SyncTemp
  BY <1>8 DEF FileTypes, WriterProgress, Placed, Made, Signed, At, Goto, WriterRecord,
     WriterPCs, WithTemp, WithDest, Archive, Promise, SyncTemp
<1>9. CASE Replace
  BY <1>9 DEF FileTypes, WriterProgress, Placed, Made, Signed, At, Goto, WriterRecord,
     WriterPCs, WithTemp, WithDest, Archive, Promise, Replace, ReturnOk, NotWriting
<1>10. CASE ReplaceFails
  BY <1>10 DEF FileTypes, WriterProgress, Placed, Made, Signed, At, Goto, WriterRecord,
     WriterPCs, WithTemp, WithDest, Archive, Promise, ReplaceFails, Fault
<1>11. CASE RemoveBackup
  BY <1>11 DEF FileTypes, WriterProgress, Placed, Made, Signed, At, Goto, WriterRecord,
     WriterPCs, WithTemp, WithDest, Archive, Promise, RemoveBackup
<1>12. CASE MoveAside
  BY <1>12 DEF FileTypes, WriterProgress, Placed, Made, Signed, At, Goto, WriterRecord,
     WriterPCs, WithTemp, WithDest, Archive, Promise, MoveAside
<1>13. CASE Install
  BY <1>13 DEF FileTypes, WriterProgress, Placed, Made, Signed, At, Goto, WriterRecord,
     WriterPCs, WithTemp, WithDest, Archive, Promise, Install
<1>14. CASE InstallFails
  BY <1>14 DEF FileTypes, WriterProgress, Placed, Made, Signed, At, Goto, WriterRecord,
     WriterPCs, WithTemp, WithDest, Archive, Promise, InstallFails, Fault
<1>15. CASE Restore
  BY <1>15 DEF FileTypes, WriterProgress, Placed, Made, Signed, At, Goto, WriterRecord,
     WriterPCs, WithTemp, WithDest, Archive, Promise, Restore, ReturnError, NotWriting
<1>16. CASE DropBackup
  BY <1>16 DEF FileTypes, WriterProgress, Placed, Made, Signed, At, Goto, WriterRecord,
     WriterPCs, WithTemp, WithDest, Archive, Promise, DropBackup, ReturnOk, NotWriting
<1>17. CASE SignFails
  BY <1>17 DEF FileTypes, WriterProgress, Placed, Made, Signed, At, Goto, WriterRecord,
     WriterPCs, WithTemp, WithDest, Archive, Promise, SignFails, ReturnError, NotWriting,
     Fault
<1>18. CASE WriterCrash
  BY <1>18 DEF FileTypes, WriterProgress, Placed, Made, Signed, At, Goto, WriterRecord,
     WriterPCs, WithTemp, WithDest, Archive, Promise, WriterCrash, NotWriting, Fault
<1>19. CASE SourceAppend
  BY <1>19 DEF FileTypes, WriterProgress, Placed, Made, Signed, At, Goto, WriterRecord,
     WriterPCs, WithTemp, WithDest, Archive, Promise, SourceAppend
<1>20. CASE PowerLoss
  <2>1. Placed(dest') /\ Placed(bak') /\ src' = src
    BY <1>20, AfterPlaced DEF PowerLoss, FileTypes
  <2>2. Placed(dest)' /\ Placed(bak)'
    BY <2>1 DEF Placed, Made
  <2> QED
    BY <1>20, <2>2 DEF PowerLoss, FileTypes
<1>21. CASE LocalAppend \/ (\E r \in Readers : Reads(r)) \/ UNCHANGED vars
  BY <1>21, ReadFrame DEF FileTypes, Placed, Made
<1> QED
  BY <1>1, <1>2, <1>3, <1>4, <1>5, <1>6, <1>7, <1>8, <1>9, <1>10, <1>11, <1>12, <1>13,
     <1>14, <1>15, <1>16, <1>17, <1>18, <1>19, <1>20, <1>21
  DEF Next, Writes

\* Each call of the writer leaves what the next one relies on.
LEMMA WriterStep == FileTypes /\ WriterProgress /\ [Next]_vars => WriterProgress'
<1> SUFFICES ASSUME FileTypes, WriterProgress, [Next]_vars PROVE WriterProgress'
  OBVIOUS
<1> USE NodesAssumption, Records DEF fileVars, readVars
<1>1. CASE StartExport
  BY <1>1 DEF FileTypes, WriterProgress, Placed, Made, Signed, At, Goto, WriterRecord,
     WriterPCs, WithTemp, WithDest, Archive, Promise, StartExport, NotWriting
<1>2. CASE CreateFile
  BY <1>2 DEF FileTypes, WriterProgress, Placed, Made, Signed, At, Goto, WriterRecord,
     WriterPCs, WithTemp, WithDest, Archive, Promise, CreateFile, Torn
<1>3. CASE WriteZip
  BY <1>3 DEF FileTypes, WriterProgress, Placed, Made, Signed, At, Goto, WriterRecord,
     WriterPCs, WithTemp, WithDest, Archive, Promise, WriteZip, Zip, ReturnOk, NotWriting
<1>4. CASE ExportFails
  BY <1>4 DEF FileTypes, WriterProgress, Placed, Made, Signed, At, Goto, WriterRecord,
     WriterPCs, WithTemp, WithDest, Archive, Promise, ExportFails, Zip, ReturnError,
     NotWriting, Fault
<1>5. CASE StartSign
  BY <1>5 DEF FileTypes, WriterProgress, Placed, Made, Signed, At, Goto, WriterRecord,
     WriterPCs, WithTemp, WithDest, Archive, Promise, StartSign
<1>6. CASE ReadPackage
  <2>1. CASE dest # None /\ dest.whole
    <3>1. /\ writer'.pc = "temp" /\ writer'.nodes = dest.nodes /\ writer'.tmp = writer.tmp
          /\ UNCHANGED <<src, dest, promised>>
      BY <1>6, <2>1 DEF ReadPackage, FileTypes, WriterRecord
    <3>2. dest.nodes <= src
      BY <2>1 DEF FileTypes, Placed, Made
    <3>3. writer.tmp = None
      BY <1>6 DEF ReadPackage, At, WriterProgress, WithTemp
    <3> QED
      BY <2>1, <3>1, <3>2, <3>3 DEF WriterProgress, WithTemp, WithDest
  <2>2. CASE ~(dest # None /\ dest.whole)
    BY <1>6, <2>2 DEF ReadPackage, ReturnError, NotWriting, FileTypes, WriterProgress, WithTemp,
       WithDest
  <2> QED
    BY <2>1, <2>2
<1>7. CASE WriteTemp
  <2>1. /\ dest \in Archive /\ dest.whole /\ dest.nodes = writer.nodes
        /\ dest.seals = dest.nodes /\ dest.nodes > 0 /\ writer.nodes \in 0..MaxNodes
    BY <1>7 DEF WriteTemp, At, WriterProgress, WithDest, FileTypes, Placed, Made, WriterRecord
  <2>2. /\ writer'.pc = "sync" /\ writer'.nodes = writer.nodes
        /\ writer'.tmp = SignedCopy(dest, writer.nodes)
        /\ UNCHANGED <<src, dest, promised>>
    BY <1>7 DEF WriteTemp, FileTypes, WriterRecord, SignedCopy
  <2>3. writer'.tmp \in Archive /\ Signed(writer.tmp)'
    <3> DEFINE g == SignedCopy(dest, writer.nodes)
    <3>1. dest \in Archive /\ writer.nodes \in 0..MaxNodes
      BY <2>1
    <3>2. /\ g \in Archive /\ (dest.whole => g.whole) /\ g.nodes = dest.nodes
          /\ g.seals = dest.seals /\ g.sig = writer.nodes
      BY <3>1, CopyFields
    <3> HIDE DEF g
    <3> QED
      BY <2>1, <2>2, <3>2 DEF Signed, g
  <2> QED
    BY <1>7, <2>1, <2>2, <2>3 DEF WriteTemp, At, WriterProgress, WithTemp, WithDest
<1>8. CASE SyncTemp
  <2>1. writer.tmp \in Archive /\ Signed(writer.tmp) /\ writer.nodes > 0
    BY <1>8 DEF SyncTemp, At, WriterProgress, WithTemp, FileTypes, WriterRecord
  <2>2. /\ writer'.pc = "rename" /\ writer'.nodes = writer.nodes
        /\ writer'.tmp = [writer.tmp EXCEPT !.synced = TRUE]
        /\ UNCHANGED <<src, dest, promised>>
    BY <1>8 DEF SyncTemp, FileTypes, WriterRecord
  <2>3. writer'.tmp \in Archive /\ Signed(writer.tmp)' /\ writer'.tmp.synced
    BY <2>1, <2>2, SyncedFields DEF Signed
  <2> QED
    BY <1>8, <2>1, <2>2, <2>3 DEF SyncTemp, At, WriterProgress, WithTemp, WithDest
<1>9. CASE Replace
  BY <1>9 DEF FileTypes, WriterProgress, Placed, Made, Signed, At, Goto, WriterRecord,
     WriterPCs, WithTemp, WithDest, Archive, Promise, Replace, ReturnOk, NotWriting
<1>10. CASE ReplaceFails
  BY <1>10 DEF FileTypes, WriterProgress, Placed, Made, Signed, At, Goto, WriterRecord,
     WriterPCs, WithTemp, WithDest, Archive, Promise, ReplaceFails, Fault
<1>11. CASE RemoveBackup
  BY <1>11 DEF FileTypes, WriterProgress, Placed, Made, Signed, At, Goto, WriterRecord,
     WriterPCs, WithTemp, WithDest, Archive, Promise, RemoveBackup
<1>12. CASE MoveAside
  BY <1>12 DEF FileTypes, WriterProgress, Placed, Made, Signed, At, Goto, WriterRecord,
     WriterPCs, WithTemp, WithDest, Archive, Promise, MoveAside
<1>13. CASE Install
  BY <1>13 DEF FileTypes, WriterProgress, Placed, Made, Signed, At, Goto, WriterRecord,
     WriterPCs, WithTemp, WithDest, Archive, Promise, Install
<1>14. CASE InstallFails
  BY <1>14 DEF FileTypes, WriterProgress, Placed, Made, Signed, At, Goto, WriterRecord,
     WriterPCs, WithTemp, WithDest, Archive, Promise, InstallFails, Fault
<1>15. CASE Restore
  BY <1>15 DEF FileTypes, WriterProgress, Placed, Made, Signed, At, Goto, WriterRecord,
     WriterPCs, WithTemp, WithDest, Archive, Promise, Restore, ReturnError, NotWriting
<1>16. CASE DropBackup
  BY <1>16 DEF FileTypes, WriterProgress, Placed, Made, Signed, At, Goto, WriterRecord,
     WriterPCs, WithTemp, WithDest, Archive, Promise, DropBackup, ReturnOk, NotWriting
<1>17. CASE SignFails
  BY <1>17 DEF FileTypes, WriterProgress, Placed, Made, Signed, At, Goto, WriterRecord,
     WriterPCs, WithTemp, WithDest, Archive, Promise, SignFails, ReturnError, NotWriting,
     Fault
<1>18. CASE WriterCrash
  BY <1>18 DEF FileTypes, WriterProgress, Placed, Made, Signed, At, Goto, WriterRecord,
     WriterPCs, WithTemp, WithDest, Archive, Promise, WriterCrash, NotWriting, Fault
<1>19. CASE SourceAppend
  BY <1>19 DEF FileTypes, WriterProgress, Placed, Made, Signed, At, Goto, WriterRecord,
     WriterPCs, WithTemp, WithDest, Archive, Promise, SourceAppend
<1>20. CASE PowerLoss
  BY <1>20 DEF FileTypes, WriterProgress, Placed, Made, Signed, At, Goto, WriterRecord,
     WriterPCs, WithTemp, WithDest, Archive, Promise, PowerLoss, After, Fault, NotWriting,
     Torn
<1>21. CASE LocalAppend \/ (\E r \in Readers : Reads(r)) \/ UNCHANGED vars
  BY <1>21, ReadFrame DEF WriterProgress, Signed
<1> QED
  BY <1>1, <1>2, <1>3, <1>4, <1>5, <1>6, <1>7, <1>8, <1>9, <1>10, <1>11, <1>12, <1>13,
     <1>14, <1>15, <1>16, <1>17, <1>18, <1>19, <1>20, <1>21
  DEF Next, Writes

\* No call of Sign, and no crash between two, takes the promised package from
\* the path and its backup.
LEMMA SafeStep == FileTypes /\ WriterProgress /\ PackageSafe /\ [Next]_vars => PackageSafe'
<1> SUFFICES ASSUME FileTypes, WriterProgress, PackageSafe, [Next]_vars PROVE PackageSafe'
  OBVIOUS
<1> USE NodesAssumption, Records DEF fileVars, readVars
<1>1. CASE StartExport
  BY <1>1 DEF PackageSafe, Holds, FileTypes, WriterProgress, Placed, Made, Signed, At,
     Goto, WriterRecord, WriterPCs, WithTemp, WithDest, Archive, Promise, StartExport,
     NotWriting
<1>2. CASE CreateFile
  BY <1>2 DEF PackageSafe, Holds, FileTypes, WriterProgress, Placed, Made, Signed, At,
     Goto, WriterRecord, WriterPCs, WithTemp, WithDest, Archive, Promise, CreateFile, Torn
<1>3. CASE WriteZip
  <2>1. writer.nodes \in 0..MaxNodes /\ promised = None /\ writer.tmp = None
    BY <1>3 DEF WriteZip, At, FileTypes, WriterProgress, WriterRecord, WithTemp
  <2>2. CASE writer.sign
    BY <1>3, <2>1, <2>2 DEF WriteZip, PackageSafe
  <2>3. CASE ~writer.sign
    <3>1. /\ dest' = Zip(writer.nodes, 0) /\ writer'.tmp = None
          /\ promised' = [nodes |-> writer.nodes, signed |-> FALSE]
      BY <1>3, <2>3 DEF WriteZip, ReturnOk, NotWriting
    <3> QED
      BY <2>1, <3>1, ZipFields DEF PackageSafe, Holds
  <2> QED
    BY <2>2, <2>3
<1>4. CASE ExportFails
  BY <1>4 DEF PackageSafe, Holds, FileTypes, WriterProgress, Placed, Made, Signed, At,
     Goto, WriterRecord, WriterPCs, WithTemp, WithDest, Archive, Promise, ExportFails, Zip,
     ReturnError, NotWriting, Fault
<1>5. CASE StartSign
  BY <1>5 DEF PackageSafe, Holds, FileTypes, WriterProgress, Placed, Made, Signed, At,
     Goto, WriterRecord, WriterPCs, WithTemp, WithDest, Archive, Promise, StartSign
<1>6. CASE ReadPackage
  <2>1. UNCHANGED <<dest, bak, promised>> /\ (writer'.tmp = writer.tmp \/ writer'.tmp = None)
    BY <1>6 DEF ReadPackage, ReturnError, NotWriting, FileTypes, WriterRecord
  <2> QED
    BY <2>1 DEF PackageSafe, Holds
<1>7. CASE WriteTemp
  BY <1>7 DEF PackageSafe, Holds, FileTypes, WriterProgress, Placed, Made, Signed, At,
     Goto, WriterRecord, WriterPCs, WithTemp, WithDest, Archive, Promise, WriteTemp
<1>8. CASE SyncTemp
  BY <1>8 DEF PackageSafe, Holds, FileTypes, WriterProgress, Placed, Made, Signed, At,
     Goto, WriterRecord, WriterPCs, WithTemp, WithDest, Archive, Promise, SyncTemp
<1>9. CASE Replace
  BY <1>9 DEF PackageSafe, Holds, FileTypes, WriterProgress, Placed, Made, Signed, At,
     Goto, WriterRecord, WriterPCs, WithTemp, WithDest, Archive, Promise, Replace,
     ReturnOk, NotWriting
<1>10. CASE ReplaceFails
  BY <1>10 DEF PackageSafe, Holds, FileTypes, WriterProgress, Placed, Made, Signed, At,
     Goto, WriterRecord, WriterPCs, WithTemp, WithDest, Archive, Promise, ReplaceFails,
     Fault
<1>11. CASE RemoveBackup
  BY <1>11 DEF PackageSafe, Holds, FileTypes, WriterProgress, Placed, Made, Signed, At,
     Goto, WriterRecord, WriterPCs, WithTemp, WithDest, Archive, Promise, RemoveBackup
<1>12. CASE MoveAside
  BY <1>12 DEF PackageSafe, Holds, FileTypes, WriterProgress, Placed, Made, Signed, At,
     Goto, WriterRecord, WriterPCs, WithTemp, WithDest, Archive, Promise, MoveAside
<1>13. CASE Install
  BY <1>13 DEF PackageSafe, Holds, FileTypes, WriterProgress, Placed, Made, Signed, At,
     Goto, WriterRecord, WriterPCs, WithTemp, WithDest, Archive, Promise, Install
<1>14. CASE InstallFails
  BY <1>14 DEF PackageSafe, Holds, FileTypes, WriterProgress, Placed, Made, Signed, At,
     Goto, WriterRecord, WriterPCs, WithTemp, WithDest, Archive, Promise, InstallFails,
     Fault
<1>15. CASE Restore
  BY <1>15 DEF PackageSafe, Holds, FileTypes, WriterProgress, Placed, Made, Signed, At,
     Goto, WriterRecord, WriterPCs, WithTemp, WithDest, Archive, Promise, Restore,
     ReturnError, NotWriting
<1>16. CASE DropBackup
  BY <1>16 DEF PackageSafe, Holds, FileTypes, WriterProgress, Placed, Made, Signed, At,
     Goto, WriterRecord, WriterPCs, WithTemp, WithDest, Archive, Promise, DropBackup,
     ReturnOk, NotWriting
<1>17. CASE SignFails
  BY <1>17 DEF PackageSafe, Holds, FileTypes, WriterProgress, Placed, Made, Signed, At,
     Goto, WriterRecord, WriterPCs, WithTemp, WithDest, Archive, Promise, SignFails,
     ReturnError, NotWriting, Fault
<1>18. CASE WriterCrash
  BY <1>18 DEF PackageSafe, Holds, FileTypes, WriterProgress, Placed, Made, Signed, At,
     Goto, WriterRecord, WriterPCs, WithTemp, WithDest, Archive, Promise, WriterCrash,
     NotWriting, Fault
<1>19. CASE SourceAppend
  BY <1>19 DEF PackageSafe, Holds, FileTypes, WriterProgress, Placed, Made, Signed, At,
     Goto, WriterRecord, WriterPCs, WithTemp, WithDest, Archive, Promise, SourceAppend
<1>20. CASE PowerLoss
  BY <1>20 DEF PackageSafe, Holds, FileTypes, WriterProgress, Placed, Made, Signed, At,
     Goto, WriterRecord, WriterPCs, WithTemp, WithDest, Archive, Promise, PowerLoss, After,
     Fault, NotWriting, Torn
<1>21. CASE LocalAppend \/ (\E r \in Readers : Reads(r)) \/ UNCHANGED vars
  BY <1>21, ReadFrame DEF PackageSafe, Holds
<1> QED
  BY <1>1, <1>2, <1>3, <1>4, <1>5, <1>6, <1>7, <1>8, <1>9, <1>10, <1>11, <1>12, <1>13,
     <1>14, <1>15, <1>16, <1>17, <1>18, <1>19, <1>20, <1>21
  DEF Next, Writes

----------------------------------------------------------------------------
(* The readers, and the log they import into.                              *)

\* The writer changes neither the log nor what a reader has; a rename only
\* changes the name under which an open archive is found.
LEMMA WriteFrame ==
    ASSUME ReaderProgress, Writes
    PROVE  /\ UNCHANGED <<src, dlog, imported>>
           /\ DOMAIN reader' = Readers
           /\ \A r \in Readers :
                 \/ reader'[r] = reader[r]
                 \/ /\ reader[r].name \in {"dest", "bak"}
                    /\ \E n \in {"none", "dest", "bak"} :
                          reader'[r] = [reader[r] EXCEPT !.name = n]
<1> USE DEF fileVars, readVars, ReaderProgress, Renamed
<1>1. CASE Replace \/ RemoveBackup \/ MoveAside \/ Restore \/ DropBackup
  BY <1>1 DEF Replace, RemoveBackup, MoveAside, Restore, DropBackup
<1>2. CASE StartExport \/ CreateFile \/ WriteZip \/ ExportFails \/ StartSign \/ ReadPackage
  BY <1>2 DEF StartExport, CreateFile, WriteZip, ExportFails, StartSign, ReadPackage
<1>3. CASE WriteTemp \/ SyncTemp \/ ReplaceFails \/ Install \/ InstallFails
  BY <1>3 DEF WriteTemp, SyncTemp, ReplaceFails, Install, InstallFails
<1>4. CASE SignFails \/ WriterCrash
  BY <1>4 DEF SignFails, WriterCrash
<1> QED
  BY <1>1, <1>2, <1>3, <1>4 DEF Writes

\* One reader's call changes.
ReaderBecomes(r, c) == reader' = [reader EXCEPT ![r] = c]

\* What ReaderProgress says of one call.
CallProgress(c) ==
    /\ Made(c.pkg)
    /\ c.next <= c.pkg.nodes + 1
    /\ c.pc \in {"idle", "read", "signature"} => c.next = 1
    /\ c.name \in {"dest", "bak"} => c.pc \in {"read", "signature"}
    /\ c.pc \in {"signature", "append", "return"} => c.pkg.nodes > 0
    /\ c.pc \in {"append", "return"} => c.sig = IF c.pkg.sig = 0 THEN 0 ELSE c.pkg.nodes

\* A step that changes one reader's call only.
LEMMA OneReader ==
    ASSUME ReaderProgress, NEW r \in Readers, NEW c \in ReaderRecord, src' = src,
           ReaderBecomes(r, c), CallProgress(c)
    PROVE  ReaderProgress'
<1>1. reader' \in [Readers -> ReaderRecord] /\ reader'[r] = c
      /\ \A q \in Readers \ {r} : reader'[q] = reader[q]
  BY DEF ReaderBecomes, ReaderProgress
<1>2. ASSUME NEW q \in Readers PROVE CallProgress(reader[q])'
  <2>1. CallProgress(reader'[q])
    BY <1>1 DEF ReaderProgress, CallProgress
  <2> QED
    BY <2>1 DEF CallProgress, Made
<1> QED
  BY <1>1, <1>2 DEF ReaderProgress, CallProgress

\* A call that is not there.
LEMMA NotReadingProgress == FileTypes => NotReading \in ReaderRecord /\ CallProgress(NotReading)
  BY Records, NodesAssumption DEF CallProgress, NotReading, Made, Torn, FileTypes

\* Load returns after the last check it makes.
LEMMA LoadedProgress ==
    ASSUME ReaderProgress, NEW r \in Readers, src' = src, reader[r].pc \in {"read", "signature"},
           reader[r].pkg.nodes > 0, NEW s, Loaded(r, s),
           s = IF reader[r].pkg.sig = 0 THEN 0 ELSE reader[r].pkg.nodes
    PROVE  ReaderProgress'
<1> DEFINE l == IF reader[r].import THEN "append" ELSE "return"
           c == [reader[r] EXCEPT !.sig = s, !.name = "none", !.pc = l]
<1>1. ReaderBecomes(r, c)
  BY DEF Loaded, ReaderProgress, ReaderBecomes
<1>2. /\ reader[r] \in ReaderRecord /\ l \in {"append", "return"}
      /\ CallProgress(reader[r]) /\ reader[r].next = 1
  BY DEF ReaderProgress, CallProgress
<1>3. s \in 0..MaxNodes
  BY <1>2, NodesAssumption DEF ReaderRecord, Archive
<1> HIDE DEF l
<1>4. /\ c \in ReaderRecord /\ c.pc = l /\ c.sig = s /\ c.name = "none"
      /\ c.pkg = reader[r].pkg /\ c.next = 1
  BY <1>2, <1>3 DEF ReaderRecord
<1> HIDE DEF c
<1>5. CallProgress(c)
  BY <1>2, <1>4 DEF CallProgress
<1> QED
  BY <1>1, <1>4, <1>5, OneReader

\* Load and Import go on only with what they have verified.
LEMMA ReaderStep == FileTypes /\ ReaderProgress /\ [Next]_vars => ReaderProgress'
<1> SUFFICES ASSUME FileTypes, ReaderProgress, [Next]_vars PROVE ReaderProgress'
  OBVIOUS
<1>1. CASE LocalAppend \/ UNCHANGED vars
  BY <1>1 DEF LocalAppend, vars, fileVars, readVars, ReaderProgress, Made
<1>2. CASE SourceAppend
  BY <1>2, NodesAssumption
  DEF SourceAppend, fileVars, readVars, FileTypes, ReaderProgress, Made, ReaderRecord, Archive
<1>3. CASE Writes
  <2>1. \A r \in Readers : reader[r] \in ReaderRecord /\ CallProgress(reader[r])
    BY DEF ReaderProgress, CallProgress
  <2>2. ASSUME NEW r \in Readers
        PROVE  reader'[r] \in ReaderRecord /\ CallProgress(reader'[r])
    <3>1. CASE reader'[r] = reader[r]
      BY <2>1, <3>1
    <3>2. ASSUME reader[r].name \in {"dest", "bak"}, NEW n \in {"none", "dest", "bak"},
                 reader'[r] = [reader[r] EXCEPT !.name = n]
          PROVE  reader'[r] \in ReaderRecord /\ CallProgress(reader'[r])
      <4>1. reader[r] \in ReaderRecord /\ CallProgress(reader[r])
        BY <2>1
      <4>2. /\ reader'[r] \in ReaderRecord
            /\ reader'[r].pc = reader[r].pc /\ reader'[r].pkg = reader[r].pkg
            /\ reader'[r].next = reader[r].next /\ reader'[r].sig = reader[r].sig
        BY <3>2, <4>1 DEF ReaderRecord
      <4> QED
        BY <3>2, <4>1, <4>2 DEF CallProgress
    <3> QED
      BY <1>3, <3>1, <3>2, WriteFrame
  <2>3. reader' \in [Readers -> ReaderRecord] /\ src' = src
    <3>1. src' = src /\ DOMAIN reader' = Readers
      BY <1>3, WriteFrame
    <3>2. reader' = [r \in Readers |-> reader'[r]]
      BY <1>3 DEF Writes, ReaderProgress, fileVars, readVars, Renamed, Replace, RemoveBackup,
         MoveAside, Restore, DropBackup, StartExport, CreateFile, WriteZip, ExportFails,
         StartSign, ReadPackage, WriteTemp, SyncTemp, ReplaceFails, Install, InstallFails,
         SignFails, WriterCrash
    <3> QED
      BY <2>2, <3>1, <3>2
  <2> QED
    BY <2>2, <2>3 DEF ReaderProgress, CallProgress, Made
<1>4. CASE PowerLoss
  <2>1. reader' = [r \in Readers |-> NotReading] /\ src' = src
    BY <1>4 DEF PowerLoss
  <2> QED
    BY <2>1, NotReadingProgress DEF ReaderProgress, CallProgress, Made
<1>5. ASSUME NEW r \in Readers, Open(r) PROVE ReaderProgress'
  <2>1. PICK import \in BOOLEAN :
           ReaderBecomes(r, [NotReading EXCEPT !.pc = "read", !.import = import,
                                               !.name = "dest", !.pkg = dest])
    BY <1>5 DEF Open, ReaderBecomes
  <2> DEFINE c == [NotReading EXCEPT !.pc = "read", !.import = import, !.name = "dest",
                                     !.pkg = dest]
  <2>2. dest \in Archive /\ Made(dest) /\ src' = src /\ dest.nodes \in 0..MaxNodes
    BY <1>5 DEF Open, FileTypes, Placed, Archive
  <2>3. NotReading \in ReaderRecord /\ NotReading.next = 1
    BY Records DEF NotReading
  <2>4. /\ c \in ReaderRecord /\ c.pc = "read" /\ c.name = "dest" /\ c.pkg = dest
        /\ c.next = 1
    BY <2>2, <2>3 DEF ReaderRecord
  <2> HIDE DEF c
  <2>5. CallProgress(c)
    BY <2>2, <2>4 DEF CallProgress
  <2> QED
    BY <2>1, <2>2, <2>4, <2>5, OneReader DEF c
<1>6. ASSUME NEW r \in Readers, ReadMembers(r) PROVE ReaderProgress'
  <2>1. /\ reader[r] \in ReaderRecord /\ CallProgress(reader[r])
        /\ reader[r].pc = "read" /\ reader[r].pkg.nodes > 0 /\ src' = src
    BY <1>6 DEF ReadMembers, Reading, Verified, NodesOk, ReaderProgress, CallProgress
  <2>2. CASE reader[r].pkg.sig = 0
    BY <1>6, <2>1, <2>2, LoadedProgress DEF ReadMembers
  <2>3. CASE reader[r].pkg.sig # 0
    <3> DEFINE c == [reader[r] EXCEPT !.pc = "signature"]
    <3>1. ReaderBecomes(r, c)
      BY <1>6, <2>3 DEF ReadMembers, ReaderBecomes, ReaderProgress
    <3>2. /\ c \in ReaderRecord /\ c.pc = "signature" /\ c.pkg = reader[r].pkg
          /\ c.next = reader[r].next /\ c.name = reader[r].name /\ c.sig = reader[r].sig
      BY <2>1 DEF ReaderRecord
    <3> HIDE DEF c
    <3>3. CallProgress(c)
      BY <2>1, <3>2 DEF CallProgress
    <3> QED
      BY <2>1, <3>1, <3>2, <3>3, OneReader
  <2> QED
    BY <2>2, <2>3
<1>7. ASSUME NEW r \in Readers, CheckSignature(r) PROVE ReaderProgress'
  <2>1. /\ reader[r].pc = "signature" /\ reader[r].pkg.nodes > 0 /\ src' = src
        /\ reader[r].pkg.sig = reader[r].pkg.nodes /\ Loaded(r, reader[r].pkg.sig)
    BY <1>7 DEF CheckSignature, Reading, ReaderProgress
  <2> QED
    BY <2>1, LoadedProgress
<1>8. ASSUME NEW r \in Readers, LoadFails(r) \/ EndRead(r) \/ ReaderStops(r) PROVE ReaderProgress'
  <2>1. ReaderBecomes(r, NotReading) /\ src' = src
    BY <1>8 DEF LoadFails, EndRead, ReaderStops, ReaderBecomes
  <2> QED
    BY <2>1, NotReadingProgress, OneReader
<1>9. ASSUME NEW r \in Readers, ImportNode(r) PROVE ReaderProgress'
  <2>1. CASE SlotConflict(dlog, reader[r].next, "pkg")
    BY <1>9, <2>1, NotReadingProgress, OneReader DEF ImportNode, ReaderBecomes
  <2>2. CASE ~SlotConflict(dlog, reader[r].next, "pkg")
    <3> DEFINE c == [reader[r] EXCEPT !.next = reader[r].next + 1]
    <3>1. ReaderBecomes(r, c) /\ src' = src
      BY <1>9, <2>2 DEF ImportNode, ReaderBecomes, ReaderProgress
    <3>2. /\ reader[r] \in ReaderRecord /\ CallProgress(reader[r]) /\ reader[r].pc = "append"
          /\ reader[r].next <= reader[r].pkg.nodes
      BY <1>9 DEF ImportNode, Reading, ReaderProgress, CallProgress
    <3>3. reader[r].next + 1 \in 1..(MaxNodes + 1) /\ reader[r].next + 1 <= reader[r].pkg.nodes + 1
      BY <3>2, NodesAssumption DEF ReaderRecord, Archive
    <3>4. /\ c \in ReaderRecord /\ c.pc = "append" /\ c.pkg = reader[r].pkg
          /\ c.next = reader[r].next + 1 /\ c.name = reader[r].name /\ c.sig = reader[r].sig
      BY <3>2, <3>3 DEF ReaderRecord
    <3> HIDE DEF c
    <3>5. CallProgress(c)
      BY <3>2, <3>3, <3>4 DEF CallProgress
    <3> QED
      BY <3>1, <3>4, <3>5, OneReader
  <2> QED
    BY <2>1, <2>2
<1>10. ASSUME NEW r \in Readers, ImportDone(r) PROVE ReaderProgress'
  <2> DEFINE c == [reader[r] EXCEPT !.pc = "return"]
  <2>1. ReaderBecomes(r, c) /\ src' = src
    BY <1>10 DEF ImportDone, ReaderBecomes, ReaderProgress
  <2>2. reader[r] \in ReaderRecord /\ CallProgress(reader[r]) /\ reader[r].pc = "append"
    BY <1>10 DEF ImportDone, Reading, ReaderProgress, CallProgress
  <2>3. /\ c \in ReaderRecord /\ c.pc = "return" /\ c.pkg = reader[r].pkg
        /\ c.next = reader[r].next /\ c.name = reader[r].name /\ c.sig = reader[r].sig
    BY <2>2 DEF ReaderRecord
  <2> HIDE DEF c
  <2>4. CallProgress(c)
    BY <2>2, <2>3 DEF CallProgress
  <2> QED
    BY <2>1, <2>3, <2>4, OneReader
<1> QED
  BY <1>1, <1>2, <1>3, <1>4, <1>5, <1>6, <1>7, <1>8, <1>9, <1>10 DEF Next, Reads

\* A reader that is importing has been so, at the same node, or begins.
SameImports ==
    \A q \in Readers : reader'[q].pc = "append" =>
       \/ reader[q].pc = "append" /\ reader'[q].next = reader[q].next
       \/ reader'[q].next = 1

\* Nodes are never taken from the log, so what was imported stays.
LEMMA LogKept ==
    ASSUME LogProgress, SameImports, imported' = imported,
           \E n \in 0..MaxNodes : DOMAIN dlog' = 1..n,
           \A k \in DOMAIN dlog : k \in DOMAIN dlog' /\ dlog'[k] = dlog[k],
           \A k \in DOMAIN dlog' : dlog'[k] \in {"pkg", "local"}
    PROVE  LogProgress'
<1>1. \A k : FromPackage(k) => FromPackage(k)'
  BY DEF FromPackage
<1>2. ASSUME NEW q \in Readers, reader'[q].pc = "append", NEW k \in 1..(reader'[q].next - 1)
      PROVE  FromPackage(k)'
  <2>1. CASE reader[q].pc = "append" /\ reader'[q].next = reader[q].next
    BY <1>1, <1>2, <2>1 DEF LogProgress
  <2>2. CASE reader'[q].next = 1
    BY <1>2, <2>2
  <2> QED
    BY <1>2, <2>1, <2>2 DEF SameImports
<1> QED
  BY <1>1, <1>2 DEF LogProgress

\* A step of a reader that neither begins nor goes on with an Import.
LEMMA OneImport ==
    ASSUME ReaderProgress, NEW r \in Readers, NEW c, ReaderBecomes(r, c),
           c.pc = "append" => c.next = 1
    PROVE  SameImports
  BY DEF ReaderProgress, ReaderBecomes, SameImports

\* Import appends the nodes of a package in their order, each only after the
\* ones before it are there; a local run appends after the last.
LEMMA LogStep == FileTypes /\ ReaderProgress /\ LogProgress /\ [Next]_vars => LogProgress'
<1> SUFFICES ASSUME FileTypes, ReaderProgress, LogProgress, [Next]_vars PROVE LogProgress'
  OBVIOUS
<1> USE DEF fileVars, readVars
<1>0. ASSUME SameImports, dlog' = dlog, imported' = imported PROVE LogProgress'
  BY <1>0, LogKept DEF LogProgress
<1>1. CASE SourceAppend \/ UNCHANGED vars
  BY <1>0, <1>1 DEF SourceAppend, vars, SameImports
<1>2. CASE Writes
  <2>1. ASSUME NEW q \in Readers
        PROVE  reader'[q].pc = reader[q].pc /\ reader'[q].next = reader[q].next
    <3>1. reader[q] \in ReaderRecord
      BY DEF ReaderProgress
    <3> QED
      BY <1>2, <3>1, WriteFrame DEF ReaderRecord
  <2> QED
    BY <1>0, <1>2, <2>1, WriteFrame DEF SameImports
<1>3. CASE PowerLoss
  BY <1>0, <1>3 DEF PowerLoss, SameImports, NotReading
<1>4. CASE LocalAppend
  <2>1. PICK n \in 0..MaxNodes : DOMAIN dlog = 1..n
    BY DEF LogProgress
  <2>2. Cardinality(1..n) = n
    BY FS_Interval, NodesAssumption
  <2>3. n + 1 \in 0..MaxNodes /\ dlog' = Put(dlog, n + 1, "local")
    BY <1>4, <2>1, <2>2, NodesAssumption DEF LocalAppend
  <2>4. DOMAIN dlog' = 1..(n + 1)
    BY <2>1, <2>3 DEF Put
  <2>5. \A k \in DOMAIN dlog : k \in DOMAIN dlog' /\ dlog'[k] = dlog[k]
    BY <2>1, <2>3 DEF Put
  <2>6. \A k \in DOMAIN dlog' : dlog'[k] \in {"pkg", "local"}
    BY <2>3 DEF Put, LogProgress
  <2>7. SameImports /\ imported' = imported
    BY <1>4 DEF LocalAppend, SameImports
  <2> QED
    BY <2>3, <2>4, <2>5, <2>6, <2>7, LogKept
<1>5. ASSUME NEW r \in Readers, Open(r) PROVE LogProgress'
  <2>1. PICK import \in BOOLEAN :
           ReaderBecomes(r, [NotReading EXCEPT !.pc = "read", !.import = import,
                                               !.name = "dest", !.pkg = dest])
    BY <1>5 DEF Open, ReaderBecomes
  <2> DEFINE c == [NotReading EXCEPT !.pc = "read", !.import = import, !.name = "dest",
                                     !.pkg = dest]
  <2>2. c.pc = "read"
    BY DEF NotReading
  <2> HIDE DEF c
  <2>3. SameImports
    BY <2>1, <2>2, OneImport DEF c
  <2> QED
    BY <1>0, <1>5, <2>3 DEF Open
<1>6. ASSUME NEW r \in Readers, ReadMembers(r) \/ CheckSignature(r) PROVE LogProgress'
  <2>1. reader[r] \in ReaderRecord /\ reader[r].next = 1
    BY <1>6 DEF ReadMembers, CheckSignature, Reading, ReaderProgress
  <2>2. \A q \in Readers : reader'[q] = reader[q] \/ (q = r /\ reader'[q].next = 1)
    <3>1. CASE reader' = [reader EXCEPT ![r].pc = "signature"]
      BY <2>1, <3>1 DEF ReaderProgress, ReaderRecord
    <3>2. ASSUME NEW s, Loaded(r, s)
          PROVE  reader'[r].next = 1 /\ \A q \in Readers \ {r} : reader'[q] = reader[q]
      <4> DEFINE l == IF reader[r].import THEN "append" ELSE "return"
                 c == [reader[r] EXCEPT !.sig = s, !.name = "none", !.pc = l]
      <4>1. reader' = [reader EXCEPT ![r] = c]
        BY <3>2 DEF Loaded, ReaderProgress
      <4> HIDE DEF l
      <4>2. c.next = 1
        BY <2>1 DEF ReaderRecord
      <4> HIDE DEF c
      <4> QED
        BY <4>1, <4>2 DEF ReaderProgress
    <3> QED
      BY <1>6, <3>1, <3>2 DEF ReadMembers, CheckSignature
  <2> QED
    BY <1>0, <1>6, <2>2 DEF ReadMembers, CheckSignature, SameImports
<1>7. ASSUME NEW r \in Readers, LoadFails(r) \/ EndRead(r) \/ ReaderStops(r) PROVE LogProgress'
  <2>1. ReaderBecomes(r, NotReading) /\ dlog' = dlog /\ imported' = imported
    BY <1>7 DEF LoadFails, EndRead, ReaderStops, ReaderBecomes
  <2>2. SameImports
    BY <2>1, OneImport DEF NotReading
  <2> QED
    BY <1>0, <2>1, <2>2
<1>8. ASSUME NEW r \in Readers, ImportNode(r) PROVE LogProgress'
  <2> DEFINE j == reader[r].next
  <2>1. CASE SlotConflict(dlog, j, "pkg")
    <3>1. ReaderBecomes(r, NotReading) /\ dlog' = dlog /\ imported' = imported
      BY <1>8, <2>1 DEF ImportNode, ReaderBecomes
    <3>2. SameImports
      BY <3>1, OneImport DEF NotReading
    <3> QED
      BY <1>0, <3>1, <3>2
  <2>2. CASE ~SlotConflict(dlog, j, "pkg")
    <3>1. /\ dlog' = PutIfAbsent(dlog, j, "pkg") /\ imported' = imported
          /\ reader' = [reader EXCEPT ![r].next = j + 1]
      BY <1>8, <2>2 DEF ImportNode
    <3>2. /\ reader[r] \in ReaderRecord /\ reader[r].pc = "append" /\ j \in 1..MaxNodes
          /\ \A k \in 1..(j - 1) : FromPackage(k)
      BY <1>8, NodesAssumption
      DEF ImportNode, Reading, ReaderProgress, LogProgress, ReaderRecord, Archive
    <3>3. PICK n \in 0..MaxNodes : DOMAIN dlog = 1..n
      BY DEF LogProgress
    <3>4. \A k \in 1..(j - 1) : k \in 1..n
      BY <3>2, <3>3 DEF FromPackage
    <3>5. j <= n + 1
      <4>1. CASE j = 1
        BY <3>3, <4>1
      <4>2. CASE j # 1
        BY <3>2, <3>4, <4>2
      <4> QED
        BY <4>1, <4>2
    <3>6. \E m \in 0..MaxNodes : DOMAIN dlog' = 1..m
      <4>1. CASE j \in DOMAIN dlog
        BY <3>1, <3>3, <4>1 DEF PutIfAbsent
      <4>2. CASE j \notin DOMAIN dlog
        <5>1. j = n + 1
          BY <3>2, <3>3, <3>5, <4>2
        <5>2. DOMAIN dlog' = (1..n) \cup {n + 1}
          BY <3>1, <3>3, <4>2, <5>1 DEF PutIfAbsent, Put
        <5>3. (1..n) \cup {n + 1} = 1..(n + 1) /\ n + 1 \in 0..MaxNodes
          BY <3>2, <5>1
        <5> QED
          BY <5>2, <5>3
      <4> QED
        BY <4>1, <4>2
    <3>7. \A k \in DOMAIN dlog : k \in DOMAIN dlog' /\ dlog'[k] = dlog[k]
      BY <3>1 DEF PutIfAbsent, Put
    <3>8. \A k \in DOMAIN dlog' : dlog'[k] \in {"pkg", "local"}
      BY <3>1 DEF PutIfAbsent, Put, LogProgress
    <3>9. /\ j \in DOMAIN dlog' /\ dlog'[j] = "pkg"
          /\ \A k : FromPackage(k) => FromPackage(k)'
      BY <2>2, <3>1, <3>7 DEF FromPackage, PutIfAbsent, Put, SlotConflict
    <3>10. ASSUME NEW q \in Readers, reader'[q].pc = "append", NEW k \in 1..(reader'[q].next - 1)
           PROVE  FromPackage(k)'
      <4>1. CASE q = r
        <5>1. reader'[q].next = j + 1
          BY <3>1, <3>2, <4>1 DEF ReaderProgress, ReaderRecord
        <5>2. k = j \/ k \in 1..(j - 1)
          BY <3>2, <3>10, <5>1
        <5> QED
          BY <3>2, <3>9, <5>2 DEF FromPackage
      <4>2. CASE q # r
        <5>1. reader'[q] = reader[q]
          BY <3>1, <4>2 DEF ReaderProgress
        <5> QED
          BY <3>9, <3>10, <5>1 DEF LogProgress
      <4> QED
        BY <4>1, <4>2
    <3> QED
      BY <3>1, <3>6, <3>8, <3>9, <3>10 DEF LogProgress
  <2> QED
    BY <2>1, <2>2
<1>9. ASSUME NEW r \in Readers, ImportDone(r) PROVE LogProgress'
  <2>1. /\ reader[r] \in ReaderRecord /\ reader[r].pc = "append"
        /\ reader[r].pkg.nodes \in 0..MaxNodes
        /\ reader[r].next = reader[r].pkg.nodes + 1
    BY <1>9 DEF ImportDone, Reading, ReaderProgress, ReaderRecord, Archive
  <2>2. \A k \in 1..reader[r].pkg.nodes : FromPackage(k)
    BY <2>1 DEF LogProgress
  <2>3. imported' \in {imported, reader[r].pkg.nodes} /\ dlog' = dlog
    BY <1>9 DEF ImportDone
  <2>4. SameImports
    BY <1>9, <2>1 DEF ImportDone, SameImports, ReaderProgress, ReaderRecord
  <2>5. \A k \in 1..imported' : FromPackage(k)
    BY <2>2, <2>3 DEF LogProgress
  <2>6. ASSUME NEW q \in Readers, reader'[q].pc = "append", NEW k \in 1..(reader'[q].next - 1)
        PROVE  FromPackage(k)
    BY <2>4, <2>6 DEF SameImports, LogProgress
  <2> QED
    BY <2>1, <2>3, <2>5, <2>6 DEF LogProgress, FromPackage
<1> QED
  BY <1>1, <1>2, <1>3, <1>4, <1>5, <1>6, <1>7, <1>8, <1>9 DEF Next, Reads

----------------------------------------------------------------------------
\* No file, no call, an empty log.
LEMMA InitIInv == Init => IInv
<1> SUFFICES ASSUME Init PROVE IInv
  OBVIOUS
<1> USE NodesAssumption, FaultsAssumption, Records DEF Init
<1>1. FileTypes
  BY DEF FileTypes, Placed
<1>2. WriterProgress /\ PackageSafe
  BY DEF WriterProgress, PackageSafe, NotWriting, WithTemp, WithDest
<1>3. ReaderProgress
  BY <1>1, NotReadingProgress DEF ReaderProgress, CallProgress
<1>4. LogProgress
  <2>1. DOMAIN dlog = 1..0 /\ DOMAIN dlog = {}
    OBVIOUS
  <2>2. 0 \in 0..MaxNodes
    OBVIOUS
  <2>3. \E n \in 0..MaxNodes : DOMAIN dlog = 1..n
    BY <2>1, <2>2
  <2>4. \A r \in Readers : reader[r].pc = "idle"
    BY DEF NotReading
  <2>5. imported \in 0..MaxNodes /\ 1..imported = {}
    BY <2>2
  <2>6. \A r \in Readers : reader[r].pc # "append"
    BY <2>4
  <2> QED
    BY <2>1, <2>3, <2>5, <2>6 DEF LogProgress
<1> QED
  BY <1>1, <1>2, <1>3, <1>4 DEF IInv

\* The inductive invariant holds for ever.
THEOREM PackageInvariant == Spec => []IInv
<1>1. IInv /\ [Next]_vars => IInv'
  BY TypesStep, WriterStep, SafeStep, ReaderStep, LogStep DEF IInv
<1> QED
  BY InitIInv, <1>1, PTL DEF Spec

\* At every step of Export, Sign, Load and Import, however the calls of other
\* processes fall between: a call holds what its program point has computed.
THEOREM TypeCorrect == Spec => []TypeOK
<1>1. IInv => TypeOK
  <2> SUFFICES ASSUME IInv PROVE TypeOK
    OBVIOUS
  <2>1. {dest, bak, writer.tmp} \subseteq Archive \cup {None} /\ writer.nodes \in 0..src
    BY DEF IInv, FileTypes, Placed, WriterProgress, WriterRecord
  <2>2. DOMAIN dlog \subseteq 1..MaxNodes
    BY NodesAssumption DEF IInv, LogProgress
  <2>3. \A r \in Readers :
          /\ reader[r].pkg \in Archive /\ reader[r].next \in 1..(reader[r].pkg.nodes + 1)
          /\ reader[r].name \in {"dest", "bak"} => reader[r].pc \in {"read", "signature"}
    BY NodesAssumption DEF IInv, ReaderProgress, ReaderRecord, Archive
  <2> QED
    BY <2>1, <2>2, <2>3
    DEF IInv, FileTypes, WriterProgress, LogProgress, TypeOK, WithTemp, WithDest
<1> QED
  BY PackageInvariant, <1>1, PTL

\* What a successful Export or Sign has left is at the path or its backup until
\* the next Export, whatever Sign, its replaceFile fallback, a crash or a power
\* loss does.
THEOREM PackageKept == Spec => []PackageNotLost
<1>1. IInv => PackageNotLost
  BY DEF IInv, PackageSafe, Holds, PackageNotLost
<1> QED
  BY PackageInvariant, <1>1, PTL

\* For any number of readers: what Load returns is one package of one Export,
\* with the signature of exactly its nodes or with none.
THEOREM LoadReturnsOnePackage == Spec => []LoadedIsOnePackage
<1>1. IInv => LoadedIsOnePackage
  <2> SUFFICES ASSUME IInv, NEW r \in Readers, reader[r].pc \in {"append", "return"}
               PROVE  /\ reader[r].pkg.nodes \in 1..src
                      /\ reader[r].pkg.seals = reader[r].pkg.nodes
                      /\ reader[r].sig = IF reader[r].pkg.sig = 0 THEN 0 ELSE reader[r].pkg.nodes
    BY DEF LoadedIsOnePackage
  <2> QED
    BY NodesAssumption DEF IInv, FileTypes, ReaderProgress, ReaderRecord, Archive, Made
<1> QED
  BY PackageInvariant, <1>1, PTL

\* However many Imports stop half-way, and whatever a local run appends between:
\* the log has no hole, and an Import without an error is there in full.
THEOREM ImportLeavesNoHole == Spec => []ImportedIsWhole
<1>1. IInv => ImportedIsWhole
  <2> SUFFICES ASSUME IInv PROVE ImportedIsWhole
    OBVIOUS
  <2>1. PICK n \in 0..MaxNodes : DOMAIN dlog = 1..n
    BY DEF IInv, LogProgress
  <2>2. Cardinality(1..n) = n
    BY FS_Interval, NodesAssumption
  <2> QED
    BY <2>1, <2>2 DEF IInv, LogProgress, FromPackage, ImportedIsWhole
<1> QED
  BY PackageInvariant, <1>1, PTL

=============================================================================
