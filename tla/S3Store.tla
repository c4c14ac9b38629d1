------------------------------ MODULE S3Store ------------------------------
(***************************************************************************)
(* trajir/cas on an S3 bucket, beside the store on a directory: the same   *)
(* callers, one of the two stores under them.  Put asks with HeadObject    *)
(* whether the object is there and sends it with PutObject if not; nothing *)
(* is read back.  Rehydrate works on either store.                         *)
(*                                                                         *)
(* A request may fail on its way.  The service then has not seen it, has   *)
(* done it, or does it later: after the caller was told of an error, has   *)
(* retried, or has died.  The service replaces an object in one step and   *)
(* does not lose one.                                                      *)
(***************************************************************************)
EXTENDS CasFileSystem

VARIABLES
    store,   \* "fs" or "s3"
    late     \* hashes with a PutObject request still under way

s3Vars == <<vars, store, late>>

StoreInit == Init /\ store \in {"fs", "s3"} /\ late = {}

----------------------------------------------------------------------------
(* S3Store.Put                                                             *)

Upload(h) == obj' = [obj EXCEPT ![h] = Complete]

StartS3Put(p) ==
    /\ At(p, "idle")
    /\ \E h \in Written : put' = [put EXCEPT ![p] = [NoPut EXCEPT !.pc = "head", !.hash = h]]
    /\ UNCHANGED <<obj, tmp, sweep, reader, acked, flipped, orphans, faults, late>>

\* Has: an object that is there counts as stored, whatever its bytes.
S3Has(p) ==
    /\ At(p, "head")
    /\ IF Present(Hash(p)) THEN Return(p, "ok") ELSE Goto(p, "upload") /\ UNCHANGED acked
    /\ UNCHANGED <<obj, tmp, sweep, reader, flipped, orphans, faults, late>>

\* A failed HeadObject looks like a missing object.
S3HasFails(p) ==
    /\ At(p, "head")
    /\ Fault
    /\ Goto(p, "upload")
    /\ UNCHANGED <<obj, tmp, sweep, reader, acked, flipped, orphans, late>>

S3Put(p) ==
    /\ At(p, "upload")
    /\ Upload(Hash(p))
    /\ Return(p, "ok")
    /\ UNCHANGED <<tmp, sweep, reader, flipped, orphans, faults, late>>

\* Variant: an error of PutObject is dropped.
S3PutFailsUnseen(p) ==
    /\ At(p, "upload")
    /\ Fault
    /\ late' \in {late, late \cup {Hash(p)}}
    /\ Return(p, "ok")
    /\ UNCHANGED <<obj, tmp, sweep, reader, flipped, orphans>>

\* PutObject returns an error; the request may still be under way.
S3PutFails(p) ==
    /\ At(p, "upload")
    /\ Fault
    /\ late' \in {late, late \cup {Hash(p)}}
    /\ Return(p, "error")
    /\ UNCHANGED <<obj, tmp, sweep, reader, flipped, orphans>>

S3Crash(p) ==
    /\ ~At(p, "idle")
    /\ Fault
    /\ late' \in {late, late \cup (IF At(p, "upload") THEN {Hash(p)} ELSE {})}
    /\ put' = [put EXCEPT ![p] = NoPut]
    /\ UNCHANGED <<obj, tmp, sweep, reader, acked, flipped, orphans>>

\* The service gets to a request nobody waits for any more.
S3LatePut(h) ==
    /\ h \in late
    /\ Upload(h)
    /\ late' = late \ {h}
    /\ UNCHANGED <<tmp, put, sweep, reader, acked, flipped, orphans, faults>>

----------------------------------------------------------------------------
\* Get: a body that arrives damaged fails the comparison of hashes.
S3GetDamaged(r) ==
    /\ reader[r].pc = "get" /\ reader[r].todo # << >>
    /\ Head(reader[r].todo) \notin reader[r].got
    /\ Present(Head(reader[r].todo))
    /\ Fault
    /\ Give(r, "integrity")
    /\ UNCHANGED <<obj, tmp, put, sweep, acked, flipped, orphans, late>>

S3Next ==
    \/ \E p \in Putters :
          \/ StartS3Put(p) \/ S3Has(p) \/ S3HasFails(p) \/ S3Put(p)
          \/ S3PutFails(p) \/ S3Crash(p)
          \/ EndPut(p) /\ UNCHANGED late
    \/ \E h \in Hashes : S3LatePut(h) \/ (BitFlip(h) /\ UNCHANGED late)
    \/ \E r \in Readers :
          \/ S3GetDamaged(r)
          \/ (StartRehydrate(r) \/ Get(r) \/ GetFails(r) \/ EndRehydrate(r)) /\ UNCHANGED late

StoreNext ==
    /\ \/ store = "fs" /\ Next /\ UNCHANGED late
       \/ store = "s3" /\ S3Next
    /\ UNCHANGED store

StoreSpec == StoreInit /\ [][StoreNext]_s3Vars

=============================================================================
