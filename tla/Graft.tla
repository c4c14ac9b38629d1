------------------------------- MODULE Graft -------------------------------
(***************************************************************************)
(* trajir/graft: a reference to an artifact of one trajectory is appended  *)
(* to the log of another, at a slot the caller chooses.  The source goes   *)
(* on growing, and the caller may repeat the call.                         *)
(*                                                                         *)
(* Of a source node the model keeps its slot (kind, step, seq), the content*)
(* hash in its payload and one field of metadata, logical_path, which may  *)
(* be missing; uri and the source trajectory are treated alike.            *)
(*                                                                         *)
(* "Variant" definitions are the following one with a mistake in it.       *)
(***************************************************************************)
EXTENDS NodeSlots, SlotStore, FiniteSets

CONSTANTS
    Hash,        \* content hashes
    Paths,       \* logical paths, "" among them
    Missing,     \* no logical_path in a payload
    MaxSource    \* bound on the number of nodes of the source trajectory

ASSUME SourceAssumption == MaxSource \in Nat

VARIABLES
    source,   \* nodes of the source trajectory
    target,   \* log of the target trajectory: the slot of the graft -> payload
    graft     \* history: the answer of the last call, whether it repeated the one
              \* whose node is in the slot, and that call with the nodes it saw

graftVars == <<source, target, graft>>

PrivateKinds  == {"THOUGHT"}
ArtifactKinds == {"ARTIFACT_PUT", "ARTIFACT_REF"}
SourceNode    == [kind : PrivateKinds \cup ArtifactKinds \cup {"TOOL_RESULT"},
                  step : StepN, seq : Seqs, hash : Hash, path : Paths \cup {Missing}]

\* GraftOptions: LogicalPath, HasLogicalPath, and whether SourceNodes are given.
Options == [hash : Hash, path : Paths, has : BOOLEAN, nodes : BOOLEAN]

NoOptions == [hash |-> "", path |-> "", has |-> FALSE, nodes |-> FALSE]

GraftInit ==
    /\ source = {}
    /\ target = [k \in {} |-> ""]
    /\ graft = [ans |-> "none", again |-> FALSE, opts |-> NoOptions, had |-> {}]

\* The source's own log, in which a node may come at any free slot.
SourceAppend ==
    /\ Cardinality(source) < MaxSource
    /\ \E n \in SourceNode : /\ \A m \in source : ~SameSlot(m, n)
                             /\ source' = source \cup {n}
    /\ graft' = [graft EXCEPT !.ans = "none", !.again = FALSE]
    /\ UNCHANGED target

----------------------------------------------------------------------------
Rank(n) == IF n.kind = "ARTIFACT_REF" THEN 0 ELSE 1

\* The stable sort, by rank and seq, of what the log lists by step and seq: of
\* two nodes with the same rank and seq the one of the earlier step, or of none,
\* is in front.
Ahead(m, n) ==
    \/ Rank(m) < Rank(n)
    \/ Rank(m) = Rank(n) /\ m.seq < n.seq
    \/ Rank(m) = Rank(n) /\ m.seq = n.seq /\ m.step < n.step

Holders(kinds, h) == {n \in source : n.kind \in kinds /\ n.hash = h}

\* Variant: any node with the hash will do.
MatchesAnyKind(h) == {n \in source : n.hash = h}

Matches(h) == Holders(ArtifactKinds, h)

\* Variant: the last match.
FindLastArtifactRef(h) == CHOOSE m \in Matches(h) : \A n \in Matches(h) \ {m} : Ahead(n, m)

FindArtifactRef(h) == CHOOSE m \in Matches(h) : \A n \in Matches(h) \ {m} : Ahead(m, n)

\* The call ends with ans.
Answered(opts, ans) ==
    graft' = IF ans = "stored"
             THEN [ans |-> ans, again |-> FALSE, opts |-> opts,
                   had |-> {n \in source : n.hash = opts.hash}]
             ELSE [graft EXCEPT !.ans = ans, !.again = opts = graft.opts]

Refuse(opts) ==
    /\ opts.nodes
    /\ \/ Holders(PrivateKinds, opts.hash) # {} /\ Answered(opts, "private")
       \/ Holders(PrivateKinds, opts.hash) = {} /\ Matches(opts.hash) = {} /\ Answered(opts, "notFound")
    /\ UNCHANGED <<source, target>>

\* The path of src, unless the caller says that it has one or src has none; an
\* empty path is left out unless the caller wants it.
RefPath(opts, src) ==
    LET path == IF opts.nodes /\ ~opts.has /\ src.path # Missing THEN src.path ELSE opts.path
    IN  IF path # "" \/ opts.has THEN path ELSE Missing

\* Append decides.
AppendRef(opts) ==
    /\ opts.nodes => Holders(PrivateKinds, opts.hash) = {} /\ Matches(opts.hash) # {}
    /\ LET payload == <<opts.hash, RefPath(opts, FindArtifactRef(opts.hash))>>
       IN  /\ target' = PutIfAbsent(target, "slot", payload)
           /\ Answered(opts, CASE SlotConflict(target, "slot", payload) -> "conflict"
                               [] "slot" \notin DOMAIN target           -> "stored"
                               [] OTHER                                 -> "replayed")
    /\ UNCHANGED source

GraftArtifactRef == \E opts \in Options : Refuse(opts) \/ AppendRef(opts)

GraftNext == SourceAppend \/ GraftArtifactRef

GraftSpec == GraftInit /\ [][GraftNext]_graftVars

----------------------------------------------------------------------------
\* graft.go, "Never copies THOUGHT (or other private kinds)": what a graft that
\* looked at the source has put into the target is the caller's own or metadata
\* of an artifact node the source had then, and no thought of the source had the
\* same content.
GraftIsPublic ==
    "slot" \in DOMAIN target /\ graft.opts.nodes =>
       /\ \A n \in graft.had : n.kind \notin PrivateKinds
       /\ \E n \in graft.had : /\ n.kind \in ArtifactKinds
                               /\ target["slot"][2] \in {graft.opts.path, n.path, Missing}

\* A graft that is repeated is a replay.  It conflicts with its own first run
\* only when the path is the source's and the source has since got a node that
\* FindArtifactRef puts in front of all it had: a reference, one with a lower
\* seq, or one with the same seq at an earlier step or without a step.  A node
\* that is merely newer makes no conflict.
RetryConflictsOnlyWithNewer ==
    LET now == Matches(graft.opts.hash)
    IN  graft.ans = "conflict" /\ graft.again =>
          /\ graft.opts.nodes /\ ~graft.opts.has
          /\ \E n \in now \ graft.had : \A m \in now \cap graft.had : Ahead(n, m)

=============================================================================
