------------------------------- MODULE Redact -------------------------------
(***************************************************************************)
(* trajir/redact: what is scrubbed from a payload or a projected context   *)
(* before it leaves the trajectory.  What was scrubbed once may be         *)
(* scrubbed again on its way.                                              *)
(*                                                                         *)
(* A Go value is a tree [tag, kids]: a map[string]any, a []any (its labels *)
(* stand for positions), a container of any other type ("typed", such as   *)
(* []map[string]any), which the code does not look into, or a leaf without *)
(* kids.  The two regular expressions are the keys that name a secret, and *)
(* the leaf shaped like one.                                               *)
(*                                                                         *)
(* "Variant" definitions are the following one with a mistake in it.       *)
(***************************************************************************)
EXTENDS Naturals, Sequences

CONSTANTS
    FieldNames,   \* keys of maps
    SecretKeys,   \* those that name a secret
    Values,       \* values
    Nesting,      \* how deep each of them is nested
    Contexts      \* the contexts to scrub

Tree(tag, kids) == [tag |-> tag, kids |-> kids]
Leaf(tag)       == Tree(tag, << >>)
Redacted        == Leaf("[REDACTED]")
Flag            == Leaf("true")

ASSUME KeysAssumption ==
    SecretKeys \subseteq FieldNames /\ "redacted" \in FieldNames \ SecretKeys

\* Values are finite trees.  Other values, no deeper, in the place of the ones in
\* a map or list make a value that is no deeper.
ASSUME ValuesAssumption ==
    /\ Nesting \in [Values -> Nat]
    /\ {Redacted, Flag} \subseteq Values
    /\ \A v \in Values :
          /\ v = Tree(v.tag, v.kids)
          /\ v.kids \in [DOMAIN v.kids -> Values]
          /\ v.tag = "map" => DOMAIN v.kids \subseteq FieldNames
          /\ v.tag \notin {"map", "list", "typed"} => DOMAIN v.kids = {}
          /\ Nesting[Redacted] <= Nesting[v]
          /\ \A k \in DOMAIN v.kids : Nesting[v.kids[k]] < Nesting[v]
          /\ v.tag \in {"map", "list"} =>
                \A f \in [DOMAIN v.kids -> Values] :
                   (\A k \in DOMAIN f : Nesting[f[k]] <= Nesting[v.kids[k]]) =>
                      Tree(v.tag, f) \in Values /\ Nesting[Tree(v.tag, f)] <= Nesting[v]

\* Variant: lists are not looked into.
RedactLevelSkipsLists(redact, key, value) ==
    IF key \in SecretKeys THEN Redacted
    ELSE CASE value.tag = "map"    ->
                 Tree("map", [k \in DOMAIN value.kids |-> redact[value.kids[k]][k]])
           [] value.tag = "secret" -> Redacted
           [] OTHER                -> value

\* A secret key hides its whole value; a list hands its key on.  What is neither
\* map[string]any nor []any nor a string is returned as it is, with all it holds.
RedactLevel(redact, key, value) ==
    IF key \in SecretKeys THEN Redacted
    ELSE CASE value.tag = "map"    ->
                 Tree("map", [k \in DOMAIN value.kids |-> redact[value.kids[k]][k]])
           [] value.tag = "list"   ->
                 Tree("list", [k \in DOMAIN value.kids |-> redact[value.kids[k]][key]])
           [] value.tag = "secret" -> Redacted
           [] OTHER                -> value

RedactValue[value \in Values] ==
    [key \in FieldNames |-> RedactLevel(RedactValue, key, value)]

RedactMap(m) == Tree("map", [k \in DOMAIN m.kids |-> RedactValue[m.kids[k]][k]])

With(m, key, value) ==
    Tree(m.tag, [k \in DOMAIN m.kids \cup {key} |-> IF k = key THEN value ELSE m.kids[k]])

Marker == Tree("map", [k \in {"redacted"} |-> Flag])

RedactPayload(kind, payload) ==
    IF kind # "THOUGHT" /\ payload.tag = "map" THEN RedactMap(payload) ELSE Marker

----------------------------------------------------------------------------
\* A context is nil ("nil"), has a []any of items beside its other fields
\* ("items"), or is any other map ("map"), such as the one ProjectContext returns,
\* whose items are a []map[string]any.  What is in the list of items and is no
\* item has no kind.
Context(form, map, items) == [form |-> form, map |-> map, items |-> items]

IsMap(m) ==
    /\ m = Tree("map", m.kids)
    /\ DOMAIN m.kids \subseteq FieldNames /\ m.kids \in [DOMAIN m.kids -> Values]

IsItem(it) ==
    /\ it = [kind |-> it.kind, payload |-> it.payload]
    /\ it.kind \in {"THOUGHT", "TOOL_RESULT", "none"}
    /\ it.payload \in Values \/ IsMap(it.payload)

IsContext(c) ==
    /\ c = Context(c.form, c.map, c.items)
    /\ IsMap(c.map)
    /\ \/ /\ c.form = "items" /\ "items" \notin DOMAIN c.map.kids
          /\ Len(c.items) \in Nat /\ c.items = [i \in 1..Len(c.items) |-> c.items[i]]
          /\ \A i \in 1..Len(c.items) : IsItem(c.items[i])
       \/ /\ c.form \in {"nil", "map"} /\ c.items = << >>
          /\ "items" \in DOMAIN c.map.kids => c.map.kids["items"].tag # "list"

ASSUME ContextsAssumption == \A c \in Contexts : IsContext(c)

VARIABLES
    ctx,        \* the context to scrub
    pass,       \* 2 when it was scrubbed before
    stage,      \* "items", in the loop over the items, or "done"
    newItems,   \* what the loop has put together
    from,       \* history: where in ctx.items each of them was
    past,       \* items the loop has come past
    out         \* what is returned

redactVars == <<ctx, pass, stage, newItems, from, past, out>>

Nil == Context("nil", Marker, << >>)

RedactStart ==
    /\ pass = 1
    /\ stage = "items"
    /\ newItems = << >> /\ from = << >> /\ past = 0
    /\ out = Nil

RedactInit == ctx \in Contexts /\ RedactStart

\* nil, or a map without a []any of items: its top-level keys are scrubbed.  (A
\* field that was no list is none afterwards.)
RedactFields ==
    /\ stage = "items" /\ ctx.form # "items"
    /\ stage' = "done"
    /\ out' = Context("map", IF ctx.form = "nil" THEN Marker
                             ELSE With(RedactMap(ctx.map), "redacted", Flag), << >>)
    /\ UNCHANGED <<ctx, pass, newItems, from, past>>

RedactItem ==
    /\ stage = "items" /\ ctx.form = "items" /\ past < Len(ctx.items)
    /\ past' = past + 1
    /\ LET it == ctx.items[past + 1]
       IN  \/ it.kind = "none" /\ UNCHANGED <<newItems, from>>
           \/ /\ it.kind # "none"
              /\ newItems' = Append(newItems, [it EXCEPT !.payload = RedactPayload(it.kind, it.payload)])
              /\ from' = Append(from, past + 1)
    /\ UNCHANGED <<ctx, pass, stage, out>>

ReturnItems ==
    /\ stage = "items" /\ ctx.form = "items" /\ past = Len(ctx.items)
    /\ stage' = "done"
    /\ out' = Context("items", With(ctx.map, "redacted", Flag), newItems)
    /\ UNCHANGED <<ctx, pass, newItems, from, past>>

\* What was returned is given to RedactProjectionContext once more.
RedactAgain ==
    /\ stage = "done" /\ pass = 1
    /\ ctx' = out /\ pass' = 2 /\ stage' = "items"
    /\ newItems' = << >> /\ from' = << >> /\ past' = 0
    /\ UNCHANGED out

RedactNext == RedactFields \/ RedactItem \/ ReturnItems \/ RedactAgain

RedactSpec == RedactInit /\ [][RedactNext]_redactVars

----------------------------------------------------------------------------
(* Reference: what a scrubbed tree may show, typed containers set aside.   *)

Clean[v \in Values] ==
    /\ v.tag # "secret"
    /\ v.tag # "typed" =>
         \A k \in DOMAIN v.kids :
            IF v.tag = "map" /\ k \in SecretKeys THEN v.kids[k] = Redacted ELSE Clean[v.kids[k]]

CleanMap(m) ==
    \A k \in DOMAIN m.kids : IF k \in SecretKeys THEN m.kids[k] = Redacted ELSE Clean[m.kids[k]]

\* b is a with its secrets, and nothing else, replaced; a typed container is as it
\* was.
OnlySecretsGone[a \in Values] ==
    [b \in Values |->
       \/ a.tag = "secret" /\ b = Redacted
       \/ a.tag = "typed" /\ b = a
       \/ /\ a.tag = b.tag /\ a.tag # "typed"
          /\ DOMAIN a.kids = DOMAIN b.kids
          /\ \A k \in DOMAIN a.kids :
                \/ a.tag = "map" /\ k \in SecretKeys
                \/ OnlySecretsGone[a.kids[k]][b.kids[k]]]

OnlySecretsGoneInMap(a, b) ==
    /\ a.tag = b.tag
    /\ DOMAIN a.kids = DOMAIN b.kids
    /\ \A k \in DOMAIN a.kids : k \in SecretKeys \/ OnlySecretsGone[a.kids[k]][b.kids[k]]

\* What redaction (R08) does to every context.  In a scrubbed free-form context and
\* in any payload of a scrubbed item no secret-shaped string and no value under a
\* secret key is left that can be reached through map[string]any and []any, however
\* deep, and thoughts are gone whole.  Nothing else is changed: every other field
\* keeps its place and value, the items are those that were there, each of them, in
\* their order, and scrubbing again changes nothing.
\* This is less than README's R08, "Redaction removes secrets/flagged content from
\* what gets projected into context": a container of any other type under a
\* harmless key comes back as it was, secrets and thoughts included, and the items
\* of the map[string]any that ProjectContext itself returns, a []map[string]any,
\* are such a container.
SecretsRedacted ==
    stage = "done" =>
       /\ out.form = "map" => CleanMap(out.map)
       /\ ctx.form = "map" => OnlySecretsGoneInMap(With(ctx.map, "redacted", Flag), out.map)
       /\ DOMAIN out.items = DOMAIN from
       /\ \A i, j \in DOMAIN from : i < j => from[i] < from[j]
       /\ {from[i] : i \in DOMAIN from} = {i \in DOMAIN ctx.items : ctx.items[i].kind # "none"}
       /\ \A i \in DOMAIN from :
             LET it == ctx.items[from[i]]  new == out.items[i]
             IN  /\ new.kind = it.kind /\ CleanMap(new.payload)
                 /\ IF it.kind # "THOUGHT" /\ it.payload.tag = "map"
                    THEN OnlySecretsGoneInMap(it.payload, new.payload)
                    ELSE new.payload = Marker
       /\ pass = 2 => out = ctx

=============================================================================
