---------------------------- MODULE MCProjector ----------------------------
(* Small instances of the projector and of the other sequential algorithms.*)
EXTENDS Tasks, TLC

\* Trees of one level below the context or the payload: of what may be given
\* and, with what scrubbing puts there, of what may be returned.  Typed holds a
\* secret, and Projected, the items as ProjectContext gives them, an item with one.
Maps(names, V) == UNION {{Tree("map", f) : f \in [D -> V]} : D \in SUBSET names}
Lists(V)       == UNION {{Tree("list", f) : f \in [D -> V]} : D \in {{}, {"l0"}, {"l0", "l1"}}}
OneLevel(V)    == V \cup Maps({"password", "note"}, V) \cup Lists(V)

Typed     == Tree("typed", "l0" :> Leaf("secret"))
Projected == Tree("typed", "l0" :> Tree("map", "password" :> Leaf("plain")))

Given     == OneLevel({Leaf("plain"), Leaf("secret"), Leaf("number"), Typed})
MCValues  == OneLevel({Leaf("plain"), Leaf("secret"), Leaf("number"), Typed, Redacted, Flag})
             \cup {Projected}
MCNesting == [v \in MCValues |-> CASE v = Projected             -> 3
                                   [] v.tag \in {"map", "list"} -> 2
                                   [] v = Typed                 -> 1
                                   [] OTHER                     -> 0]

Payloads == Maps({"password", "note"}, Given) \cup {Leaf("plain"), Typed}
Items    == [kind : {"THOUGHT", "TOOL_RESULT", "none"}, payload : Payloads]
NoItem   == [kind |-> "none", payload |-> Leaf("plain")]
Empty    == Tree("map", << >>)

NoItemList == {v \in Given : v.tag # "list"} \cup {Projected}

MCContexts ==
         {Nil}
    \cup {Context("map", m, << >>) : m \in Maps({"password", "note"}, Given)
                                       \cup Maps({"redacted"}, Given)
                                       \cup Maps({"items", "note"}, NoItemList)}
    \cup {Context("items", Empty, <<it>>) : it \in Items}
    \cup {Context("items", Empty, <<NoItem, it>>) : it \in Items}

----------------------------------------------------------------------------
(* File trees and calls of the MCP tools: a link in the root that leads     *)
(* out of it, to a directory in it, to the root itself or to nothing; a     *)
(* database file that is missing, there, or a link; a root that is named    *)
(* through a link.                                                          *)

MCName == {"w", "o", "wl", "gone", "d", "l", "x", "..s", "f"} \cup Databases

Dir      == [kind |-> "dir", to |-> << >>]
File     == [kind |-> "file", to |-> << >>]
Link(to) == [kind |-> "link", to |-> to]

Fixed ==
    [p \in {<<"w">>, <<"o">>, <<"w", "d">>, <<"w", "..s">>} |-> Dir]
    @@ [p \in {<<"w", "f">>, <<"o", "f">>} |-> File] @@ (<<"wl">> :> Link(<<"w">>))

Links == {<<"w", "l">> :> Link(to) : to \in {<<"o">>, <<"w", "d">>, <<"w">>, Nowhere, <<"o", "f">>}}
Bases == {<<"w", "d", "nodes.sqlite">> :> e : e \in {File, Link(<<"o", "f">>), Link(<<"w", "f">>)}}

MCFileTrees ==
    {Fixed} \cup {Fixed @@ l : l \in Links} \cup {Fixed @@ b : b \in Bases}
            \cup {Fixed @@ l @@ b : l \in Links, b \in Bases}

Relative(ns) == [abs |-> FALSE, names |-> ns]
Absolute(ns) == [abs |-> TRUE, names |-> ns]

MCEnvs     == {<<"w">>, <<"wl">>, <<"gone">>}
MCWorkDirs ==
    {Relative(ns) : ns \in {<< >>, <<"d">>, <<"l">>, <<"..">>, <<"..s">>, <<"x">>, <<"f">>, <<"l", "d">>}}
    \cup {Absolute(ns) : ns \in {<<"w", "d">>, <<"o">>, <<"wl", "d">>}}
MCDests ==
    LET names == {"..", "d", "l", "x", "..s", "f"}
    IN  {Relative(ns) : ns \in {<< >>} \cup {<<n>> : n \in names} \cup (names \X names)}
        \cup {Absolute(ns) : ns \in {<<"w", "x">>, <<"o", "x">>, <<"w", "d", "x">>, <<"w", "l", "x">>}}

=============================================================================
