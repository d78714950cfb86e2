------------------------------- MODULE MCView -------------------------------
(* A model-checking instance of View: pages of up to two layouts, each of  *)
(* either kind of engine, that pause, sleep and render partials at every   *)
(* place; partials that pause or sleep.                                    *)
EXTENDS View

T(items) == [items |-> items, friendly |-> TRUE]
Tilt(items) == [items |-> items, friendly |-> FALSE]

PageItems == {<<>>, <<"text">>, <<"text", "pause", "text">>, <<"pause", "text">>,
              <<"text", "sleep", "text", "sleep", "text">>,
              <<"text", "partial", "text">>, <<"partial", "pause", "text">>}
LayoutItems == {<<"text", "yield", "text">>, <<"text", "partial", "yield">>,
                <<"yield", "pause", "text", "yield">>, <<"text">>,
                <<"partial", "yield", "text", "pause">>,
                <<"sleep", "text", "yield", "sleep">>}
PartialItems == {<<"text", "pause", "text">>, <<"text", "sleep", "text">>}

Pages == {T(i) : i \in PageItems} \cup {Tilt(i) : i \in PageItems}
Layouts == {T(i) : i \in LayoutItems} \cup {Tilt(<<"text", "yield", "text">>)}

MCDocuments ==
  {[page |-> p, layouts |-> l, partial |-> T(i)] :
     p \in Pages, i \in PartialItems,
     l \in {<<>>} \cup {<<x>> : x \in Layouts}
                  \cup {<<x, y>> : x \in Layouts, y \in Layouts}}
=============================================================================
