----------------------------- MODULE MCNvDrops -----------------------------
(***************************************************************************)
(* The programs NvDrops is checked on: two bindings, one loop or            *)
(* conditional, and one or two statements that use what is left.            *)
(***************************************************************************)
EXTENDS NvDrops

New(x, k) == [op |-> "new", to |-> x, lit |-> k]
Copy(x, y) == [op |-> "copy", to |-> x, from |-> y]
Add(x, y, z) == [op |-> "add", to |-> x, from |-> y, arg |-> z]
AddTo(x, z) == [op |-> "addto", to |-> x, arg |-> z]
CallOf(f, y) == [op |-> f, from |-> y]
Exit(f) == [op |-> f]
If(c, t, e) == [op |-> "if", cond |-> c, then |-> t, else |-> e]
While(c, body) == [op |-> "while", cond |-> c, body |-> body]
EachIndex(body) == [op |-> "range", cond |-> "luck", body |-> body]
EachItem(body) == [op |-> "items", cond |-> "luck", body |-> body]

Before == {<<New("a", 1), New("b", 2)>>, <<New("a", 1), Copy("b", "a")>>, <<Copy("a", "p"), New("b", 2)>>}
After == {<<CallOf("read", "a")>>, <<CallOf("read", "b"), CallOf("return", "a")>>}

Simple == {New("a", 4), Copy("a", "b"), Add("a", "a", "b"), Add("b", "a", "p"), AddTo("a", "b"),
           CallOf("read", "a"), CallOf("user", "b"), CallOf("push", "a")}
Twice == Add("b", "a", "a")

Thens == {<<New("a", 4)>>, <<Add("a", "a", "b")>>, <<Copy("a", "b"), CallOf("read", "b")>>, <<AddTo("a", "b")>>, <<AddTo("a", "p")>>,
          <<CallOf("read", "a")>>, <<Add("b", "a", "p"), If("p", <<New("a", 8)>>, <<>>)>>}
Elses == {<<>>, <<New("b", 8)>>, <<AddTo("b", "p")>>, <<AddTo("b", "a")>>}
Ifs == {If(c, t, e) : c \in {"luck", "p"}, t \in Thens, e \in Elses}

Exits == {<<Exit("break")>>, <<Exit("continue")>>, <<CallOf("user", "b"), Exit("break")>>,
          <<CallOf("read", "b"), Exit("continue")>>, <<CallOf("return", "b")>>}
Leaving == {<<s, If("luck", t, <<>>), u>> : s \in {Add("a", "a", "b"), CallOf("read", "b")}, t \in Exits,
                                            u \in {AddTo("b", "a"), Copy("a", "b")}}
IndexBodies == {<<Copy("a", "i")>>, <<Add("a", "a", "i")>>, <<AddTo("b", "i"), CallOf("read", "i")>>, <<CallOf("push", "i")>>,
                <<CallOf("read", "i"), If("luck", <<Exit("continue")>>, <<>>), AddTo("a", "i")>>,
                <<If("i", <<Add("a", "a", "i")>>, <<>>)>>}
One == {<<s>> : s \in Simple}

Loops ==
  {While("luck", body) : body \in One \union {<<Twice>>} \union {<<s>> : s \in Ifs} \union Simple \X Simple \union Leaving}
  \union {While("true", <<s, If("luck", <<Exit("break")>>, <<>>), t>>) : s, t \in Simple}
  \union {EachIndex(body) : body \in IndexBodies \union One}
  \union {EachItem(body) : body \in IndexBodies \union One}

Nested == {While("luck", <<EachIndex(body), s>>) :
             body \in {<<Add("a", "a", "i")>>, <<If("luck", <<Exit("break")>>, <<>>), AddTo("a", "b")>>},
             s \in {CallOf("read", "a"), AddTo("a", "b")}}

Programmed(middle) == {s \o <<t>> \o u : s \in Before, t \in middle, u \in After}

\* Two names of one object, one of which a loop changes.
MCAliased == Programmed({While("luck", <<s>>) : s \in {Add("a", "a", "b"), AddTo("b", "a")}})

\* A loop whose body has a loop that is left by a break.
MCInnerExits == Programmed({While("luck", <<EachIndex(<<If("luck", <<Exit("break")>>, <<>>), AddTo("a", "b")>>), CallOf("read", "a")>>)})

MCPrograms == Programmed(Loops \union Ifs \union Nested)
=============================================================================
