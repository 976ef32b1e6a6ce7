------------------------------ MODULE ChecksMC ------------------------------
(* Two projects; the setups are named for what they are about.             *)
EXTENDS Checks

CONSTANTS p, q

MCNames == <<"STDC_HEADERS", "a", "a.h", "b", "c", "d", "decl", "e", "f", "main(){}", "size_t",
             "stdc", "stdlib.h", "symbol", "text", "type", "var">>
MCStem == [n \in ToSet(MCNames) |-> n]

Fn(n) == Entry("Function", "scalar", n, "", <<>>, "")
Inc(h) == Entry("Include", "scalar", h, "", <<>>, "")
Sym(n) == Entry("Symbol", "pair", n, "a.h", <<>>, "")
Src(key, text, flag) == Entry(key, "map", "var", text, <<>>, flag)

SharedFunctions == p :> << <<Fn("a"), Sym("b")>> >> @@ q :> << <<Fn("a"), Fn("c")>> >>
Declarations ==
    p :> << <<Entry("Decl", "pair", "c", "a.h", <<>>, "")>>, <<Inc("a.h")>> >>
    @@ q :> << <<Inc("a.h"), Entry("Decl", "scalar", "b", "", <<>>, "")>> >>
InvertedSource == p :> << <<Src("CSourceRuns", "text", "true"), Fn("a")>> >> @@ q :> << <<Fn("c")>> >>
Forms ==
    p :> << <<Entry("Type", "scalar", "b", "", <<>>, ""), Entry("Type", "pair", "c", "a.h", <<>>, ""),
              Entry("StructMember", "pair", "a", "b", <<>>, ""),
              Entry("Include", "map", "a.h", "var", <<>>, "true")>>,
            <<Entry("Type", "scalar", "size_t", "", <<>>, "")>> >>
    @@ q :> << <<>> >>
OtherForms ==
    p :> << <<Entry("LibraryFunction", "map", "d", "b", <<>>, ""),
              Entry("Symbol", "map", "a", "", <<>>, "true"),
              Entry("Function", "map", "e", "", <<"a.h">>, ""),
              Entry("Library", "scalar", "c", "", <<>>, "")>>,
            <<Fn("f"), Src("CXXSourceCompiles", "main(){}", "")>> >>
    @@ q :> << <<>> >>

TwoHeaders == p :> << <<Sym("a")>> >>
    @@ q :> << <<Entry("Symbol", "pair", "a", "stdlib.h", <<>>, ""), Inc("stdlib.h")>> >>

MCSetups == [two_headers |-> TwoHeaders, shared |-> SharedFunctions,
             declarations |-> Declarations, inverted |-> InvertedSource,
             forms |-> Forms, other_forms |-> OtherForms]

probe(t, n, of, hs) == [type |-> t, what |-> n, of |-> of, headers |-> hs]
Everything ==
    {probe(t, n, of, hs) : t \in ToSet(Types), n \in ToSet(MCNames), of \in {"", "b"},
                           hs \in SUBSET {"a.h", "stdlib.h"}}
NoHeader == {x \in Everything : x.type # "Include" /\ "a.h" \notin x.headers}
DeclInHeader == {x \in Everything : x.type = "Decl" => "a.h" \in x.headers}
NotInStdlib == {x \in Everything : ~(x.type = "Symbol" /\ "stdlib.h" \in x.headers)}
MCWorlds == [everything |-> Everything, nothing |-> {}, no_header |-> NoHeader,
             decl_in_header |-> DeclInHeader, not_in_stdlib |-> NotInStdlib]
MCCases ==
    ({"shared", "declarations", "inverted"}
        \X {"everything", "nothing", "no_header", "decl_in_header"})
    \cup {"forms", "other_forms"} \X {"everything", "no_header"}
    \cup {<<"two_headers", "not_in_stdlib">>}

(* What CheckerCorrect asks of the entries.                                *)
ASSUME EntriesRereadable ==
    \A s \in DOMAIN Setups : \A x \in Procs : Rereadable(Roots[s][x])
=============================================================================
