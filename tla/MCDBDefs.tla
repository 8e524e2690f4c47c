------------------------------ MODULE MCDBDefs ------------------------------
(***************************************************************************)
(* Definition texts: every short sequence of lines, behind a few starts.   *)
(***************************************************************************)
EXTENDS SchemaGen

CONSTANT MaxLines   \* bound: lines behind the columns

Blank == [kind |-> "blank"]

Bad == [kind |-> "bad"]

Column(name, type) == [kind |-> "column", name |-> name, type |-> type]

Layout(hash) == [kind |-> "layout", hashes |-> <<hash>>]

Build(list, ranges) == [kind |-> "build", builds |-> list, ranges |-> ranges]

Comment(said) == [kind |-> "comment", text |-> said]

Def(name, size, length, id) ==
    [kind |-> "definition", name |-> name, size |-> size, arrLength |-> length,
     isID |-> id, isNonInline |-> id, isRelation |-> FALSE]

VersionLines ==
    {Blank, Layout("h"), Build(<<2>>, << >>), Build(<<4>>, << <<1, 3>> >>),
     Comment(TRUE), Def("ID", 32, 0, TRUE), Def("Name", 0, 2, FALSE)}

Starts ==
    {<<Column("ID", "int"), Column("Name", "string"), Blank>>,
     <<Column("ID", "int"), Blank>>}

\* Fields of all types and sizes, alone and in pairs, for one build.
Fields ==
    {[Def("ID", size, length, id) EXCEPT !.isRelation = relation] :
        size \in {0, 8, 24, 32, 64}, length \in {0, 1, 3}, id \in BOOLEAN, relation \in BOOLEAN}
    \union {Def("Name", 0, length, other) : length \in {0, 4}, other \in BOOLEAN}

Typed ==
    {[first |-> TRUE,
      lines |-> <<Column("ID", "int"), Column("Name", type), Blank, Build(<<2>>, << >>)>> \o fields] :
        type \in {"float", "string", "locstring"},
        fields \in {<<f>> : f \in Fields}
                   \union {<<Def("ID", 32, 0, TRUE), f>> : f \in Fields}}

Odd ==
    {[first |-> FALSE, lines |-> <<Blank>>],
     [first |-> TRUE, lines |-> << >>],
     [first |-> TRUE, lines |-> <<Column("ID", "int")>>],
     [first |-> TRUE, lines |-> <<Column("ID", "int"), Column("ID", "int"), Blank>>],
     [first |-> TRUE, lines |-> <<Column("ID", "uint"), Blank>>],
     [first |-> TRUE, lines |-> <<Layout("h")>>],
     [first |-> TRUE, lines |-> <<Column("ID", "int"), Blank, Bad>>],
     [first |-> TRUE, lines |-> <<Blank, Build(<<2>>, << >>), Column("ID", "int")>>],
     [first |-> TRUE, lines |-> <<Blank, Comment(FALSE), Blank, Layout("h")>>]}

MCTexts ==
    {[first |-> TRUE, lines |-> p[1] \o p[2]] :
        p \in Starts \X UNION {[1..n -> VersionLines] : n \in 1..MaxLines}}
    \union Typed \union Odd
=============================================================================
