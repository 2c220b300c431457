----------------------------- MODULE MCStartup ------------------------------
\* Trees and arguments for Startup: server lists with entries that lack
\* something or have the same name, and trees with every kind of value.
EXTENDS Startup

Str(w) == SetValueStr(<<w>>)

\* an entry with these attributes, e. g. user1 for <<"user">>
Entry(pairs) ==
    FoldLeft(LAMBDA n, p : AddAttr(n, <<p[1]>>, Str(p[2])), Node(<<"server">>), pairs)

First ==
    {Entry(<<<<"name", "a">>, <<"host", "host1">>, <<"user", "user1">>, <<"pass", "pass1">>>>),
     Entry(<<<<"pass", "pass1">>, <<"name", "a">>, <<"user", "user1">>, <<"dir", "dir1">>>>),
     Entry(<<<<"user", "user1">>, <<"host", "host1">>, <<"name", "a">>>>),
     Entry(<<<<"name", "a">>, <<"name", "b">>, <<"host", "host1">>, <<"pass", "pass1">>>>)}

Second ==
    {Entry(<<<<"name", n>>, <<"user", "user2">>, <<"pass", "pass2">>, <<"host", "host2">>>>) :
        n \in {"a", "b"}}

MCTrees ==
    LET Root(kids) == [Node(<<"servers">>) EXCEPT !.kids = kids]
        Word == SetValueStr(<<"two", "words">>)
        Odd == SetValueStr(<<"{", "#", "nl", "=">>)
        Arr == SetValueArr(<<SetValuef("7"), Word>>)
        Vals == {Word, Odd, SetValueStr(<< >>), InitValue, SetValuef("7"), SetValuef("021"),
                 SetValuef("1234567"), Arr, SetVector(<<"7", "21">>),
                 SetValueArr(<<SetValuef("7"), SetValuef("21")>>),
                 SetValueArr(<<Arr, Odd, Word>>), SetValueArr(<<Word, Arr, Odd, Word>>)}
        Leaf(v) == AddAttr(Entry(<<<<"name", "a">>, <<"host", "host1">>>>), <<"pass">>, v)
    IN  {Root(<<x, y>>) : x \in First, y \in Second}
        \union {Root(<<Leaf(v), Node(<<"server">>)>>) : v \in Vals}
        \union {AddChild(Node(<<"other">>), AddChild(Leaf(v), Leaf(Arr))) : v \in {Word, Odd}}

MCSlips == {"{", "}", "[", "]", "=", ",", "q", "#", "nl", "7", "server", "pass"}

MCArgvs ==
    {<< >>, <<<<"a">>>>, <<<<"b">>, <<"2121">>>>, <<<<"user2", "@", "a">>, <<"65557">>>>,
     <<<<"user2", ":", "x", "@", "b">>>>, <<<<"@", "a">>>>, <<<<"a">>, <<"b">>>>,
     <<<<"-h">>>>, <<<<"a">>, <<"-x">>>>, <<<<"a">>, <<"2121">>, <<"b">>>>}
=============================================================================
