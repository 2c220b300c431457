------------------------------- MODULE TsText -------------------------------
(***************************************************************************)
(* Trees as text (src/ts_text.c).  A file is a sequence of lexemes: words, *)
(* numbers, symbols, the quote "q", "#" and the line end "nl"; words that  *)
(* follow each other are apart.  next_token, the descent of read_node,     *)
(* read_array and read_value, and ts_text_save.                            *)
(***************************************************************************)
EXTENDS TreeStor

CONSTANT MaxVal     \* how many values read_array keeps (31 in the code)

Syms == {"{", "}", "[", "]", "=", ","}

-----------------------------------------------------------------------------
\* the first place from i on with this lexeme, or the end of the file
Find(f, i, lexeme) ==
    LET at == {k \in i..Len(f) : f[k] = lexeme}
    IN  IF at = {} THEN Len(f) + 1 ELSE CHOOSE k \in at : \A m \in at : k <= m

\* where the next token starts: after line ends and comments
RECURSIVE SkipSpace(_, _)
SkipSpace(f, i) ==
    IF i > Len(f) THEN i
    ELSE CASE f[i] = "nl" -> SkipSpace(f, i + 1)
           [] f[i] = "#" -> SkipSpace(f, Find(f, i, "nl"))
           [] OTHER -> i

\* next_token; "eof" is its -1, also within a string that does not end
NextToken(f, from) ==
    LET i == SkipSpace(f, from)
        end == Find(f, i + 1, "q")
        One(type) == [type |-> type, text |-> <<f[i]>>, next |-> i + 1]
        Eof == [type |-> "eof", text |-> << >>, next |-> Len(f) + 1]
    IN  IF i > Len(f) \/ (f[i] = "q" /\ end > Len(f)) THEN Eof
        ELSE CASE f[i] = "q" -> [type |-> "str", next |-> end + 1,
                                 text |-> SubSeq(f, i + 1, end - 1)]
               [] f[i] \in Nums -> One("num")
               [] f[i] \in Syms -> One("sym")
               [] OTHER -> One("id")

IsSym(tok, s) == tok.type = "sym" /\ tok.text = <<s>>

-----------------------------------------------------------------------------
Failed == [ok |-> FALSE]

Read(x, next) == [ok |-> TRUE, res |-> x, next |-> next]

\* the array's values when it ends; none and one are errors
ArrayOf(vals, next) ==
    IF Len(vals) <= 1 THEN Failed ELSE Read(SetValueArr(vals), next)

\* Faulty form: one value fewer is kept.
KeepFewer(vals, v) == IF Len(vals) < MaxVal - 1 THEN Append(vals, v) ELSE vals
Keep(vals, v) == IF Len(vals) < MaxVal THEN Append(vals, v) ELSE vals

RECURSIVE ReadValue(_, _), ReadArray(_, _, _, _)

\* the value that tok begins; a symbol that does not begin one is taken for a
\* value without a string
ReadValue(f, tok) ==
    IF IsSym(tok, "[") THEN ReadArray(f, tok.next, "]", << >>)
    ELSE IF IsSym(tok, "{") THEN ReadArray(f, tok.next, "}", << >>)
    ELSE CASE tok.type = "num" -> Read(SetValuef(tok.text[1]), tok.next)
           [] tok.type = "sym" -> Read(InitValue, tok.next)
           [] OTHER -> Read(SetValueStr(tok.text), tok.next)

ReadArray(f, i, endsym, vals) ==
    LET tok == NextToken(f, i)
        r == ReadValue(f, tok)
        sep == NextToken(f, r.next)
        now == Keep(vals, r.res)
    IN  IF tok.type = "eof" THEN ArrayOf(vals, tok.next)
        ELSE IF ~r.ok THEN Failed
        ELSE CASE IsSym(sep, endsym) -> ArrayOf(now, sep.next)
               [] IsSym(sep, ",") -> ReadArray(f, sep.next, endsym, now)
               [] OTHER -> Failed

RECURSIVE ReadNode(_, _, _)

\* read_node, with what it has read so far in node
ReadNode(f, i, node) ==
    LET id == NextToken(f, i)
        op == NextToken(f, id.next)
        rhs == NextToken(f, op.next)
        val == ReadValue(f, rhs)
        child == ReadNode(f, op.next, Node(id.text))
    IN  IF IsSym(id, "}") THEN Read(node, id.next)
        ELSE IF id.type # "id" THEN Failed
        ELSE CASE IsSym(op, "=") ->
                    IF rhs.type = "eof" \/ ~val.ok THEN Failed
                    ELSE ReadNode(f, val.next, AddAttr(node, id.text, val.res))
               [] IsSym(op, "{") ->
                    IF ~child.ok THEN Failed
                    ELSE ReadNode(f, child.next, AddChild(node, child.res))
               [] OTHER -> Failed

\* ts_text_load; what follows the root is not read
Load(f) ==
    LET id == NextToken(f, 1)
        sym == NextToken(f, id.next)
    IN  IF id.type # "id" \/ ~IsSym(sym, "{") THEN Failed
        ELSE ReadNode(f, sym.next, Node(id.text))

-----------------------------------------------------------------------------
\* lists of texts with commas between them
Comma(texts) ==
    FlattenSeq([i \in DOMAIN texts |-> IF i = 1 THEN texts[1] ELSE <<",">> \o texts[i]])

\* print_value
RECURSIVE PrintValue(_)
PrintValue(v) ==
    CASE v.type = "number" -> Printed[v.num]
      [] v.type = "vector" ->
            <<"[">> \o Comma([i \in 1..v.vec_size |-> Printed[v.vec[i]]]) \o <<"]">>
      [] v.type = "array" ->
            <<"[">> \o Comma([i \in DOMAIN v.array |-> PrintValue(v.array[i])]) \o <<"]">>
      [] OTHER -> <<"q">> \o (IF v.str = Null THEN <<"(null)">> ELSE v.str) \o <<"q">>

PrintAttr(attr) == attr.name \o <<"=">> \o PrintValue(attr.val) \o <<"nl">>

\* ts_text_save
RECURSIVE Save(_)
Save(tree) ==
    tree.name \o <<"{", "nl">>
    \o FlattenSeq([i \in DOMAIN tree.attrs |-> PrintAttr(tree.attrs[i])])
    \o FlattenSeq([i \in DOMAIN tree.kids |-> Save(tree.kids[i])])
    \o <<"}", "nl">>
=============================================================================
