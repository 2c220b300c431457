------------------------------ MODULE TreeStor ------------------------------
(***************************************************************************)
(* Trees of nodes with attributes (src/treestor.c): values and how they    *)
(* are set and copied, and what is found in a node.  Lists linked by       *)
(* pointers are sequences here, text is a sequence of lexemes (TsText) and *)
(* a number is the lexeme it was read from.  Allocations succeed.          *)
(***************************************************************************)
EXTENDS Integers, Sequences, SequencesExt

\* a null pointer, where text is expected
Null == <<"NULL">>

\* The numbers there are, and what "%g" prints of the float: six digits, and an
\* exponent where they do not do - which next_token reads as three tokens.
Printed ==
    [n \in {"7", "21", "021", "1234567", "1.23457", "+06", "6"} |->
        CASE n = "021" -> <<"21">>
          [] n = "+06" -> <<"6">>
          [] n = "1234567" -> <<"1.23457", "e", "+06">>
          [] OTHER -> <<n>>]

Nums == DOMAIN Printed

-----------------------------------------------------------------------------
\* ts_init_value
InitValue ==
    [type |-> "string", str |-> Null, num |-> "7", vec |-> << >>, vec_size |-> 0,
     array |-> << >>]

\* ts_set_value_str and ts_set_valuef, on a fresh value
SetValueStr(text) == [InitValue EXCEPT !.str = text]

SetValuef(n) ==
    [InitValue EXCEPT !.type = "number", !.str = Printed[n], !.num = n]

\* ts_set_valuei_arr and ts_set_valuef_arr, for more than one number
SetVector(nums) ==
    [InitValue EXCEPT !.type = "vector", !.vec = nums, !.vec_size = Len(nums),
                      !.array = [i \in DOMAIN nums |-> SetValuef(nums[i])]]

\* ts_copy_value: a vector that says it is empty loses its elements
RECURSIVE CopyValue(_)
CopyValue(v) ==
    [v EXCEPT !.vec = IF v.vec_size > 0 THEN @ ELSE << >>,
              !.array = [i \in DOMAIN @ |-> CopyValue(@[i])]]

\* ts_set_value_arr, for more than one value; it leaves vec_size alone
SetValueArr(vals) ==
    LET allnum == \A i \in DOMAIN vals : vals[i].type = "number"
    IN  [InitValue EXCEPT
            !.type = IF allnum THEN "vector" ELSE "array",
            !.vec = IF allnum THEN [i \in DOMAIN vals |-> vals[i].num] ELSE << >>,
            !.array = [i \in DOMAIN vals |-> CopyValue(vals[i])]]

-----------------------------------------------------------------------------
Node(name) == [name |-> name, attrs |-> << >>, kids |-> << >>]

\* ts_add_attr and ts_add_child
AddAttr(node, name, val) ==
    [node EXCEPT !.attrs = Append(@, [name |-> name, val |-> val])]

AddChild(node, child) == [node EXCEPT !.kids = Append(@, child)]

\* ts_get_attr_str: of the first attribute of that name, if it has a string.
GetAttrStr(node, aname) ==
    LET at == {i \in DOMAIN node.attrs : node.attrs[i].name = aname}
    IN  IF at = {} THEN Null ELSE node.attrs[CHOOSE i \in at : \A j \in at : i <= j].val.str
=============================================================================
