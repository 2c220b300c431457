----------------------------- MODULE MCDataSink ------------------------------
\* Listings for DataSink: the line "ls" begins with, files, directories and
\* links, names with a space in them and one that begins another.
EXTENDS DataSink

Line(type, size, name) == [type |-> type, size |-> size, name |-> name]

MCLines ==
    {Line("total", "5", << >>), Line("file", "5", <<"a">>), Line("dir", "6", <<"b">>),
     Line("link", "6", <<"a", "sp", "b">>), Line("file", "6", <<"a", "b">>)}

MCListings ==
    UNION {[1..n -> MCLines] : n \in 0..2}
    \union {<<Line("total", "5", << >>), x, y>> : x, y \in MCLines}
=============================================================================
