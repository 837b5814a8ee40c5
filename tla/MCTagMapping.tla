---------------------------- MODULE MCTagMapping ----------------------------
(* Small instances of TagMapping for TLC. *)
EXTENDS TagMapping, TLC

\* Of two rows of a body, which differ in what they say of their tag, those with an id
\* come first, and two ids go with two keys.
SmallMappings ==
    {<<>>} \cup {<<r>> : r \in Rows}
    \cup {rows \in Rows \X Rows :
            /\ rows[1].name # rows[2].name
            /\ rows[1].id = NoId => rows[2].id = NoId
            /\ NoId \in {rows[1].id, rows[2].id} \/ rows[1].id = rows[2].id
               \/ rows[1].key # rows[2].key}

Symmetry == Permutations(Ids) \cup Permutations(Keys) \cup Permutations(Names)
            \cup Permutations(Handlers)
=============================================================================
