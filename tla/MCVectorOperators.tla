------------------------- MODULE MCVectorOperators --------------------------
EXTENDS VectorOperators

(* Hashes small enough to collide and to wrap around the table.              *)
Weight(text) == CASE text = Word("a") -> 3
                  [] text = Word("b") -> 3
                  [] text = Word("e") -> 6
                  [] text = Blank     -> 7
                  [] OTHER            -> 5

MCTextHash(text, slots) == Weight(text) % slots
MCAddressHash(s, slots) ==
    IF s = NA THEN 1
    ELSE (Weight(s.text) + (CASE s.enc = "ascii" -> 4 [] s.enc = "utf8" -> 1 [] OTHER -> 2)) % slots

A == String(Word("a"))
B == String(Word("b"))
E8 == [text |-> Word("e"), enc |-> "utf8"]
E1 == [text |-> Word("e"), enc |-> "latin1"]
Empty == String(Blank)

Of(type, elems, names) == [type |-> type, elems |-> elems, names |-> names]

MCVectors ==
    {Of("INT", <<2, 4, NA, 8>>, <<A, E8, A, Empty>>), Of("INT", <<2, 4>>, <<B, A>>),
     Of("LGL", <<TRUE_, NA, FALSE_>>, <<A, NA, E1>>), Of("REAL", <<1, 3, NA>>, <<>>),
     Of("CPLX", <<<<2, 0>>, <<1, NA>>>>, <<E8, Empty>>), Of("RAW", <<2, 4, 0>>, <<Empty, A, B>>),
     Of("STR", <<A, NA, String(Spelled(4))>>, <<E8, B, A>>)}

UpTo(n, set) == UNION {[1..k -> set] : k \in 0..n}
Subs(type, seqs) == {[type |-> type, elems |-> q] : q \in seqs}

MCSubscripted ==
    {[type |-> "NULL", elems |-> <<>>], [type |-> "CPLX", elems |-> <<<<2, 0>>>>],
     [type |-> "RAW", elems |-> <<>>]}
    \cup Subs("LGL", UpTo(3, {TRUE_, FALSE_, NA}) \cup [1..5 -> {TRUE_, NA}])
    \cup Subs("INT", UpTo(2, {-10, -4, -2, 0, 2, 6, 10, NA})) \cup Subs("INT", {<<2, 6, 0, NA, 4, 2>>, <<-8, -4, -6, -2>>})
    \cup Subs("REAL", UpTo(2, {-5, -2, -1, 0, 1, 5, NA}))
    \cup Subs("STR", UpTo(2, {A, B, E8, E1, Empty, NA}) \cup {<<A, NA, B, A, E8>>})

MCMutated ==
    {[type |-> "INT", elems |-> q] : q \in {<<>>, <<4, 2>>, <<2, 2>>, <<NA, 4>>, <<4, 10>>, <<-2>>}}
    \cup {[type |-> "LGL", elems |-> <<TRUE_, FALSE_>>], [type |-> "REAL", elems |-> <<3, 5>>],
          [type |-> "LGL", elems |-> <<TRUE_>>], [type |-> "STR", elems |-> <<A>>]}

MCValues ==
    {Of("INT", <<2 * IntMax, NA>>, <<>>), Of("INT", <<6>>, <<>>), Of("LGL", <<TRUE_>>, <<>>),
     Of("REAL", <<3, 2 * IntMax + 2>>, <<>>), Of("CPLX", <<<<3, 2>>>>, <<>>), Of("RAW", <<2>>, <<>>),
     Of("STR", <<String(Spelled(3))>>, <<>>), Of("STR", <<NA, String(Word("TRUE"))>>, <<>>),
     Of("INT", <<>>, <<>>)}

MCOperands ==
    {[type |-> t, length |-> n] : t \in Types \ {"NULL"}, n \in {0, 1, 3, 7}}
    \cup {[type |-> "NULL", length |-> 0]}
=============================================================================
