-------------------------------- MODULE Rash --------------------------------
(***************************************************************************)
(* The hash table of rash.c, an irash: from strings to the index of their   *)
(* first occurrence in a vector of strings, the origin. Open addressing,    *)
(* linear probing, at least twice as many slots as strings, no removal. A   *)
(* slot holds an index into the origin, counting from 0, or NA.             *)
(*                                                                         *)
(* A string is hashed by its address or by its characters in UTF-8; which   *)
(* of the two is decided once for a vector of strings, by what is in it.    *)
(* R keeps one object for a text in an encoding, so equal records of the    *)
(* model are equal addresses. Strings marked as bytes are not in the model. *)
(***************************************************************************)
EXTENDS RVectors

CONSTANTS
    AddressHash(_, _),  \* of a string, below a number of slots
    TextHash(_, _)      \* of a text, below a number of slots

(* make_examined_string_vector_from, as far as the hash depends on it.       *)
UsesUtf8(strings) ==
    \E i \in DOMAIN strings : strings[i] # NA /\ strings[i].enc \in {"utf8", "latin1"}

Hash(string, utf8, slots) ==
    IF utf8 THEN TextHash(IF string = NA THEN Word("NA") ELSE string.text, slots)
    ELSE AddressHash(string, slots)

(* strings_are_equal: two objects of one encoding are two strings.           *)
StringsAreEqual(a, b) ==
    \/ a = b
    \/ /\ NA \notin {a, b}
       /\ a.enc # b.enc
       /\ a.text = b.text

(* calculate_rash_length_for_string_vector: n turns of its loop are enough.  *)
Doubled(size, n) == IF size < 2 * n THEN 2 * size ELSE size

TableLength(n) == FoldLeft(LAMBDA size, turn : Doubled(size, n), 2, [turn \in 1..n |-> turn])

ProbesToTheEnd(hash, slots) == [i \in 1..(slots - hash) |-> hash + i - 1]

(* The slots from a hash on, each once.                                      *)
ProbesFrom(hash, slots) == [i \in 1..slots |-> (hash + i - 1) % slots]

StopsAt(table, origin, string, slot) ==
    table[slot] = NA \/ StringsAreEqual(origin[table[slot] + 1], string)

(* Where the loop over the slots ends: at an empty one or at an equal string.*)
(* A full table would be probed for ever; it is -1 here.                     *)
Probe(table, origin, string, utf8) ==
    LET slots == Cardinality(DOMAIN table)
        path == ProbesFrom(Hash(string, utf8, slots), slots)
        stops == {i \in DOMAIN path : StopsAt(table, origin, string, path[i])}
    IN IF stops = {} THEN -1 ELSE path[CHOOSE i \in stops : \A j \in stops : i <= j]

(* irash_add.                                                                *)
Add(table, origin, i) ==
    LET slot == Probe(table, origin, origin[i + 1], UsesUtf8(origin))
    IN IF slot # -1 /\ table[slot] = NA THEN [table EXCEPT ![slot] = i] ELSE table

(* irash_add_all, and irash_from with it.                                    *)
AddAll(table, origin) ==
    FoldLeft(LAMBDA t, i : Add(t, origin, i), table, [i \in 1..Len(origin) |-> i - 1])

TableOf(origin) ==
    AddAll([slot \in 0..(TableLength(Len(origin)) - 1) |-> NA], origin)

(* irash_member: the index of an equal string of the origin, or NA.          *)
Member(table, origin, string, utf8) ==
    LET slot == Probe(table, origin, string, utf8)
    IN IF slot = -1 THEN NA ELSE table[slot]

(* irash_all_member_indices: what is not found keeps the NA of the new       *)
(* vector; the indices returned count from 1.                                *)
MemberIndices(origin, strings) ==
    LET table == TableOf(origin)
        index(s) == IF s = NA THEN NA ELSE Member(table, origin, s, UsesUtf8(strings))
    IN [i \in DOMAIN strings |->
            IF index(strings[i]) = NA THEN NA ELSE index(strings[i]) + 1]
=============================================================================
