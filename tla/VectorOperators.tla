-------------------------- MODULE VectorOperators ---------------------------
(***************************************************************************)
(* A session with one ufo of the package ufovectors: subsets of it          *)
(* (ufo_subset), assignments into it (ufo_mutate, ufo_subset_assign) and    *)
(* R's operators computed on it chunk by chunk (.ufo_binary and .ufo_unary  *)
(* of R/operators.R, with the result and the chunks of ufo_operators.c).    *)
(* A call ends with an outcome, which the caller takes before the next one. *)
(*                                                                         *)
(* What an operator computes is left open: the element of a result is the   *)
(* tuple of the positions of its operands, which is all a chunk can confuse.*)
(***************************************************************************)
EXTENDS Subscripts

CONSTANTS
    Vectors,        \* the vectors a session starts with
    Subscripted,    \* the subscripts of subsets
    Mutated,        \* the subscripts of assignments
    Values,         \* the vectors assigned from
    Operands,       \* the types and lengths of second operands
    ChunkSizes,
    MaxAssigned     \* bound: assignments of a session

(* A vector has the attributes of one, and as many names as elements.        *)
WellFormed(v) ==
    /\ v = [type |-> v.type, elems |-> v.elems, names |-> v.names]
    /\ v.type # "NULL"
    /\ TypedElements(v)
    /\ v.names \in Seq(Strings \cup {NA}) /\ Len(v.names) \in {0, Len(v.elems)}

ASSUME ShapeAssumption ==
    /\ \A v \in Vectors \cup Values : WellFormed(v)
    /\ \A s \in Subscripted \cup Mutated : TypedElements(s)
    /\ Operands \subseteq [type : Types, length : Nat]
    /\ ChunkSizes \subseteq Nat \ {0}

(* The strings that are hashed. Their hashes are slots: a hash has as many   *)
(* bits as the number of slots needs.                                        *)
Named ==
    UNION ({ToSet(v.names) : v \in Vectors}
           \cup {ToSet(s.elems) : s \in {t \in Subscripted \cup Mutated : t.type = "STR"}})

ASSUME HashAssumption ==
    \A v \in Vectors, s \in Named, utf8 \in BOOLEAN :
        LET slots == TableLength(Len(v.names))
        IN Hash(s, utf8, slots) \in 0..(slots - 1)

VARIABLES
    vector,         \* the ufo: [type, elems, names]
    job,            \* the operator that is being computed, or Idle
    outcome,        \* of the last call, or None
    assigned        \* how many assignments have returned

vars == <<vector, job, outcome, assigned>>

Idle == [op |-> "idle"]
None == [call |-> "none"]
Itself == [type |-> "itself"]       \* the vector, as the values assigned to it

-----------------------------------------------------------------------------
(* The result types, one operator per function of ufo_operators.c: for + - * *)
(* for / ^, for %% %/%, for < <= > >=, for == != | & and for unary operators.*)
Numbers == {"NULL", "LGL", "INT", "REAL", "CPLX"}
Reals == Numbers \ {"CPLX"}
Refused == "refused"

NarrowFitType(x, y) == IF x = y /\ x \in Numbers THEN x ELSE "CPLX"

FitType(x, y) ==
    IF {x, y} \notin SUBSET Numbers THEN Refused
    ELSE IF "CPLX" \in {x, y} THEN "CPLX"
    ELSE IF "REAL" \in {x, y} THEN "REAL"
    ELSE "INT"

DivType(x, y) ==
    IF {x, y} \notin SUBSET Numbers THEN Refused
    ELSE IF "CPLX" \in {x, y} THEN "CPLX"
    ELSE "REAL"

ModType(x, y) ==
    IF {x, y} \notin SUBSET Numbers THEN Refused
    ELSE IF {x, y} = {"CPLX", "NULL"} THEN "CPLX"
    ELSE IF "CPLX" \in {x, y} THEN Refused
    ELSE IF "REAL" \in {x, y} THEN "REAL"
    ELSE "INT"

RelType(x, y) ==
    IF "RAW" \in {x, y} THEN Refused
    ELSE IF x = "STR" THEN (IF y = "STR" THEN "STR" ELSE Refused)
    ELSE IF x = "CPLX" /\ y \notin {"NULL", "STR"} THEN Refused
    ELSE IF y = "CPLX" /\ x # "NULL" THEN Refused
    ELSE "LGL"

LogType(x, y) == IF "RAW" \in {x, y} THEN Refused ELSE "LGL"

NegType(x) == IF x \in {"LGL", "INT", "REAL", "CPLX"} THEN x ELSE Refused

Binary == {"add", "divide", "modulo", "less", "equal", "and"}
Unary == {"minus", "not"}

ResultType(op, types) ==
    CASE op = "add"             -> FitType(types[1], types[2])
      [] op = "divide"          -> DivType(types[1], types[2])
      [] op = "modulo"          -> ModType(types[1], types[2])
      [] op = "less"            -> RelType(types[1], types[2])
      [] op \in {"equal", "and"} -> LogType(types[1], types[2])
      [] op \in Unary           -> NegType(types[1])

(* ufo_vector_size_to_fit_both and ufo_vector_size_to_mod_both.              *)
Lengths(operands) == {operands[i].length : i \in DOMAIN operands}

Longest(operands) == CHOOSE n \in Lengths(operands) : \A m \in Lengths(operands) : m <= n

ResultSize(operands) ==
    IF \E i \in DOMAIN operands : operands[i].type = "NULL" THEN 0 ELSE Longest(operands)

(* The type of R's own operators (external).                                 *)
OwnType(op, types) ==
    LET used == {types[i] : i \in DOMAIN types}
        refused ==
            \/ op \in {"add", "divide", "modulo", "minus", "not"} /\ used \cap {"STR", "RAW"} # {}
            \/ op \in {"modulo", "less"} /\ "CPLX" \in used /\ "STR" \notin used
            \/ op = "and" /\ "STR" \in used
    IN IF refused THEN Refused
       ELSE IF op \in {"less", "equal", "and", "not"} THEN "LGL"
       ELSE IF "CPLX" \in used THEN "CPLX"
       ELSE IF "REAL" \in used \/ op = "divide" THEN "REAL"
       ELSE "INT"

TypesOf(operands) == [i \in DOMAIN operands |-> operands[i].type]

-----------------------------------------------------------------------------
Init ==
    /\ vector \in Vectors
    /\ job = Idle
    /\ outcome = None
    /\ assigned = 0

Ready == job = Idle /\ outcome = None

(* ufo_subscript.                                                            *)
Locate(s) ==
    /\ Ready
    /\ outcome' = [call |-> "subscript", subscript |-> s, end |-> Subscript(vector, s)]
    /\ UNCHANGED <<vector, job, assigned>>

-----------------------------------------------------------------------------
(* The getters: an NA index is an NA, any other is tested and looked up.    *)
Got(source, index) ==
    IF index = NA THEN Ok(NaOf(source.type))
    ELSE IF index > Len(source.elems) THEN Failed
    ELSE SafelyGet(source.elems, index - 1)

GettersAtIntegers(source, indices) ==
    LET got == [k \in DOMAIN indices |-> Got(source, indices[k])]
        stops == {k \in DOMAIN got : got[k].status # "ok"}
    IN IF stops = {} THEN Ok([k \in DOMAIN got |-> got[k].value]) ELSE got[Min(stops)]

(* An NA that is a double becomes the smallest R_xlen_t, which no test takes *)
(* for an NA: what is one before it is out of bounds, or not, as the         *)
(* compiler likes.                                                           *)
GettersAtDoubles(source, indices) ==
    IF NA \in ToSet(indices) THEN Undefined ELSE GettersAtIntegers(source, indices)

(* copy_selected_values_according_to_..., into a new ufo.                    *)
CopySelected(source, indices) ==
    IF indices.elems = <<>> THEN Hung
    ELSE IF indices.type = "INT" THEN GettersAtIntegers(source, indices.elems)
    ELSE GettersAtDoubles(source, indices.elems)

(* ufo_subset.                                                               *)
Subset(s) ==
    LET indices == Subscript(vector, s)
    IN /\ Ready
       /\ outcome' = [call |-> "subset", subscript |-> s,
                      end |-> IF indices.status # "ok" THEN indices
                              ELSE CopySelected(vector, indices.value)]
       /\ UNCHANGED <<vector, job, assigned>>

-----------------------------------------------------------------------------
SetAtAnything(target, index, value) ==
    [target EXCEPT !.elems[IF index = NA THEN 1 ELSE index] = value]

SetAt(target, index, value) ==
    IF index = NA THEN target
    ELSE [target EXCEPT !.elems = SafelySet(@, index - 1, value).value]

(* One turn of the loop. The values are read when they are written: they may *)
(* be the elements of the target.                                            *)
WriteOne(target, indices, values, k) ==
    LET source == IF values = Itself THEN target ELSE values
    IN SetAt(target, indices[k],
             ElementAs(target.type, source.type, Recycled(source.elems, k - 1)))

(* write_values_into_vector_at_integer_indices. The same at doubles insists  *)
(* on integers as well, and so always fails.                                 *)
WriteValues(target, indices, values) ==
    LET source == IF values = Itself THEN target ELSE values
        length == Len(indices.elems)
    IN IF indices.type # "INT" \/ Len(source.elems) > length THEN Failed
       ELSE IF Len(source.elems) = 0 THEN Undefined
       ELSE IF length % Len(source.elems) # 0 \/ ~Coercible(target.type, source.type) THEN Failed
       ELSE Ok(FoldLeft(LAMBDA t, k : WriteOne(t, indices.elems, values, k),
                        target, Positions(length)))

(* ufo_subset_assign: in place, whoever else holds the vector.               *)
Assign(s, values) ==
    LET indices == Subscript(vector, s)
        end == IF indices.status # "ok" THEN indices
               ELSE WriteValues(vector, indices.value, values)
    IN /\ Ready
       /\ assigned < MaxAssigned
       /\ vector' = IF end.status # "ok" THEN vector
                    ELSE [type |-> vector.type, names |-> vector.names,
                          elems |-> [p \in DOMAIN vector.elems |-> end.value.elems[p]]]
       /\ outcome' = [call |-> "assign", subscript |-> s, values |-> values,
                      before |-> vector, end |-> end]
       /\ assigned' = assigned + 1
       /\ UNCHANGED job

-----------------------------------------------------------------------------
Shape(v) == [type |-> v.type, length |-> Len(v.elems)]

Refuse(op, operands, end) ==
    /\ outcome' = [call |-> "operator", op |-> op, operands |-> operands, end |-> end]
    /\ UNCHANGED job

(* .ufo_binary and .ufo_unary as far as the new vector for the result. R     *)
(* makes a vector of one element itself: it is no ufo.                       *)
Begin(op, operands, chunkSize) ==
    LET type == ResultType(op, TypesOf(operands))
        size == ResultSize(operands)
    IN /\ Ready
       /\ Len(vector.elems) > 1
       /\ IF type = Refused THEN Refuse(op, operands, Failed)
          ELSE IF size = 0 THEN Refuse(op, operands, Hung)
          ELSE /\ job' = [op |-> op, operands |-> operands, chunkSize |-> chunkSize, chunk |-> 0,
                          result |-> [type |-> type, ufo |-> TRUE,
                                      elems |-> [i \in 1..size |-> <<>>]]]
               /\ UNCHANGED outcome
       /\ UNCHANGED <<vector, assigned>>

BeginUnary(op, chunkSize) == Begin(op, <<Shape(vector)>>, chunkSize)

BeginBinary(op, other, chunkSize) ==
    \/ Begin(op, <<Shape(vector), other>>, chunkSize)
    \/ Begin(op, <<other, Shape(vector)>>, chunkSize)

Size == Len(job.result.elems)
Chunks == (Size + job.chunkSize - 1) \div job.chunkSize

(* The positions in the result of a chunk, counting from 0.                  *)
ChunkStart(j) == j.chunk * j.chunkSize
ChunkOf(j) ==
    LET size == Len(j.result.elems)
        actual == IF ChunkStart(j) + j.chunkSize >= size THEN size - ChunkStart(j)
                  ELSE j.chunkSize
    IN {ChunkStart(j) + i : i \in 0..(actual - 1)}

(* ufo_get_chunk: the element of an operand for a position of the result.    *)
FromChunkStart(operand, j, i) == (i - ChunkStart(j)) % operand.length
ChunkElement(operand, j, i) == i % operand.length

(* result[start:end] <- operation(x_chunk, y_chunk): an assignment of R,     *)
(* which copies a vector too narrow for the chunk, and the copy is no ufo.   *)
Store(j, type) ==
    LET wider == Rank[type] > Rank[j.result.type]
    IN [type  |-> IF wider THEN type ELSE j.result.type,
        ufo   |-> j.result.ufo /\ ~wider,
        elems |-> [i \in DOMAIN j.result.elems |->
                    IF i - 1 \notin ChunkOf(j) THEN j.result.elems[i]
                    ELSE [o \in DOMAIN j.operands |-> ChunkElement(j.operands[o], j, i - 1)]]]

Finish(end) ==
    /\ outcome' = [call |-> "operator", op |-> job.op, operands |-> job.operands, end |-> end]
    /\ job' = Idle

ComputeChunk ==
    LET type == OwnType(job.op, TypesOf(job.operands))
    IN /\ job # Idle
       /\ job.chunk < Chunks
       /\ IF \E o \in DOMAIN job.operands : job.operands[o].length = 0 THEN Finish(Undefined)
          ELSE IF type = Refused THEN Finish(Failed)
          ELSE /\ job' = [job EXCEPT !.result = Store(job, type), !.chunk = @ + 1]
               /\ UNCHANGED outcome
       /\ UNCHANGED <<vector, assigned>>

ReturnResult ==
    /\ job # Idle
    /\ job.chunk = Chunks
    /\ Finish(Ok(job.result))
    /\ UNCHANGED <<vector, assigned>>

-----------------------------------------------------------------------------
(* Nothing comes after a call that hung or left the vector's memory.         *)
Take ==
    /\ outcome # None
    /\ outcome.end.status \in {"ok", "error"}
    /\ outcome' = None
    /\ UNCHANGED <<vector, job, assigned>>

Next ==
    \/ \E s \in Subscripted : Locate(s) \/ Subset(s)
    \/ \E s \in Mutated, values \in Values \cup {Itself} : Assign(s, values)
    \/ \E op \in Unary, n \in ChunkSizes : BeginUnary(op, n)
    \/ \E op \in Binary, other \in Operands, n \in ChunkSizes : BeginBinary(op, other, n)
    \/ ComputeChunk
    \/ ReturnResult
    \/ Take

Spec == Init /\ [][Next]_vars
-----------------------------------------------------------------------------
(* What R itself does (external), in terms of positions from 1. The       *)
(* outcome holds the positions selected, and NAs.                            *)
SameText(a, b) == NA \notin {a, b} /\ a.text = b.text

First(set) == CHOOSE i \in set : \A j \in set : i <= j

RNumberSelection(n, seq) ==
    LET whole == [k \in DOMAIN seq |-> IF seq[k] = NA THEN NA ELSE Truncate(seq[k]) \div 2]
        values == ToSet(whole)
    IN IF \E i \in values \ {NA} : i < 0
       THEN IF NA \in values \/ \E i \in values \ {NA} : i > 0 THEN Failed
            ELSE Ok(Chosen(Positions(n), {i \in 1..n : -i \notin values}))
       ELSE LET inside == [k \in DOMAIN whole |-> IF whole[k] # NA /\ whole[k] > n THEN NA ELSE whole[k]]
            IN Ok(Chosen(inside, ToSet(inside) \ {0}))

RSelection(v, s) ==
    LET n == Len(v.elems)
        longer == IF n >= Len(s.elems) THEN n ELSE Len(s.elems)
        flag(i) == Recycled(s.elems, i - 1)
        taken == Chosen(Positions(longer), {i \in 1..longer : flag(i) # FALSE_})
        named(text) == {i \in DOMAIN v.names : SameText(v.names[i], text)}
    IN IF s.type \in {"RAW", "CPLX"} THEN Failed
       ELSE IF s.elems = <<>> THEN Ok(<<>>) ELSE
       CASE s.type = "LGL" ->
                Ok([k \in DOMAIN taken |-> IF flag(taken[k]) = NA \/ taken[k] > n THEN NA ELSE taken[k]])
         [] s.type \in {"INT", "REAL"}          -> RNumberSelection(n, s.elems)
         [] s.type = "STR" ->
                Ok([k \in DOMAIN s.elems |->
                    IF s.elems[k] = NA \/ s.elems[k].text = Blank \/ named(s.elems[k]) = {} THEN NA
                    ELSE First(named(s.elems[k]))])

(* Where the code is known to leave R: a fraction in (-1, 0), which excludes *)
(* the first element, or just below minus the length, which excludes nothing,*)
(* or in (0, 1) beside negative numbers; and strings that are hashed, for    *)
(* which see HashedFindsNames.                                               *)
OddFraction(n, s) ==
    /\ s.type = "REAL"
    /\ \/ {-1, -2 * n - 1} \cap ToSet(s.elems) # {}
       \/ 1 \in ToSet(s.elems) /\ Negatives(s.elems) > 0

Hashes(v, s) ==
    s.type = "STR" /\ v.names # <<>> /\ UseHashing(Len(v.elems), Len(s.elems))

(* The index vector is one of doubles: it is long and not made from strings, *)
(* or it comes from a hash table.                                            *)
InDoubles(v, s, selected) ==
    (s.type # "STR" /\ Len(selected) > ShortMax) \/ Hashes(v, s)

-----------------------------------------------------------------------------
(* "Indistinguishable from plain old R vectors" (README.md:7), for subsets:  *)
(* recycled logical subscripts, positive, negative and fractional numbers,   *)
(* names and NAs select what they select from a plain vector. The exceptions *)
(* are written down: an empty selection never returns, an NA among indices   *)
(* that are doubles is read outside the vector.                              *)
SubsetLikeR ==
    outcome.call = "subset" /\ ~Hashes(vector, outcome.subscript)
       /\ ~OddFraction(Len(vector.elems), outcome.subscript)
    => LET selection == RSelection(vector, outcome.subscript)
           selected == selection.value
           element(i) == IF i = NA THEN NaOf(vector.type) ELSE vector.elems[i]
       IN outcome.end =
            IF selection = Failed THEN Failed
            ELSE IF selected = <<>> THEN Hung
            ELSE IF InDoubles(vector, outcome.subscript, selected) /\ NA \in ToSet(selected)
            THEN Undefined
            ELSE Ok([k \in DOMAIN selected |-> element(selected[k])])

(* string_subscript: the loop and the hash table give the same indices. What *)
(* is found is the first occurrence; what is there is found, unless names    *)
(* and subscript were hashed in two ways. Only the loop leaves out "".       *)
HashedFindsNames ==
    outcome.call = "subscript" /\ outcome.subscript.type = "STR" /\ outcome.end.status = "ok"
    => \A k \in DOMAIN outcome.subscript.elems :
         LET s == outcome.subscript.elems[k]
             found == outcome.end.value.elems[k]
             hashed == Hashes(vector, outcome.subscript)
             there == {i \in DOMAIN vector.names : SameText(vector.names[i], s)}
             agree == UsesUtf8(vector.names) = UsesUtf8(outcome.subscript.elems)
         IN /\ found # NA => there # {} /\ found = First(there)
            /\ s # NA /\ there # {} /\ (IF hashed THEN agree ELSE s.text # Blank) => found # NA

(* ufo_subset_assign in place: a call that fails has written nothing; one    *)
(* that returns has changed the selected positions only, each to its last    *)
(* value, converted; a value converted to a wider type is not lost. Left out *)
(* are values that are the vector itself and are read after they were        *)
(* overwritten, and complex numbers, which do not come back from strings.    *)
AssignLikeR ==
    outcome.call = "assign" /\ ~OddFraction(Len(vector.elems), outcome.subscript) =>
    LET before == outcome.before
        source == IF outcome.values = Itself THEN before ELSE outcome.values
        selected == RSelection(before, outcome.subscript).value
        at(p) == {k \in DOMAIN selected : selected[k] = p}
        of(p) == Recycled(source.elems, (CHOOSE k \in at(p) : \A j \in at(p) : j <= k) - 1)
        overwritten == /\ outcome.values = Itself
                       /\ \E j, k \in DOMAIN selected :
                            j < k /\ selected[j] = ((k - 1) % Len(source.elems)) + 1
        widened == Rank[source.type] <= Rank[before.type] /\ {"RAW", "CPLX"} \cap {source.type} = {}
    IN IF outcome.end.status # "ok" THEN vector = before
       ELSE overwritten \/
            /\ Len(selected) % Len(source.elems) = 0
            /\ \A p \in DOMAIN before.elems :
                 IF at(p) = {} THEN vector.elems[p] = before.elems[p]
                 ELSE /\ vector.elems[p] = ElementAs(before.type, source.type, of(p))
                      /\ widened => ElementAs(source.type, before.type, vector.elems[p]) = of(p)

(* An operator computed by chunks is the operator: the result is as long as  *)
(* the longer operand and each of its elements comes from the elements, one  *)
(* of each operand, that recycling pairs there, whatever the chunk size. It  *)
(* is refused where R refuses it, and for bytes, and for a string compared   *)
(* with something else on its right; an empty operand is divided by.         *)
OperatorLikeR ==
    outcome.call = "operator" =>
    LET operands == outcome.operands
        types == TypesOf(operands)
        alone == "RAW" \in ToSet(types) \/ (outcome.op = "less" /\ types[1] = "STR" /\ types[2] # "STR")
        unary == outcome.op \in Unary /\ types[1] = "STR"
    IN CASE outcome.end.status = "ok" ->
                /\ OwnType(outcome.op, types) # Refused
                /\ outcome.end.value.elems =
                     [i \in 1..Longest(operands) |->
                        [o \in DOMAIN operands |-> (i - 1) % operands[o].length]]
         [] outcome.end.status = "error" ->
                alone \/ unary \/ OwnType(outcome.op, types) = Refused
         [] outcome.end.status = "undefined" -> 0 \in Lengths(operands)
         [] outcome.end.status = "hung"      -> "NULL" \in ToSet(types)

(* The type deduced before the first chunk is the type R gives the chunks:   *)
(* otherwise R widens the result, which is then no ufo and fills the memory  *)
(* the package is there to spare. The exceptions: - and + of logicals; the   *)
(* type is wrong, though wide enough, for ! of numbers and strings compared. *)
ResultTypes ==
    outcome.call = "operator" /\ outcome.end.status = "ok" =>
    LET types == TypesOf(outcome.operands)
        own == OwnType(outcome.op, types)
    IN /\ outcome.end.value.ufo = ~(outcome.op = "minus" /\ types = <<"LGL">>)
       /\ outcome.end.value.type =
            CASE outcome.op = "not"                             -> types[1]
              [] outcome.op = "less" /\ types = <<"STR", "STR">> -> "STR"
              [] OTHER                                          -> own
=============================================================================
