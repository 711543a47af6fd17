------------------------------ MODULE Documents ------------------------------
(***************************************************************************)
(* crates/settlement-client: how a job specification or an evidence bundle *)
(* becomes the hash that is committed, signed and compared everywhere else.*)
(* A body of JSON is parsed (canonical.rs takes what serde_json makes of   *)
(* it), validated against the schema (schema.rs), read into a typed struct *)
(* (model.rs), and its canonical form is hashed.  The other modules name a *)
(* document by its hash, and take what it says as a function of that name; *)
(* this one is about whether they may.                                     *)
(*                                                                         *)
(* A text is a tree.  White space, escapes and the spelling of digits are  *)
(* left out, but a number is written as an integer or not, an object's keys*)
(* come in an order, and a key may come twice.  Of each document the fields*)
(* that differ in shape are kept.                                          *)
(***************************************************************************)
EXTENDS Integers, Sequences, SequencesExt

CONSTANTS
    MaxDepth,          \* serde_json's recursion limit
    KeyOrder,          \* all keys, in the order of strings
    MaxU32, MaxI64,    \* the largest values of those widths
    MaxTolerance,      \* the schema's maximum
    Others,            \* numbers a document may be changed to
    Bases,             \* documents to start from: [kind, text]
    MaxEdits           \* bound on the edits of one document

ASSUME SizesAssumption == MaxDepth \in Nat /\ Others \subseteq Int

ASSUME KeysAssumption == KeyOrder \in Seq(STRING)

VARIABLES kind, left, right, edits

vars == <<kind, left, right, edits>>

-----------------------------------------------------------------------------
(* Texts, and the values serde_json makes of them *)

Obj(fields) == [t |-> "object", fields |-> fields]
Arr(items) == [t |-> "array", items |-> items]
Num(n, form) == [t |-> "number", n |-> n, form |-> form]
Str(s) == [t |-> "string", s |-> s]

KeySet == ToSet(KeyOrder)

Leaf == [t : {"number"}, n : Int, form : {"integer", "float"}] \cup [t : {"string"}, s : STRING]

\* One level over S.
Level(S) ==
    Leaf \cup [t : {"object"}, fields : Seq([key : KeySet, value : S])]
         \cup [t : {"array"}, items : Seq(S)]

\* The texts of at most d levels.
Text[d \in 0 .. MaxDepth] == IF d = 0 THEN {} ELSE Level(Text[d - 1])

ASSUME BasesAssumption == Bases \subseteq [kind : {"job_spec", "evidence"}, text : Text[MaxDepth]]

Keys(v) == {v.fields[i].key : i \in DOMAIN v.fields}
LastOf(v, k) == v.fields[CHOOSE i \in DOMAIN v.fields :
                           /\ v.fields[i].key = k
                           /\ \A j \in DOMAIN v.fields : v.fields[j].key = k => j <= i].value

\* The items of s that are in S: SelectSeq, for a set.
Only(s, S) ==
    LET only[n \in 0 .. Len(s)] ==
            IF n = 0 THEN <<>>
            ELSE IF s[n] \in S THEN Append(only[n - 1], s[n]) ELSE only[n - 1]
    IN  only[Len(s)]

\* v with what inner makes of the values in it, and an object's keys as listed.
Rebuilt(v, keys, inner) ==
    IF v.t = "object"
    THEN Obj([n \in DOMAIN keys |-> [key |-> keys[n], value |-> inner[LastOf(v, keys[n])]]])
    ELSE IF v.t = "array" THEN Arr([i \in DOMAIN v.items |-> inner[v.items[i]]])
    ELSE v

-----------------------------------------------------------------------------
(* canonical.rs *)

\* serde_json::from_slice into a Value: a key that comes again replaces the value.
FirstKeys(v) ==
    LET first == {i \in DOMAIN v.fields : \A j \in 1 .. i - 1 : v.fields[j].key # v.fields[i].key}
        kept == Only([i \in DOMAIN v.fields |-> i], first)
    IN  [n \in DOMAIN kept |-> v.fields[kept[n]].key]

ParseLevel(text, inner) == Rebuilt(text, FirstKeys(text), inner)

ParseTo[d \in 0 .. MaxDepth] ==
    [text \in Text[d] |-> ParseLevel(text, ParseTo[d - 1])]

Parse(text) == ParseTo[MaxDepth][text]

\* Mutant of SortLevel: the items of arrays are put in order as well.
SortItems(v, inner) ==
    IF v.t = "array" THEN Arr(SetToSeq({inner[v.items[i]] : i \in DOMAIN v.items}))
    ELSE Rebuilt(v, Only(KeyOrder, Keys(v)), inner)

\* sort_keys: objects at every depth, arrays left in their order.
SortLevel(v, inner) == Rebuilt(v, Only(KeyOrder, Keys(v)), inner)

SortTo[d \in 0 .. MaxDepth] == [v \in Text[d] |-> SortLevel(v, SortTo[d - 1])]

SortKeys(v) == SortTo[MaxDepth][v]

\* The parts one after the other, and the token that closes them.
Closed(parts, closing) ==
    LET rest[n \in 0 .. Len(parts)] ==
            IF n = 0 THEN <<closing>> ELSE parts[Len(parts) - n + 1] \o rest[n - 1]
    IN  rest[Len(parts)]

\* serde_json::to_vec, in tokens.
VecLevel(v, inner) ==
    IF v.t = "object"
    THEN <<<<"punct", "{">>>>
         \o Closed([i \in DOMAIN v.fields |-> <<<<"key", v.fields[i].key>>>> \o inner[v.fields[i].value]],
                   <<"punct", "}">>)
    ELSE IF v.t = "array"
    THEN <<<<"punct", "[">>>> \o Closed([i \in DOMAIN v.items |-> inner[v.items[i]]], <<"punct", "]">>)
    ELSE IF v.t = "number" THEN <<<<"number", v.n, v.form>>>>
    ELSE <<<<"string", v.s>>>>

VecTo[d \in 0 .. MaxDepth] == [v \in Text[d] |-> VecLevel(v, VecTo[d - 1])]

ToVec(v) == VecTo[MaxDepth][v]

\* canonicalize, and hash: SHA-256 of the bytes, which stand for their digest.
Hash(v) == ToVec(SortKeys(v))

-----------------------------------------------------------------------------
(* schema.rs: additionalProperties is false throughout, and "integer" means a *)
(* number without a fraction, however it is written.                          *)

ObjectOf(v, required, optional) ==
    /\ v.t = "object"
    /\ required \subseteq Keys(v)
    /\ Keys(v) \subseteq required \cup optional

Field(v, k) == LastOf(v, k)

IntegerFrom(v, minimum) == v.t = "number" /\ v.n >= minimum

\* What an optional field holds, if it is there.
Optional(v, k) == {Field(v, present) : present \in {k} \cap Keys(v)}

NonEmptyArray(v) == v.t = "array" /\ v.items # <<>>

\* An enumeration and a truth value are written as strings here.
IsString(v) == v.t = "string"

CheckItem(v) ==
    ObjectOf(v, {"id", "check"}, {}) /\ IsString(Field(v, "id")) /\ IsString(Field(v, "check"))

ValidateJobSpec(v) ==
    /\ ObjectOf(v, {"acceptance", "artifact", "price"}, {})
    /\ LET acceptance == Field(v, "acceptance")
       IN  /\ NonEmptyArray(acceptance)
           /\ \A i \in DOMAIN acceptance.items : CheckItem(acceptance.items[i])
    /\ LET artifact == Field(v, "artifact")
       IN  /\ ObjectOf(artifact, {"tolerance_um"}, {"quantity"})
           /\ IntegerFrom(Field(artifact, "tolerance_um"), 1)
           /\ Field(artifact, "tolerance_um").n <= MaxTolerance
           /\ \A q \in Optional(artifact, "quantity") : IntegerFrom(q, 1)
    /\ IntegerFrom(Field(v, "price"), 1)

ResultItem(v) ==
    ObjectOf(v, {"id", "passed"}, {}) /\ IsString(Field(v, "id")) /\ IsString(Field(v, "passed"))

ValidateEvidence(v) ==
    /\ ObjectOf(v, {"results", "submitted_unix"}, {"measurements"})
    /\ LET results == Field(v, "results")
       IN  /\ NonEmptyArray(results)
           /\ \A i \in DOMAIN results.items : ResultItem(results.items[i])
    /\ IntegerFrom(Field(v, "submitted_unix"), 0)
    /\ \A m \in Optional(v, "measurements") :
          /\ ObjectOf(m, {}, {"delivered_unix", "deviation_um"})
          /\ \A d \in Optional(m, "delivered_unix") : IntegerFrom(d, 0)
          /\ \A d \in Optional(m, "deviation_um") : d.t = "number"

-----------------------------------------------------------------------------
(* model.rs: serde's derived Deserialize.  A field of an integer type takes no   *)
(* float, whatever its value, and nothing out of its range; a field with a       *)
(* default may be missing; the rest has been validated by then.                  *)

Fits(v, low, high) == v.form = "integer" /\ low <= v.n /\ v.n <= high

FitsOptional(v, k, low, high) == \A f \in Optional(v, k) : Fits(f, low, high)

Or(v, k, default) == IF k \in Keys(v) THEN Field(v, k).n ELSE default

Items(v) == [i \in DOMAIN v.items |-> [k \in Keys(v.items[i]) |-> Field(v.items[i], k).s]]

NoMeasurements == Obj(<<>>)

Measurements(v) == IF "measurements" \in Keys(v) THEN Field(v, "measurements") ELSE NoMeasurements

\* serde_json::from_value succeeds.  Amounts are u64, and no smaller than an i64.
Typed(k, v) ==
    IF k = "job_spec"
    THEN /\ Fits(Field(Field(v, "artifact"), "tolerance_um"), 0, MaxU32)
         /\ FitsOptional(Field(v, "artifact"), "quantity", 0, MaxU32)
         /\ Fits(Field(v, "price"), 0, 2 * MaxI64 + 1)
    ELSE /\ Fits(Field(v, "submitted_unix"), -MaxI64 - 1, MaxI64)
         /\ FitsOptional(Measurements(v), "delivered_unix", -MaxI64 - 1, MaxI64)
         /\ FitsOptional(Measurements(v), "deviation_um", -MaxI64 - 1, MaxI64)

\* The JobSpec or the Evidence: None is no number.
FromValue(k, v) ==
    IF k = "job_spec"
    THEN [tolerance_um |-> Field(Field(v, "artifact"), "tolerance_um").n,
          quantity |-> Or(Field(v, "artifact"), "quantity", 1),
          amount_minor |-> Field(v, "price").n,
          acceptance |-> Items(Field(v, "acceptance"))]
    ELSE [submitted_unix |-> Field(v, "submitted_unix").n,
          delivered_unix |-> Or(Measurements(v), "delivered_unix", MaxI64 + 1),
          deviation_um |-> Or(Measurements(v), "deviation_um", MaxI64 + 1),
          results |-> Items(Field(v, "results"))]

Validate(k, v) == IF k = "job_spec" THEN ValidateJobSpec(v) ELSE ValidateEvidence(v)

\* Mutant: the schema is trusted with the integers.
SchemaOnly(k, text) == Validate(k, Parse(text))

\* What create_job and submit_evidence do with a document before they hash it.
Admitted(k, text) == Validate(k, Parse(text)) /\ Typed(k, Parse(text))

-----------------------------------------------------------------------------
(* Somebody writes the same document, or almost the same, another way *)

Swapped(s, i) == [s EXCEPT ![i] = s[i + 1], ![i + 1] = s[i]]

\* Another order of keys, and a key with another value that comes too early to
\* count.
ReencodeHere(v) ==
    IF v.t # "object" THEN {}
    ELSE {Obj(Swapped(v.fields, i)) : i \in 1 .. Len(v.fields) - 1}
         \cup {Obj(<<[v.fields[i] EXCEPT !.value = Num(n, "integer")]>> \o v.fields) :
                  i \in DOMAIN v.fields, n \in Others}

\* A number written as a float, another number, a member less, items in another
\* order or one less.
AlterHere(v) ==
    IF v.t = "object" THEN {Obj(RemoveAt(v.fields, i)) : i \in DOMAIN v.fields}
    ELSE IF v.t = "array"
    THEN {Arr(Swapped(v.items, i)) : i \in 1 .. Len(v.items) - 1}
         \cup {Arr(RemoveAt(v.items, i)) : i \in DOMAIN v.items}
    ELSE IF v.t = "number" THEN {Num(v.n, "float")} \cup {Num(n, "integer") : n \in Others}
    ELSE {}

\* At any depth.
EditsLevel(v, inner) ==
    ReencodeHere(v) \cup AlterHere(v) \cup
    IF v.t = "object"
    THEN UNION {{Obj([v.fields EXCEPT ![i] = [v.fields[i] EXCEPT !.value = e]]) : e \in inner[v.fields[i].value]} :
                   i \in DOMAIN v.fields}
    ELSE IF v.t = "array"
    THEN UNION {{Arr([v.items EXCEPT ![i] = e]) : e \in inner[v.items[i]]} : i \in DOMAIN v.items}
    ELSE {}

EditsTo[d \in 0 .. MaxDepth] == [v \in Text[d] |-> EditsLevel(v, EditsTo[d - 1])]

Edits(v) == EditsTo[MaxDepth][v]

Init ==
    /\ \E base \in Bases : kind = base.kind /\ left = base.text /\ right = base.text
    /\ edits = 0

Edit(text) == text' \in Edits(text)

EditLeft == Edit(left) /\ UNCHANGED right
EditRight == Edit(right) /\ UNCHANGED left

Next ==
    /\ edits < MaxEdits
    /\ edits' = edits + 1
    /\ EditLeft \/ EditRight
    /\ UNCHANGED kind

Spec == Init /\ [][Next]_vars

-----------------------------------------------------------------------------
(* Properties *)

\* What a text says, whoever reads it: objects have no order, the last of two
\* equal keys counts, arrays have an order, and 100 and 100.0 are one number.
ContentLevel(v, inner) ==
    IF v.t = "object" THEN <<"object", [k \in Keys(v) |-> inner[LastOf(v, k)]]>>
    ELSE IF v.t = "array" THEN <<"array", [i \in DOMAIN v.items |-> inner[v.items[i]]]>>
    ELSE IF v.t = "number" THEN <<"number", v.n>>
    ELSE <<"string", v.s>>

ContentTo[d \in 0 .. MaxDepth] == [v \in Text[d] |-> ContentLevel(v, ContentTo[d - 1])]

Content(v) == ContentTo[MaxDepth][v]

BothAdmitted == Admitted(kind, left) /\ Admitted(kind, right)

\* "Any two JSON encodings of the same document must hash identically": among
\* the documents that are admitted, nothing but content reaches the hash, so the
\* two parties to a job cannot write one specification and find two.
SameDocumentSameHash ==
    (BothAdmitted /\ Content(left) = Content(right)) => Hash(Parse(left)) = Hash(Parse(right))

\* "Any change to the document's actual content must change the hash", and the
\* terms that are evaluated later, read from the same value, are those that were
\* hashed.
HashDecidesTerms ==
    (BothAdmitted /\ Hash(Parse(left)) = Hash(Parse(right)))
    => /\ Content(left) = Content(right)
       /\ FromValue(kind, Parse(left)) = FromValue(kind, Parse(right))

=============================================================================
