------------------------------- MODULE Schemas -------------------------------
(***************************************************************************)
(* SchemaBuilder of packages/validator.  What a builder or a schema holds  *)
(* that can be changed in place is an object: its properties, its lists of *)
(* required names and of examples, the schema given to items, not or       *)
(* another keyword, and what its caller gave to default, const, enum or    *)
(* meta.  The question is who else holds it; what is in it is left out.    *)
(***************************************************************************)
EXTENDS Naturals, Sequences

CONSTANTS
    TypeNames,     \* values of `type`, without "null"
    MaxHolders     \* bound on the builders and schemas made

VARIABLE making
\* builders and the schemas they built, each with its types, how its type is
\* written ("none", "one" or "list": absent, a string, an array) and its objects

\* An object has the name of the field it was made for.  A field that gets a new
\* one uses the name again, which is sound as long as nobody else holds the old
\* one: what SchemasAreApart says.
Fields1 == {"properties", "required", "examples", "part", "keyword"}
Made(b, field) == <<b, field>>
Absent1 == <<>>
PlainValue == <<"plain">>    \* a number, a string, a flag
GivenObject == <<"given">>   \* the caller's own

Bare1 == [built |-> FALSE, types |-> {}, write |-> "none",
          objects |-> [f \in Fields1 |-> Absent1]]

MakingInit == making = <<>>

\* Mutant of Cloned: a copy of the top level only.
ClonedFlat(b, objects) == objects

\* structuredClone: what is copied shares nothing with what it is copied from.
Cloned(b, objects) ==
    [f \in Fields1 |->
        IF objects[f] \in {Absent1, PlainValue} THEN objects[f] ELSE Made(b, f)]

Next1 == Len(making) + 1
HasHolder == Next1 <= MaxHolders

\* create, object, array, string, ...; an object schema has properties and
\* required names from the start.
Create(type) ==
    /\ HasHolder
    /\ making' = Append(making,
          [Bare1 EXCEPT !.types = IF type = "" THEN {} ELSE {type},
                        !.write = IF type = "" THEN "none" ELSE "one",
                        !.objects = IF type # "object" THEN @
                                    ELSE [@ EXCEPT !["properties"] = Made(Next1, "properties"),
                                                   !["required"] = Made(Next1, "required")]])

\* build and toJSON, and clone, which builds and copies once more.
Build2(b, built) ==
    /\ HasHolder
    /\ making' = Append(making,
          [making[b] EXCEPT !.built = built, !.objects = Cloned(Next1, @)])

\* type, and nullable, which of a schema without a type allows null only.
SetType(b, type) == making' = [making EXCEPT ![b].types = {type}, ![b].write = "one"]

Nullable(b, value) ==
    LET s == making[b]
        typed(types, write) == [s EXCEPT !.types = types, !.write = write]
        one == s.write = "one" /\ s.types # {"null"}
    IN  making' = [making EXCEPT ![b] =
            CASE value /\ (s.write = "list" \/ one) -> typed(s.types \cup {"null"}, "list")
              [] value /\ s.write # "list" /\ ~one -> typed({"null"}, "one")
              [] ~value /\ s.write = "list" -> typed(s.types \ {"null"}, "list")
              [] ~value /\ s.write # "list" -> IF one THEN s ELSE typed({}, "none")]

Own(b, field) == making' = [making EXCEPT ![b].objects[field] = Made(b, field)]

\* A new list of the required names, and of the examples given together.
Require(b) == Own(b, "required")
Examples(b) == Own(b, "examples")

\* Into what there is, in place, or into a new one if there is none: property,
\* patternProperty and definition, which clone the schema they are given, and
\* example.
InPlace(b, field) == making[b].objects[field] = Absent1 /\ Own(b, field)
Property(b) == InPlace(b, "properties")
Example(b) == InPlace(b, "examples")

\* additionalProperties, items, contains, not, ifSchema, ...: a clone of the
\* schema given, as are the members of allOf, anyOf, oneOf and prefixItems.
SetPart(b) == Own(b, "part")

\* title, minLength, minimum, ...: a plain value; default, const, enum and meta
\* keep what they are given.
SetKeyword(b, value) == making' = [making EXCEPT ![b].objects["keyword"] = value]

\* extend: Object.assign of a clone; what it has replaces what there was.
ExtendBy(b, from) ==
    LET s == making[from]
        new == Cloned(b, s.objects)
    IN  making' = [making EXCEPT ![b] =
            [@ EXCEPT !.types = IF s.write = "none" THEN @ ELSE s.types,
                      !.write = IF s.write = "none" THEN @ ELSE s.write,
                      !.objects = [f \in Fields1 |->
                                      IF new[f] = Absent1 THEN @[f] ELSE new[f]]]]

MakingNext ==
    \/ \E type \in TypeNames \cup {""} : Create(type)
    \/ \E b \in DOMAIN making :
          /\ ~making[b].built
          /\ \/ \E built \in BOOLEAN : Build2(b, built)
             \/ \E type \in TypeNames : SetType(b, type)
             \/ \E value \in BOOLEAN : Nullable(b, value)
             \/ Require(b) \/ Examples(b) \/ Property(b) \/ Example(b) \/ SetPart(b)
             \/ \E value \in {PlainValue, GivenObject} : SetKeyword(b, value)
             \/ \E from \in DOMAIN making : ~making[from].built /\ ExtendBy(b, from)

----------------------------------------------------------------------------
\* No object of one builder, or of a schema built, is held by another, so that
\* neither later calls nor a reader who writes into his copy change another;
\* only builders, and no schema, hold on to what their caller gave them.
SchemasAreApart ==
    LET held(b) == {making[b].objects[f] : f \in Fields1} \ {Absent1, PlainValue}
    IN  \A b, c \in DOMAIN making :
            /\ b # c => held(b) \cap held(c) \subseteq {GivenObject}
            /\ making[b].built => GivenObject \notin held(b)
=============================================================================
