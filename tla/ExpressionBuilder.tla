-------------------------- MODULE ExpressionBuilder --------------------------
(***************************************************************************)
(* packages/expression: ExpressionBuilder, which drafts expression         *)
(* schemas.  Builders push operations into their array in place, and       *)
(* build, clone and fromSchema hand arrays on; so arrays have identities   *)
(* here.  Metadata objects are replaced whenever they change and are       *)
(* values.                                                                 *)
(***************************************************************************)
EXTENDS Expression

CONSTANTS
    BuilderMethods,  \* the shorthands whose operations are drafted
    Settings,        \* the fields that are set, with their values
    Malformed,       \* operators that the structure schema refuses
    MaxDrafts,       \* bound on the builders
    MaxBuilt,        \* bound on the schemas
    MaxPushed,       \* bound on the operations of one array
    MaxArrays,       \* bound on the arrays
    MaxNow           \* bound on the clock

VARIABLE drafting

\* if, plus, subtract, ... and not: each is op of its operator.
Shorthands ==
    [plus |-> "+", subtract |-> "-", multiply |-> "*", divide |-> "/", gt |-> ">",
     gte |-> ">=", lt |-> "<", lte |-> "<=", equals |-> "==", strictEquals |-> "===",
     and |-> "and", or |-> "or", not |-> "not", if |-> "if"]

\* op, the shorthands and if, whose third operand may be undefined.
Drafted(method, operands) == Op(Shorthands[method], operands)

\* switch: the value, then each case with its result, then the default.
Switch(value, cases, default) ==
    Op("switch", <<value>> \o FoldLeft(LAMBDA s, c : s \o c, <<>>, cases) \o default)

Blank == [copies |-> 0, name |-> "", description |-> "", combination |-> "and",
          array |-> 1, metadata |-> [createdAt |-> 0, updatedAt |-> 0],
          version |-> "", strict |-> FALSE, validator |-> "none"]

\* create, then strictValidation or not.
DraftInit ==
    \E strict \in BOOLEAN :
        drafting = [arrays |-> <<<<>>>>, built |-> <<>>, now |-> 1,
                    drafts |-> <<[Blank EXCEPT !.description = "d", !.strict = strict]>>]

Contents(a) == drafting.arrays[a]
Fresh == Len(drafting.arrays) + 1
HasRoom == Fresh <= MaxArrays

\* name, description, version, tags and the other metadata, combine (all, any),
\* strictValidation, withValidator: one field is replaced.
SetField(b, field, value) ==
    /\ drafting.drafts[b][field] # value
    /\ drafting' = [drafting EXCEPT !.drafts[b] = [@ EXCEPT ![field] = value]]

\* add, addMany, op and its shorthands push in place; op without operands
\* throws and nothing is pushed.
Push(b, operations) ==
    LET a == drafting.drafts[b].array
    IN  /\ Len(Contents(a)) + Len(operations) <= MaxPushed
        /\ \A i \in DOMAIN operations : operations[i] # Thrown
        /\ drafting' = [drafting EXCEPT !.arrays[a] = @ \o operations]

\* clear takes a new array: what was built from the old one keeps it.
ClearDraft(b) ==
    /\ HasRoom /\ Contents(drafting.drafts[b].array) # <<>>
    /\ drafting' = [drafting EXCEPT
            !.drafts[b].array = Fresh, !.arrays = Append(@, <<>>)]

\* clone copies the array, and everything else by value; it adds "_copy" to
\* the id.
Clone(b) ==
    /\ HasRoom /\ Len(drafting.drafts) < MaxDrafts
    /\ drafting' = [drafting EXCEPT
            !.drafts = Append(@, [drafting.drafts[b] EXCEPT
                                    !.copies = @ + 1, !.array = Fresh]),
            !.arrays = Append(@, Contents(drafting.drafts[b].array))]

\* fromSchema starts with what the schema has, and neither strict nor with a
\* validator.
FromSchema(s) ==
    LET schema == drafting.built[s]
    IN  /\ HasRoom /\ Len(drafting.drafts) < MaxDrafts
        /\ drafting' = [drafting EXCEPT
            !.drafts = Append(@, [schema.of EXCEPT !.array = Fresh,
                                    !.strict = FALSE, !.validator = "none"]),
            !.arrays = Append(@, Contents(schema.of.array))]

\* validateRequiredFields and, of a strict builder, validateStructure.
HasRequired(b) ==
    LET d == drafting.drafts[b]
    IN  d.name # "" /\ d.description # "" /\ Contents(d.array) # <<>>
OperatorsIn(operations) == UNION {DOMAIN operations[i].fields : i \in DOMAIN operations}
Passes(b, asks) ==
    LET d == drafting.drafts[b]
    IN  /\ d.strict => OperatorsIn(Contents(d.array)) \cap Malformed = {}
        /\ asks => d.validator # "refuses"

\* build stamps the draft before the structure is asked, so that a draft that
\* is refused keeps its stamps.
Stamped(metadata) ==
    [metadata EXCEPT !.createdAt = IF @ = 0 THEN drafting.now ELSE @,
                     !.updatedAt = drafting.now]

\* A schema handed out: the builder's fields as they are, with an array, and
\* what the array holds.
BuiltAs(b, array) ==
    LET d == drafting.drafts[b]
    IN  [of |-> [d EXCEPT !.array = array, !.metadata = Stamped(@),
                          !.version = IF @ = "" THEN "1.0.0" ELSE @],
         was |-> Contents(d.array)]

\* Mutant of BuildDraft: the schema takes the builder's own array.
BuildDraftShared(b, asks) ==
    /\ HasRequired(b)
    /\ Len(drafting.built) < MaxBuilt
    /\ Passes(b, asks)
    /\ drafting' = [drafting EXCEPT
            !.drafts[b].metadata = Stamped(@),
            !.built = Append(@, BuiltAs(b, drafting.drafts[b].array))]

\* build; toJSON prints what it answers.  buildOrThrow also asks the validator
\* that was given to the builder, after everything.
BuildDraft(b, asks) ==
    /\ HasRequired(b)
    /\ IF Passes(b, asks)
       THEN /\ HasRoom /\ Len(drafting.built) < MaxBuilt
            /\ drafting' = [drafting EXCEPT
                    !.drafts[b].metadata = Stamped(@),
                    !.arrays = Append(@, Contents(drafting.drafts[b].array)),
                    !.built = Append(@, BuiltAs(b, Fresh))]
       ELSE drafting' = [drafting EXCEPT !.drafts[b].metadata = Stamped(@)]

DraftTick == drafting.now < MaxNow /\ drafting' = [drafting EXCEPT !.now = @ + 1]

DraftNext ==
    \/ \E b \in DOMAIN drafting.drafts :
        \/ \E f \in DOMAIN Settings : SetField(b, f, Settings[f])
        \/ \E m \in BuilderMethods : Push(b, <<Drafted(m, <<Str("s")>>)>>)
        \/ Push(b, <<Switch(Str("s"), <<<<Str("c"), Str("r")>>>>, <<>>)>>)
        \/ ClearDraft(b) \/ Clone(b)
        \/ \E asks \in BOOLEAN : BuildDraft(b, asks)
    \/ \E s \in DOMAIN drafting.built : FromSchema(s)
    \/ DraftTick

----------------------------------------------------------------------------
\* A schema that was handed out is complete, holds at least one operation, and
\* nothing done later to its builder, to a clone or to a builder made from it
\* changes its operations; its stamps are in order and no later than now.
BuiltStands ==
    \A s \in DOMAIN drafting.built :
        LET schema == drafting.built[s]
        IN  /\ Contents(schema.of.array) = schema.was
            /\ schema.was # <<>>
            /\ "" \notin {schema.of.name, schema.of.description, schema.of.version}
            /\ schema.of.strict => OperatorsIn(schema.was) \cap Malformed = {}
            /\ 0 < schema.of.metadata.createdAt
            /\ schema.of.metadata.createdAt <= schema.of.metadata.updatedAt
            /\ schema.of.metadata.updatedAt <= drafting.now
=============================================================================
