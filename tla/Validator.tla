------------------------------ MODULE Validator ------------------------------
(***************************************************************************)
(* Validator and ValidatorBuilder of packages/validator: the registry of   *)
(* schemas and their compiled validators, the cache and the loader behind  *)
(* validateAsync.  A schema is a value that compiles or does not.          *)
(***************************************************************************)
EXTENDS Naturals, Sequences, SequencesExt, FiniteSets, Functions

CONSTANTS
    SchemaTypes,
    Good, Bad,      \* schemas that compile, and that do not
    MaxCalls        \* bound on the calls of validateAsync

VARIABLE registry
\* schemas and validators by type; caching, and what is cached; loader: there
\* is one; keywords: the custom validations added; calls: of validateAsync.
\* Of the model: failed, the types registered in vain since they last were,
\* and shown, the schemas that each type was ever given

Put2(f, k, v) == [j \in DOMAIN f \cup {k} |-> IF j = k THEN v ELSE f[j]]

Bare(caching, loader) ==
    [schemas |-> <<>>, validators |-> <<>>, caching |-> caching, cached |-> <<>>,
     loader |-> loader, keywords |-> 0, calls |-> <<>>, failed |-> {}]

\* Mutant of Registered: a schema that fails to compile keeps its validator out.
RegisteredOnce(r, t, s) ==
    IF t \in DOMAIN r.schemas THEN r
    ELSE [r EXCEPT !.schemas = Put2(@, t, s), !.validators = Put2(@, t, [schema |-> s, keywords |-> r.keywords])]

\* registerSchema: the schema is noted first, then compiled, then cached.
Registered(r, t, s) ==
    LET noted == [r EXCEPT !.schemas = Put2(@, t, s)]
    IN  IF s \in Bad THEN [noted EXCEPT !.failed = @ \cup {t}]
        ELSE [noted EXCEPT
                !.validators = Put2(@, t, [schema |-> s, keywords |-> r.keywords]),
                !.cached = IF r.caching THEN Put2(@, t, s) ELSE @,
                !.failed = @ \ {t}]

\* registerSchemas stops at the first type whose schema does not compile.
RegisteredAll(r, entries) ==
    LET upTo == SelectInSeq(entries, LAMBDA e : e[2] \in Bad)
    IN  FoldLeft(LAMBDA a, e : Registered(a, e[1], e[2]), r,
                 IF upTo = 0 THEN entries ELSE SubSeq(entries, 1, upTo))

Pairs(f) == LET ks == SetToSeq(DOMAIN f) IN [i \in DOMAIN ks |-> <<ks[i], f[ks[i]]>>]

\* ValidatorBuilder.build of a map of schemas.
BuiltFrom(schemas, caching, loader) == RegisteredAll(Bare(caching, loader), Pairs(schemas))

\* exportSchemas shows what was noted, compiled or not.
Exported(r) == r.schemas

----------------------------------------------------------------------------
ValidatorInit ==
    \E schemas \in UNION {[T -> Good] : T \in SUBSET SchemaTypes}, caching, loader \in BOOLEAN :
        registry = BuiltFrom(schemas, caching, loader)

Register(t, s) == registry' = Registered(registry, t, s)

Import(entries) == registry' = RegisteredAll(registry, entries)

\* enableSchemaCache starts an empty cache with all that was noted.
EnableCache == registry' = [registry EXCEPT !.caching = TRUE, !.cached = registry.schemas]

SetLoader == ~registry.loader /\ registry' = [registry EXCEPT !.loader = TRUE]

\* A custom validation serves the schemas compiled after it.
AddCustomValidation ==
    registry.keywords = 0 /\ registry' = [registry EXCEPT !.keywords = 1]

\* The LRU cache drops an entry, for its age or for another.
Forget(t) ==
    /\ t \in DOMAIN registry.cached
    /\ registry' = [registry EXCEPT !.cached = Restrict(@, DOMAIN @ \ {t})]

CallOf(t, st) == [type |-> t, st |-> st]
Verdict(r, t) == IF t \in DOMAIN r.validators THEN r.validators[t].schema ELSE "throws"

\* validateAsync and its like: a type without a validator is taken from the
\* cache or asked of the loader, which may take its time.
ValidateAsync(t) ==
    /\ Len(registry.calls) < MaxCalls
    /\ registry' =
        CASE t \in DOMAIN registry.validators ->
                [registry EXCEPT !.calls = Append(@, CallOf(t, Verdict(registry, t)))]
          [] t \notin DOMAIN registry.validators /\ t \in DOMAIN registry.cached ->
                LET r == Registered(registry, t, registry.cached[t])
                IN  [r EXCEPT !.calls = Append(@, CallOf(t,
                        IF registry.cached[t] \in Bad THEN "rejected" ELSE Verdict(r, t)))]
          [] OTHER ->
                [registry EXCEPT !.calls = Append(@, CallOf(t,
                        IF registry.loader THEN "loading" ELSE "rejected"))]

\* The loader answers with a schema, or none; another may have come meanwhile.
Loaded(i, s) ==
    LET t == registry.calls[i].type
        r == Registered(registry, t, s)
    IN  /\ registry.calls[i].st = "loading"
        /\ registry' =
            IF s = "none" THEN [registry EXCEPT !.calls[i].st = "rejected"]
            ELSE [r EXCEPT !.calls[i].st = IF s \in Bad THEN "rejected" ELSE Verdict(r, t)]

ValidatorNext ==
    \/ \E t \in SchemaTypes :
          \/ ValidateAsync(t) \/ Forget(t)
          \/ \E s \in Good \cup Bad : Register(t, s)
    \/ \E t, u \in SchemaTypes : \E r, s \in Good \cup Bad :
          t # u /\ Import(<<<<t, r>>, <<u, s>>>>)
    \/ EnableCache \/ SetLoader \/ AddCustomValidation
    \/ \E i \in DOMAIN registry.calls : \E s \in Good \cup Bad \cup {"none"} : Loaded(i, s)

----------------------------------------------------------------------------
\* A type whose last registration did not fail is validated by the schema that
\* getSchema and exportSchemas show, so that a validator built from the export
\* validates as this one; an answered call had a validator, whatever was
\* registered, loaded or dropped from the cache while it waited.
SchemasAgree ==
    LET r == registry
        sound == SchemaTypes \ r.failed
        again == BuiltFrom(Restrict(Exported(r), DOMAIN r.schemas \cap sound), FALSE, FALSE)
        uses(x, t) == IF t \in DOMAIN x.validators THEN x.validators[t].schema ELSE "none"
    IN  /\ \A t \in sound : uses(r, t) = uses(again, t)
        /\ \A i \in DOMAIN r.calls : r.calls[i].st # "throws"
=============================================================================
