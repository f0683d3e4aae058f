-------------------------- MODULE DependencyInjection --------------------------
\* DependencyInjection: what compile() registers in the container beside the
\* services it loads, and how getService() finds a service. Operators on a
\* container: the Map of definitions and the Map of aliases of
\* node-dependency-injection, as sequences in the order of insertion, and
\* overrideTokenIds.
\*
\* A class, and a string token, is a record of the directory and the base name
\* of its file; the service id of a class is the same record. An override names
\* the ids it makes after the token, under a prefix, in place of a directory.
EXTENDS Integers, Sequences, SequencesExt

CONSTANTS
    None,           \* undefined, and what a lookup that throws delivers
    Tokens,         \* the classes and the string tokens that are asked for
    Values,         \* what useValue may deliver
    ServiceIds,     \* ids that services have and refer to
    AliasOfAlias    \* does the container follow the alias of an alias?

OverridePrefixes == {"token", "class", "factory", "value"}

OverrideId(prefix, token) == [dir |-> prefix, name |-> token.name]

\* The base name of an id is the name of the class. A string
\* has no class name, and the whole of an override's id is its base name.
IdNamesService(id, token) ==
    /\ ~token.literal
    /\ id.dir \notin OverridePrefixes
    /\ id.name = token.name

IdOf(token) == [dir |-> token.dir, name |-> token.name]

Classes == {t \in Tokens : ~t.literal}

Ids == ServiceIds \cup {OverrideId(p, t) : p \in OverridePrefixes, t \in Tokens}

Services ==
    [id : Ids, abstract : BOOLEAN, parent : ServiceIds \cup {None},
     references : Seq(ServiceIds), delivers : Tokens \cup Values \cup {None}]

\* What a source tree, and services.yaml, may define.
Definitions ==
    {d \in Services : /\ d.id \in ServiceIds /\ d.delivers \in Classes
                      /\ d.id = IdOf(d.delivers)}

Overrides ==
    [token : Tokens, kind : {"useClass"}, use : Classes]
        \cup [token : Tokens, kind : {"useFactory"}, use : Tokens]
        \cup [token : Tokens, kind : {"useValue"}, use : Values]

\* Classes are told apart by their ids, which are not those of overrides; a
\* string is no service's id.
ASSUME IdsAssumption ==
    /\ None \notin Tokens \cup Values \cup Ids \cup {IdOf(t) : t \in Tokens}
    /\ None \notin Services
    /\ None \notin [id : Ids, target : Ids]
    /\ AliasOfAlias \in BOOLEAN
    /\ Tokens \cap Values = {}
    /\ \A t \in Tokens : t.literal \in BOOLEAN
    /\ \A t, u \in Tokens : IdOf(t) = IdOf(u) => t = u
    /\ \A t \in Tokens : t.literal => IdOf(t) \notin ServiceIds
    /\ \A id \in ServiceIds \cup {IdOf(t) : t \in Tokens} : id.dir \notin OverridePrefixes

\* Map.set() and Map.get(), on sequences of entries with an id.
Put(entries, entry) ==
    IF \E n \in DOMAIN entries : entries[n].id = entry.id
    THEN [n \in DOMAIN entries |-> IF entries[n].id = entry.id THEN entry ELSE entries[n]]
    ELSE Append(entries, entry)

Entry(entries, id) ==
    IF \E e \in ToSet(entries) : e.id = id
    THEN CHOOSE e \in ToSet(entries) : e.id = id
    ELSE None

\* The id of the last of these entries.
LastId(entries, positions) == IF positions = {} THEN None ELSE entries[Max(positions)].id

\* container.register() and container.set(): a service without a parent.
Service(id, delivers) ==
    [id |-> id, abstract |-> FALSE, parent |-> None, references |-> <<>>,
     delivers |-> delivers]

Register(c, id, delivers) == [c EXCEPT !.definitions = Put(@, Service(id, delivers))]

SetAlias(c, id, target) ==
    [c EXCEPT !.aliases = Put(@, [id |-> id, target |-> target])]

\* container.get(): an alias shadows a definition of its id; aliases that lead
\* back to where they began, and abstract classes, deliver nothing.
Get(c, id) ==
    LET Target[hops \in 0..Len(c.aliases) + 1] ==
            IF hops = 0 THEN id
            ELSE LET alias == Entry(c.aliases, Target[hops - 1])
                 IN IF alias = None THEN Target[hops - 1] ELSE alias.target
        target == Target[IF AliasOfAlias THEN Len(c.aliases) + 1 ELSE 1]
        definition == Entry(c.definitions, target)
    IN IF \/ AliasOfAlias /\ Entry(c.aliases, target) # None
          \/ definition = None
       THEN None
       ELSE IF definition.abstract THEN None ELSE definition.delivers

(***************************************************************************)
(* Lookup by class.                                                         *)
(***************************************************************************)
FindRegisteredServiceId(c, token) ==
    LastId(c.definitions, {n \in DOMAIN c.definitions : IdNamesService(c.definitions[n].id, token)})

FindAliasServiceId(c, token) ==
    LastId(c.aliases, {n \in DOMAIN c.aliases : IdNamesService(c.aliases[n].id, token)})

FindConcreteChildServiceId(c, token) ==
    LastId(c.definitions, {n \in DOMAIN c.definitions :
        LET d == c.definitions[n]
        IN ~d.abstract /\ d.parent # None /\ IdNamesService(d.parent, token)})

\* Those of the references that are references to the token's name.
Naming(references, token) ==
    LET found[n \in 0..Len(references)] ==
            IF n = 0 THEN <<>>
            ELSE IF IdNamesService(references[n], token)
            THEN Append(found[n - 1], references[n])
            ELSE found[n - 1]
    IN found[Len(references)]

\* Constructor arguments of any service.
FindReferencedServiceIds(c, token) ==
    LET found[n \in 0..Len(c.definitions)] ==
            IF n = 0 THEN <<>>
            ELSE found[n - 1] \o Naming(c.definitions[n].references, token)
    IN found[Len(c.definitions)]

HasService(c, token) ==
    \/ token \in DOMAIN c.overrideTokenIds
    \/ FindAliasServiceId(c, token) # None
    \/ FindConcreteChildServiceId(c, token) # None
    \/ FindRegisteredServiceId(c, token) # None
    \/ /\ token.literal
       /\ Entry(c.definitions, IdOf(token)) # None \/ Entry(c.aliases, IdOf(token)) # None

GetService(c, token) ==
    Get(c, IF token \in DOMAIN c.overrideTokenIds THEN c.overrideTokenIds[token]
           ELSE IF FindAliasServiceId(c, token) # None THEN FindAliasServiceId(c, token)
           ELSE IF FindConcreteChildServiceId(c, token) # None
                THEN FindConcreteChildServiceId(c, token)
           ELSE IF FindRegisteredServiceId(c, token) # None
                THEN FindRegisteredServiceId(c, token)
           ELSE IdOf(token))

(***************************************************************************)
(* compile().                                                               *)
(***************************************************************************)
\* A parent becomes an alias of its last concrete child.
RegisterParentAliases(c) ==
    LET after[n \in 0..Len(c.definitions)] ==
            IF n = 0 THEN c
            ELSE LET d == c.definitions[n]
                 IN IF d.abstract \/ d.parent = None THEN after[n - 1]
                    ELSE SetAlias(after[n - 1], d.parent, d.id)
    IN after[Len(c.definitions)]

\* getOverrideTokenIds(): every id that the token may be asked by, in this order.
KnownTokenIds(c, token) ==
    LET Known(id) == IF id = None THEN <<>> ELSE <<id>>
    IN Known(FindRegisteredServiceId(c, token)) \o Known(FindAliasServiceId(c, token))
           \o FindReferencedServiceIds(c, token)

\* Mutant: only the first id of the token is redirected.
SetFirstAlias(c, ids, target) == SetAlias(c, ids[1], target)

SetAliases(c, ids, target) ==
    LET after[n \in 0..Len(ids)] ==
            IF n = 0 THEN c ELSE SetAlias(after[n - 1], ids[n], target)
    IN after[Len(ids)]

\* The ids of the token become aliases of the replacement.
Override(c, token, ids, target) ==
    [SetAliases(c, ids, target) EXCEPT
        !.overrideTokenIds = [t \in DOMAIN @ \cup {token} |-> IF t = token THEN ids[1] ELSE @[t]]]

\* One override of the options. A token without an id gets one of its own, a
\* class that is not registered is, and a factory is called at once: it may ask
\* for a service of the container as it is then, and throws when there is none.
ApplyOverride(c, o) ==
    LET known == KnownTokenIds(c, o.token)
        tokenId == OverrideId("token", o.token)
        ids == IF known = <<>> THEN <<tokenId>> ELSE known
        d == IF known = <<>> THEN Register(c, tokenId, None) ELSE c
        valueId == OverrideId("value", o.token)
        factoryId == OverrideId("factory", o.token)
        registered == FindRegisteredServiceId(d, o.use)
        classId == IF registered = None THEN OverrideId("class", o.use) ELSE registered
    IN CASE o.kind = "useClass" ->
              Override(IF registered = None THEN Register(d, classId, o.use) ELSE d,
                       o.token, ids, classId)
         [] o.kind = "useFactory" /\ GetService(d, o.use) # None ->
              Override(Register(d, factoryId, GetService(d, o.use)), o.token, ids, factoryId)
         [] o.kind = "useFactory" /\ GetService(d, o.use) = None ->
              [d EXCEPT !.threw = TRUE]
         [] o.kind = "useValue" ->
              Override(Register(d, valueId, o.use), o.token, ids, valueId)

EmptyContainer ==
    [definitions |-> <<>>, aliases |-> <<>>, overrideTokenIds |-> <<>>, threw |-> FALSE]

\* Loaded services join those that are there.
Loaded(c, services) ==
    LET after[n \in 0..Len(services)] ==
            IF n = 0 THEN c.definitions ELSE Put(after[n - 1], services[n])
    IN [c EXCEPT !.definitions = after[Len(services)], !.threw = FALSE]

\* applyOverrides(), until one throws.
ApplyOverrides(c, overrides) ==
    LET after[n \in 0..Len(overrides)] ==
            IF n = 0 THEN c
            ELSE IF after[n - 1].threw THEN after[n - 1]
            ELSE ApplyOverride(after[n - 1], overrides[n])
    IN after[Len(overrides)]

\* What compile() makes of a container, up to container.compile().
Compiled(c, services, overrides) ==
    ApplyOverrides(RegisterParentAliases(Loaded(c, services)), overrides)
================================================================================
