----------------------------- MODULE KernelStartup -----------------------------
\* The start of an application: kernels are constructed, load environment
\* variables and call dependencyInjection(), in one program and at the same time
\* as others do. The active kernel, DependencyInjection.instance, process.env
\* and services.yaml are shared; a container is its kernel's own. A step of
\* dependencyInjection() runs from one await to the next.
EXTENDS KernelEnvironment, DependencyInjection

CONSTANTS
    Requests,       \* the options each kernel may call dependencyInjection() with
    Catalogues,     \* the services a source tree may hold
    Manifests,      \* what services.yaml may hold before, None without the file
    Environments,   \* arguments of loadEnvironmentVariables(), or Unset
    OtherSchemas,   \* what options.schema may be, Unset if it is not there
    MaxCalls,       \* bound: calls of dependencyInjection()
    MaxCallsFirst   \* bound: how many of them come before a load

\* TypeScript lets no abstract class be a useClass.
ASSUME ServicesAssumption ==
    \A services \in Catalogues \cup (Manifests \ {None}) :
        /\ services \in Seq(Definitions)
        /\ \A d \in ToSet(services), k \in Kernels : d.abstract =>
              \A request \in Requests[k] : \A o \in ToSet(request.overrides) :
                  o.kind = "useClass" => o.use # d.delivers

ASSUME OverridesAssumption ==
    \A k \in Kernels : \A request \in Requests[k] : request.overrides \in Seq(Overrides)

ASSUME RequestsAssumption ==
    \A k \in Kernels : \A request \in Requests[k], build \in BOOLEAN :
        [containerBuild |-> build, overrides |-> request.overrides] # None

VARIABLES
    sources,            \* the services Autowire finds in the source tree
    servicesYaml,       \* what services.yaml holds now
    activeKernel,       \* Kernel.state.activeKernel
    configuredInstance, \* the kernel that DependencyInjection.configure() made
                        \* the static instance for
    phase,              \* how far dependencyInjection() of each kernel is
    options,            \* the options its instance was made with
    container,          \* its container
    calls,              \* calls of dependencyInjection(), per kernel
    apart,              \* history: kernels whose instance was made with new
    overtaken           \* history: kernels that the application's configure() came
                        \* after, or another kernel's while they were starting

historyVars == <<apart, overtaken>>
diVars == <<sources, servicesYaml, activeKernel, configuredInstance, phase,
            options, container, calls, historyVars>>
vars == <<environmentVars, diVars>>

\* Phases between two awaits of dependencyInjection().
Busy == {"loading", "compiling"}

Init ==
    /\ EnvironmentInit
    /\ sources \in Catalogues
    /\ servicesYaml \in Manifests
    /\ activeKernel = None
    /\ configuredInstance = None
    /\ phase = [k \in Kernels |-> "none"]
    /\ options = [k \in Kernels |-> None]
    /\ container = [k \in Kernels |-> EmptyContainer]
    /\ calls = [k \in Kernels |-> 0]
    /\ apart = {}
    /\ overtaken = {}

LoadEnvironment ==
    /\ SumFunction(calls) <= MaxCallsFirst
    /\ \E e \in Environments, override \in BOOLEAN :
          \/ LoadStatic(e, override)
          \/ \E k \in Kernels, schema \in OtherSchemas :
                /\ phase[k] # "none"
                /\ Load(k, e, override, IF schema = Unset THEN SchemaOf[k] ELSE schema)
    /\ UNCHANGED diVars

\* getDependencyInjectionOptions(), and the options that a DependencyInjection has
\* by itself: a missing containerBuild is read from process.env.
Resolve(request) ==
    [containerBuild |-> IF request.containerBuild # "unset"
                        THEN request.containerBuild = "true"
                        ELSE processEnv["CONTAINER_BUILD"] = "true",
     overrides |-> request.overrides]

\* The application makes the container that it gives to kernel k as options.di:
\* with configure(), which makes it the static instance, or with new.
MakeContainer(k, request, configured) ==
    /\ phase[k] = "none"
    /\ options[k] = None
    /\ options' = [options EXCEPT ![k] = Resolve(request)]
    /\ IF configured
       THEN /\ configuredInstance' = k
            /\ overtaken' = overtaken \cup {j \in Kernels \ {k} : options[j] # None}
            /\ UNCHANGED apart
       ELSE /\ apart' = apart \cup {k}
            /\ UNCHANGED <<configuredInstance, overtaken>>
    /\ UNCHANGED <<environmentVars, sources, servicesYaml, activeKernel, phase,
                   container, calls>>

\* The constructor, with options.di if the application made one; a static accessor
\* makes a kernel too when none is active.
Construct(k) ==
    /\ phase[k] = "none"
    /\ phase' = [phase EXCEPT ![k] = "constructed"]
    /\ activeKernel' = k
    /\ UNCHANGED <<environmentVars, sources, servicesYaml, configuredInstance,
                   options, container, calls, historyVars>>

\* What every call of dependencyInjection() does first.
Begin(k) ==
    /\ phase[k] \in {"constructed", "failed", "ready"}
    /\ SumFunction(calls) < MaxCalls
    /\ calls' = [calls EXCEPT ![k] = @ + 1]
    /\ phase' = [phase EXCEPT ![k] = "loading"]
    /\ activeKernel' = k
    /\ UNCHANGED <<environmentVars, sources, servicesYaml, container, apart>>

\* The kernels whose instance waits for a first call, or for one to settle.
Starting == {k \in Kernels : options[k] # None /\ (calls[k] = 0 \/ phase[k] \in Busy)}

\* Mutant: the static instance is configured once in a program.
ConfigureOnce(k, request) ==
    /\ Begin(k)
    /\ IF options[k] = None
       THEN /\ options' = [options EXCEPT ![k] = Resolve(request)]
            /\ configuredInstance' = IF configuredInstance = None THEN k
                                     ELSE configuredInstance
            /\ overtaken' = overtaken \cup (Starting \ {k})
       ELSE UNCHANGED <<options, configuredInstance, overtaken>>

\* Mutant: every call makes a new instance.
StartAnew(k, request) ==
    /\ Begin(k)
    /\ options' = [options EXCEPT ![k] = Resolve(request)]
    /\ configuredInstance' = k
    /\ overtaken' = overtaken \cup (Starting \ {k})

\* dependencyInjection() up to its first await: without an instance, given or left
\* by an earlier call, it makes one and the static one; with one it leaves its own
\* options aside.
Start(k, request) ==
    /\ Begin(k)
    /\ IF options[k] = None
       THEN /\ options' = [options EXCEPT ![k] = Resolve(request)]
            /\ configuredInstance' = k
            /\ overtaken' = overtaken \cup (Starting \ {k})
       ELSE UNCHANGED <<options, configuredInstance, overtaken>>

\* compile(): the services come from the source tree, and services.yaml is
\* written, or from services.yaml, which may not be there; parent aliases and
\* overrides follow without an await. A factory that throws makes it reject.
LoadServices(k) ==
    /\ phase[k] = "loading"
    /\ LET loaded == IF options[k].containerBuild THEN sources ELSE servicesYaml
           compiled == Compiled(container[k], loaded, options[k].overrides)
       IN /\ servicesYaml' = loaded
          /\ IF loaded = None
             THEN UNCHANGED container
             ELSE container' = [container EXCEPT ![k] = compiled]
          /\ phase' = [phase EXCEPT ![k] =
                IF loaded = None \/ compiled.threw THEN "failed" ELSE "compiling"]
    /\ UNCHANGED <<environmentVars, sources, activeKernel, configuredInstance,
                   options, calls, historyVars>>

\* compile() rejects before that: a file that cannot be read, parsed or written, or
\* a container that was compiled already and takes no more. services.yaml may be
\* written by then.
LoadFails(k) ==
    /\ phase[k] = "loading"
    /\ \/ UNCHANGED servicesYaml
       \/ options[k].containerBuild /\ servicesYaml' = sources
    /\ phase' = [phase EXCEPT ![k] = "failed"]
    /\ UNCHANGED <<environmentVars, sources, activeKernel, configuredInstance,
                   options, container, calls, historyVars>>

\* container.compile() settles; the kernel is active, whichever was meanwhile.
CompileSettles(k) ==
    /\ phase[k] = "compiling"
    /\ \/ /\ phase' = [phase EXCEPT ![k] = "ready"]
          /\ activeKernel' = k
       \/ /\ phase' = [phase EXCEPT ![k] = "failed"]
          /\ UNCHANGED activeKernel
    /\ UNCHANGED <<environmentVars, sources, servicesYaml, configuredInstance,
                   options, container, calls, historyVars>>

Next ==
    \/ LoadEnvironment
    \/ \E k \in Kernels :
          \/ \E request \in Requests[k], configured \in BOOLEAN :
                MakeContainer(k, request, configured)
          \/ Construct(k)
          \/ \E request \in Requests[k] : Start(k, request)
          \/ LoadServices(k)
          \/ LoadFails(k)
          \/ CompileSettles(k)

Spec == Init /\ [][Next]_vars

(***************************************************************************)
(* Properties.                                                              *)
(***************************************************************************)
\* What docs/reference/kernel.md says a variable becomes, per value and schema:
\* the default of what is absent or blank, a word for a boolean in any case, a
\* finite number, a string as it is; and one of the choices.
Documented(d, raw, value) ==
    /\ CASE IsMissing(raw) -> ~d.required /\ value = d.defaultValue
         [] OTHER -> CASE d.type = "boolean" ->
                             \/ ToLowerCase(raw) \in Truthy /\ value = "true"
                             \/ ToLowerCase(raw) \in Falsy /\ value = "false"
                       [] d.type = "number" ->
                             raw \in DOMAIN NumberOf /\ value = NumberOf[raw]
                       [] OTHER -> value = raw
    /\ d.choices # Unset /\ value # Unset => value \in d.choices

\* A kernel takes over new values only if all of process.env is as its schema
\* documents, whichever schema the call came with and whatever file and earlier
\* load the values are from; a load that throws leaves it the values it had.
LoadsConform ==
    [][\A k \in Kernels : environmentVariables'[k] # environmentVariables[k] =>
          \A n \in Names :
             IF n \in DOMAIN SchemaOf[k]
             THEN Documented(SchemaOf[k][n], processEnv'[n], environmentVariables'[k][n])
             ELSE environmentVariables'[k][n] = processEnv'[n]]_vars

\* What the services and the overrides declare for each token: its last override,
\* its last concrete child, or itself.
Children(definitions, id) ==
    {n \in DOMAIN definitions : ~definitions[n].abstract /\ definitions[n].parent = id}

DeclaredService(definitions, token) ==
    IF token.literal THEN None
    ELSE IF Children(definitions, IdOf(token)) # {}
         THEN definitions[Max(Children(definitions, IdOf(token)))].delivers
    ELSE IF \E d \in ToSet(definitions) : d.id = IdOf(token) /\ ~d.abstract THEN token
    ELSE None

Declared(definitions, overrides) ==
    LET after[n \in 0..Len(overrides)] ==
            IF n = 0 THEN [t \in Tokens |-> DeclaredService(definitions, t)]
            ELSE LET o == overrides[n]
                 IN [after[n - 1] EXCEPT ![o.token] =
                        IF o.kind = "useFactory" THEN after[n - 1][o.use] ELSE o.use]
    IN after

\* No two classes or strings, t among them, have one base name: idNamesService()
\* could not tell the classes apart, nor getOverrideId() any of them.
Unambiguous(c, overrides, t) ==
    LET services == {d \in ToSet(c.definitions) : d.id.dir \notin OverridePrefixes}
        named == {t} \cup {o.token : o \in ToSet(overrides)}
                     \cup {o.use : o \in {p \in ToSet(overrides) : p.kind # "useValue"}}
        ids == {d.id : d \in services} \cup ({d.parent : d \in services} \ {None})
                   \cup {IdOf(u) : u \in named}
    IN \A x, y \in ids : x.name = y.name => x = y

Replaced(overrides, ns) == {overrides[n].token : n \in ns}

\* An alias is left of services that were loaded by an earlier call and have
\* another parent now; or the call is not the first, and a factory asks for what
\* only it or a later override replaces: what it gets is the replacement the call
\* before has left.
Leftover(k) ==
    LET c == container[k]
        overrides == options[k].overrides
    IN \/ \E a \in ToSet(c.aliases) :
            /\ a.id.dir \notin OverridePrefixes
            /\ Children(c.definitions, a.id) = {}
            /\ ~\E o \in ToSet(overrides) : IdNamesService(a.id, o.token)
       \/ /\ calls[k] > 1
          /\ \E n \in DOMAIN overrides :
                /\ overrides[n].kind = "useFactory"
                /\ overrides[n].use \in Replaced(overrides, n..Len(overrides))
                                         \ Replaced(overrides, 1..n - 1)

\* getService() and the constructors that get the service injected by its id
\* agree, for every class with a name of its own: they get what its last override
\* says, of whatever kind and however the contract is known to the container,
\* else its last concrete child, else the class. Unless that is replaced itself:
\* then the container decides whether an alias leads on.
ResolvesAsDeclared ==
    \A k \in Kernels : phase[k] = "compiling" /\ ~Leftover(k) =>
        LET c == container[k]
            overrides == options[k].overrides
            declared == Declared(c.definitions, overrides)[Len(overrides)]
            ids == {d.id : d \in ToSet(c.definitions)}
                   \cup UNION {ToSet(d.references) : d \in ToSet(c.definitions)}
            Fit(t) == /\ Unambiguous(c, overrides, t)
                      /\ declared[t] \in Tokens => Entry(c.aliases, IdOf(declared[t])) = None
        IN \A t \in {u \in Tokens : Fit(u)} :
              /\ GetService(c, t) = declared[t]
              /\ \A id \in ids :
                    IdNamesService(id, t)
                    /\ (id = IdOf(t) \/ \E o \in ToSet(overrides) : o.token = t)
                       => Get(c, id) = declared[t]
              /\ HasService(c, t) \/ declared[t] = None

\* There is no services.yaml, and every kernel was told not to write one.
Stuck ==
    /\ servicesYaml = None
    /\ \A k \in Kernels : phase[k] # "none" =>
          /\ phase[k] \in {"loading", "failed"}
          /\ ~options[k].containerBuild

\* Every kernel was first started without services.yaml and without
\* containerBuild: none of them starts any more, whatever options it is called
\* with again, since the first call left its instance behind. It takes another
\* kernel to write the file.
NoWayBack ==
    [][Stuck => \/ Stuck'
                \/ \E k \in Kernels : phase[k] = "none" /\ phase'[k] # "none"]_vars

\* Kernel.di and DependencyInjection.instance are one container once the active
\* kernel has started, whatever other kernels do at the same time. The exceptions
\* are of that kernel alone: it was given a container that was never the static
\* one, or the application configured another one after its own, or another kernel
\* made one between the making of its own and the end of its start, or it is
\* started again.
ActiveIsConfigured ==
    activeKernel # None =>
        \/ phase[activeKernel] = "constructed"
        \/ configuredInstance = activeKernel
        \/ activeKernel \in apart \cup overtaken
        \/ calls[activeKernel] > 1
================================================================================
